---------------------------- MODULE PaymentProofs ----------------------------
(***************************************************************************)
(* Proofs about PaymentService for any number of calls and orders, every   *)
(* limit on the amount, and every mixture of failing statements, broken    *)
(* connections, cancelled clients, shutdowns, crashes and restarts.        *)
(***************************************************************************)
EXTENDS PaymentService, WellFoundedInduction, SequenceTheorems, TLAPS

USE DEF local, publisher, broker, table, None, MaxAttempts

-----------------------------------------------------------------------------
(* Greatest members *)

\* A set of naturals with a bound has a greatest member.
LEMMA Greatest ==
    ASSUME NEW S \in SUBSET Nat, NEW n \in Nat, \A k \in S : k <= n, S # {}
    PROVE  \E m \in S : \A k \in S : k <= m
<1> DEFINE R == OpToRel(<, Nat)
           T == {k \in Nat : n - k \in S}
<1>1. IsWellFoundedOn(R, Nat)
  BY NatLessThanWellFounded, Zenon
<1>2. T \in SUBSET Nat /\ T # {}
  <2>1. PICK k \in S : TRUE
    OBVIOUS
  <2>2. n - k \in Nat /\ n - (n - k) = k
    BY <2>1
  <2> QED
    BY <2>1, <2>2
<1>3. \A x, y \in Nat : <<y, x>> \in R <=> y < x
  BY DEF OpToRel
<1> HIDE DEF R
<1>4. \E x \in T : \A y \in T : ~(<<y, x>> \in R)
  BY <1>1, <1>2, WFMin
<1>5. PICK x \in T : \A y \in T : ~(y < x)
  BY <1>2, <1>3, <1>4
<1>6. n - x \in S /\ x \in Nat
  OBVIOUS
<1>7. ASSUME NEW k \in S PROVE k <= n - x
  <2>1. k \in Nat /\ n - k \in Nat /\ n - (n - k) = k
    OBVIOUS
  <2>2. n - k \in T
    BY <2>1
  <2>3. ~(n - k < x)
    BY <1>5, <2>2
  <2> QED
    BY <1>6, <2>1, <2>3
<1> QED
  BY <1>6, <1>7

-----------------------------------------------------------------------------
(* The inductive invariant *)

Channels == {"open", "down", "nil"}
Phases == {"running", "stopping", "closing", "stopped"}

LEMMA Domains ==
    ASSUME TypeOK
    PROVE  /\ op \in [Calls -> Ops]
           /\ pc \in [Calls -> ControlPoints]
           /\ status \in [Calls -> Statuses \cup {"None"}]
           /\ reply \in [Calls -> Replies]
           /\ shown \in [Calls -> Calls \cup {Nobody}]
           /\ attempt \in [Calls -> 0 .. 3]
           /\ payments \in [Calls -> Statuses \cup {"None"}]
           /\ created \in Seq(Calls)
           /\ holder \in Calls \cup {Nobody, Main}
           /\ channel \in Channels
           /\ queued \in [Calls -> 0 .. 3]
           /\ service \in Phases
BY DEF TypeOK, Channels, Phases

\* What a call has done at each of its control points.
CallState(c) ==
    /\ pc[c] = "idle" => status[c] = None
    /\ status[c] # None => \E i \in DOMAIN created : created[i] = c
    /\ payments[c] # None => payments[c] = status[c]
    /\ pc[c] \in {"idle", "insert"} => payments[c] = None
    /\ pc[c] = "insert" => status[c] \in Statuses
    /\ pc[c] \in {"lock", "publish", "sleep"} => status[c] = "Authorized" /\ payments[c] = "Authorized"
    /\ pc[c] \in {"read", "list"} => status[c] = None
    /\ pc[c] # "done" => reply[c] = None /\ queued[c] = 0
    /\ queued[c] > 0 => payments[c] = "Authorized" /\ queued[c] = 1
    /\ reply[c] \in Statuses => payments[c] = reply[c]
    /\ payments[c] # None => reply[c] \in {None, payments[c], "Internal", "Panicked"}
    /\ reply[c] = "Panicked" => ~Rpc(c)

CallsState == \A c \in Calls : CallState(c)

\* The mutex and the channel against the control points, and the phases of main
\* against the channel and the RPCs that may still run.
MutexState ==
    /\ \A c \in Calls : pc[c] \in {"publish", "sleep"} <=> holder = c
    /\ channel = "nil" => service \in {"closing", "stopped"} /\ holder \in {Nobody, Main}
    /\ holder = Main => service = "closing"
    /\ service = "closing" /\ holder # Main => channel = "nil"
    /\ service = "stopped" => channel = "nil" /\ holder = Nobody
    /\ service \in {"closing", "stopped"} => \A c \in Calls : Rpc(c) => ~Active(c)
    /\ service = "stopped" => \A c \in Calls : ~Active(c)

\* Publisher.Close.
Closing == LockPublisher \/ CloseChannel \/ CloseConnection

\* With the broker up and the queue bound.
BrokerStays == {"broker", "unbound"} \cap Environment = {}
AnnouncedState ==
    BrokerStays =>
        /\ bound = TRUE /\ channel # "down"
        /\ \A c \in Calls : pc[c] # "sleep" /\ (reply[c] = "Authorized" => queued[c] = 1)

IInv == TypeOK /\ CallsState /\ MutexState /\ AnnouncedState

LEMMA InitInv == Init => IInv
<1> SUFFICES ASSUME Init PROVE IInv
  OBVIOUS
<1>1. TypeOK
  BY EmptySeq DEF Init, TypeOK, ControlPoints, Replies
<1>2. CallsState
  BY DEF Init, CallsState, CallState, Statuses
<1>3. MutexState
  BY ConstantsAssumption DEF Init, MutexState, Active, Steps
<1>4. AnnouncedState
  BY DEF Init, AnnouncedState, BrokerStays
<1> QED
  BY <1>1, <1>2, <1>3, <1>4 DEF IInv

-----------------------------------------------------------------------------
(* The newest payment of an order *)

\* A payment that was begun has its place in the order of creation.
LEMMA PositionType ==
    ASSUME TypeOK, CallsState, NEW p \in Calls, payments[p] # None
    PROVE  Position(p) \in 1 .. Len(created) /\ created[Position(p)] = p
<1>1. \E i \in DOMAIN created : created[i] = p
  BY DEF CallsState, CallState
<1>2. DOMAIN created = 1 .. Len(created)
  BY Domains, LenProperties
<1> QED
  BY <1>1, <1>2 DEF Position

\* ORDER BY created_at DESC LIMIT 1 finds a payment if there is one, and none of
\* the order is newer.
LEMMA NewestIsOne ==
    ASSUME TypeOK, CallsState, NEW o, PaymentsOf(o) # {}
    PROVE  /\ Newest(o) \in PaymentsOf(o) /\ Newest(o) \in Calls
           /\ \A q \in PaymentsOf(o) : Position(q) <= Position(Newest(o))
<1> DEFINE S == {Position(p) : p \in PaymentsOf(o)}
<1>1. \A p \in PaymentsOf(o) : p \in Calls /\ Position(p) \in 1 .. Len(created)
  BY PositionType DEF PaymentsOf
<1>2. Len(created) \in Nat
  BY Domains, LenProperties
<1>3. S \in SUBSET Nat /\ S # {} /\ \A k \in S : k <= Len(created)
  BY <1>1, <1>2
<1> HIDE DEF S
<1>4. PICK m \in S : \A k \in S : k <= m
  BY <1>2, <1>3, Greatest
<1>5. \E p \in PaymentsOf(o) : \A q \in PaymentsOf(o) : Position(q) <= Position(p)
  BY <1>4 DEF S
<1> QED
  BY <1>1, <1>5 DEF Newest

-----------------------------------------------------------------------------
(* Types *)

LEMMA TypeStep ==
    ASSUME IInv, [Next]_vars
    PROVE  TypeOK'
<1> USE DEF ControlPoints, Steps, Statuses, Replies
<1>0. TypeOK /\ CallsState
  BY DEF IInv
<1> USE Domains
<1>1. ASSUME NEW c \in Calls, RefuseAmount(c) PROVE TypeOK'
  BY <1>0, <1>1 DEF TypeOK, RefuseAmount, Reply, Goto
<1>2. ASSUME NEW c \in Calls, BeginCharge(c) PROVE TypeOK'
  <2>1. created' \in Seq(Calls)
    BY <1>0, <1>2, AppendProperties DEF BeginCharge
  <2> QED
    BY <1>0, <1>2, <2>1 DEF TypeOK, BeginCharge, Decide, Goto
<1>3. ASSUME NEW c \in Calls, BeginQuery(c) PROVE TypeOK'
  BY <1>0, <1>3 DEF TypeOK, BeginQuery, Goto
<1>4. ASSUME NEW c \in Calls, Insert(c) PROVE TypeOK'
  BY <1>0, <1>4 DEF TypeOK, Insert, Reply, Goto
<1>5. ASSUME NEW c \in Calls, Lock(c) PROVE TypeOK'
  <2>1. pc' \in [Calls -> ControlPoints] /\ reply' \in [Calls -> Replies]
    <3>1. CASE channel = "nil"
      BY <1>0, <1>5, <3>1 DEF Lock, Reply, Goto
    <3>2. CASE channel # "nil"
      BY <1>0, <1>5, <3>2 DEF Lock, Goto
    <3> QED
      BY <3>1, <3>2
  <2>2. attempt' \in [Calls -> 0 .. 3] /\ holder' \in Calls \cup {Nobody, Main}
    BY <1>0, <1>5 DEF TypeOK, Lock
  <2>3. UNCHANGED <<op, status, shown, gone, table, channel, broker, service>>
    BY <1>5 DEF Lock
  <2> QED
    BY <1>0, <2>1, <2>2, <2>3 DEF TypeOK
<1>6. ASSUME NEW c \in Calls, PublishAccepted(c) PROVE TypeOK'
  <2>1. queued[c] = 0
    BY <1>0, <1>6 DEF CallsState, CallState, PublishAccepted
  <2>2. queued' \in [Calls -> 0 .. 3]
    BY <1>0, <1>6, <2>1 DEF PublishAccepted
  <2> QED
    BY <1>0, <1>6, <2>2 DEF TypeOK, PublishAccepted, ReturnPayment, Reply, Goto
<1>7. ASSUME NEW c \in Calls, PublishVanishes(c) PROVE TypeOK'
  BY <1>0, <1>7 DEF TypeOK, PublishVanishes, ReturnPayment, Reply, Goto
<1>8. ASSUME NEW c \in Calls, PublishFails(c) PROVE TypeOK'
  BY <1>0, <1>8 DEF TypeOK, PublishFails, Goto
<1>9. ASSUME NEW c \in Calls, Sleep(c) PROVE TypeOK'
  BY SMTT(30), <1>0, <1>9 DEF TypeOK, Sleep, ReturnPayment, Reply, Goto
<1>10. ASSUME NEW c \in Calls, ListPayments(c) PROVE TypeOK'
  BY <1>0, <1>10 DEF TypeOK, ListPayments, Reply, Goto
<1>11. ASSUME NEW c \in Calls, GetPaymentByOrderID(c) PROVE TypeOK'
  <2>1. PaymentsOf(op[c].order) # {} => Newest(op[c].order) \in Calls
    BY <1>0, NewestIsOne DEF IInv
  <2>2. shown' \in [Calls -> Calls \cup {Nobody}]
    BY <1>0, <1>11, <2>1 DEF GetPaymentByOrderID
  <2>3. pc' \in [Calls -> ControlPoints] /\ reply' \in [Calls -> Replies]
    <3>1. \E r \in {"Internal", "NotFound", "OK"} : Reply(c, r)
      BY <1>11 DEF GetPaymentByOrderID
    <3> QED
      BY <1>0, <3>1 DEF Reply, Goto
  <2>4. UNCHANGED <<op, status, attempt, gone, table, publisher, broker, service>>
    BY <1>11 DEF GetPaymentByOrderID
  <2> QED
    BY <1>0, <2>2, <2>3, <2>4 DEF TypeOK
<1>12. ASSUME NEW c \in Calls, Disconnect(c) PROVE TypeOK'
  BY <1>0, <1>12 DEF TypeOK, Disconnect
<1>13. CASE Exit \/ Crash
  BY <1>0, <1>13 DEF TypeOK, Exit, Crash, Halt, Active
<1>14. CASE Stop \/ Closing \/ Restart \/ LoseBroker \/ BindQueue \/ UNCHANGED vars
  BY <1>0, <1>14 DEF TypeOK, Stop, Closing, LockPublisher,
     CloseChannel, CloseConnection, Restart, LoseBroker, BindQueue, vars
<1> QED
  BY <1>1, <1>2, <1>3, <1>4, <1>5, <1>6, <1>7, <1>8, <1>9, <1>10, <1>11, <1>12, <1>13, <1>14
     DEF Next, Handler, Closing

-----------------------------------------------------------------------------
(* Calls *)

\* A step of another call, which touches nothing of this one but may begin a
\* payment after it.
LEMMA OthersStay ==
    ASSUME TypeOK, NEW q \in Calls, CallState(q), op' = op,
           pc'[q] = pc[q], status'[q] = status[q], reply'[q] = reply[q],
           payments'[q] = payments[q], queued'[q] = queued[q],
           created' = created \/ \E c \in Calls : created' = Append(created, c)
    PROVE  CallState(q)'
<1>1. (\E i \in DOMAIN created : created[i] = q) => \E i \in DOMAIN created' : created'[i] = q
  <2>1. CASE \E c \in Calls : created' = Append(created, c)
    <3>1. PICK c \in Calls : created' = Append(created, c)
      BY <2>1
    <3>2. \A i \in DOMAIN created : i \in DOMAIN created' /\ created'[i] = created[i]
      BY <3>1, Domains, AppendProperties, LenProperties
    <3> QED
      BY <3>2
  <2> QED
    BY <2>1
<1> QED
  BY <1>1 DEF CallState, Rpc, None

LEMMA CallStep ==
    ASSUME IInv, [Next]_vars
    PROVE  CallsState'
<1> USE DEF Goto, Reply
<1> SUFFICES ASSUME NEW q \in Calls PROVE CallState(q)'
  BY DEF CallsState
<1>0. TypeOK /\ CallState(q) /\ CallsState
  BY DEF IInv, CallsState
<1> USE Domains
<1>1. ASSUME NEW c \in Calls, RefuseAmount(c) PROVE CallState(q)'
  <2>1. CASE q # c
    BY <1>0, <1>1, <2>1, OthersStay DEF RefuseAmount
  <2>2. CASE q = c
    BY <1>0, <1>1, <2>2 DEF RefuseAmount, CallState, Statuses
  <2> QED
    BY <2>1, <2>2
<1>2. ASSUME NEW c \in Calls, BeginCharge(c) PROVE CallState(q)'
  <2>1. CASE q # c
    BY <1>0, <1>2, <2>1, OthersStay DEF BeginCharge
  <2>2. CASE q = c
    <3>1. Len(created) + 1 \in DOMAIN created' /\ created'[Len(created) + 1] = c
      BY <1>0, <1>2, AppendProperties, LenProperties DEF BeginCharge
    <3> QED
      BY <1>0, <1>2, <2>2, <3>1 DEF BeginCharge, CallState, Statuses, Decide, Rpc
  <2> QED
    BY <2>1, <2>2
<1>3. ASSUME NEW c \in Calls, BeginQuery(c) PROVE CallState(q)'
  <2>1. CASE q # c
    BY <1>0, <1>3, <2>1, OthersStay DEF BeginQuery
  <2>2. CASE q = c
    BY <1>0, <1>3, <2>2 DEF BeginQuery, CallState, Statuses, Rpc
  <2> QED
    BY <2>1, <2>2
<1>4. ASSUME NEW c \in Calls, Insert(c) PROVE CallState(q)'
  <2>1. CASE q # c
    BY <1>0, <1>4, <2>1, OthersStay DEF Insert
  <2>2. CASE q = c
    BY <1>0, <1>4, <2>2 DEF Insert, Applied, CallState, Statuses, Rpc
  <2> QED
    BY <2>1, <2>2
<1>5. ASSUME NEW c \in Calls, Lock(c) PROVE CallState(q)'
  <2>1. CASE q # c
    BY <1>0, <1>5, <2>1, OthersStay DEF Lock
  <2>2. CASE q = c
    <3>1. channel = "nil" => ~Rpc(c)
      BY <1>5 DEF IInv, MutexState, Lock, Active, Steps
    <3> QED
      BY <1>0, <1>5, <2>2, <3>1 DEF Lock, CallState, Statuses, Rpc
  <2> QED
    BY <2>1, <2>2
<1>6. ASSUME NEW c \in Calls, PublishAccepted(c) PROVE CallState(q)'
  <2>1. CASE q # c
    BY <1>0, <1>6, <2>1, OthersStay DEF PublishAccepted, ReturnPayment
  <2>2. CASE q = c
    BY <1>0, <1>6, <2>2 DEF PublishAccepted, ReturnPayment, CallState, Statuses, Rpc
  <2> QED
    BY <2>1, <2>2
<1>7. ASSUME NEW c \in Calls, PublishVanishes(c) PROVE CallState(q)'
  <2>1. CASE q # c
    BY <1>0, <1>7, <2>1, OthersStay DEF PublishVanishes, ReturnPayment
  <2>2. CASE q = c
    BY <1>0, <1>7, <2>2 DEF PublishVanishes, ReturnPayment, CallState, Statuses, Rpc
  <2> QED
    BY <2>1, <2>2
<1>8. ASSUME NEW c \in Calls, PublishFails(c) \/ Sleep(c) PROVE CallState(q)'
  <2>1. CASE q # c
    BY <1>0, <1>8, <2>1, OthersStay DEF PublishFails, Sleep, ReturnPayment
  <2>2. CASE q = c
    BY <1>0, <1>8, <2>2 DEF PublishFails, Sleep, ReturnPayment, CallState, Statuses, Rpc
  <2> QED
    BY <2>1, <2>2
<1>9. ASSUME NEW c \in Calls, ListPayments(c) \/ GetPaymentByOrderID(c) PROVE CallState(q)'
  <2>1. /\ \E r \in {"Internal", "NotFound", "OK"} : Reply(c, r)
        /\ pc[c] \in {"read", "list"}
        /\ UNCHANGED <<op, status, attempt, gone, table, publisher, broker, service>>
    BY <1>9 DEF ListPayments, GetPaymentByOrderID
  <2>2. CASE q # c
    BY <1>0, <2>1, <2>2, OthersStay
  <2>3. CASE q = c
    BY <1>0, <2>1, <2>3 DEF CallState, Statuses, Rpc
  <2> QED
    BY <2>2, <2>3
<1>10. CASE Exit \/ Crash
  BY <1>0, <1>10 DEF Exit, Crash, Halt, Active, Steps, CallState, Rpc
<1>11. CASE Stop \/ Closing \/ Restart \/ LoseBroker \/ BindQueue \/ UNCHANGED vars
            \/ \E c \in Calls : Disconnect(c)
  BY <1>0, <1>11, OthersStay DEF Stop, Closing, LockPublisher,
     CloseChannel, CloseConnection, Restart, LoseBroker, BindQueue, Disconnect, vars
<1> QED
  BY <1>1, <1>2, <1>3, <1>4, <1>5, <1>6, <1>7, <1>8, <1>9, <1>10, <1>11 DEF Next, Handler, Closing

-----------------------------------------------------------------------------
(* The mutex and the shutdown *)

\* A call that neither takes nor releases the mutex moves between other control
\* points; it starts, ends or goes on.
LEMMA MutexAlone ==
    ASSUME IInv, NEW c \in Calls, NEW p \in ControlPoints \ {"publish", "sleep"},
           pc[c] \notin {"publish", "sleep"}, pc' = [pc EXCEPT ![c] = p],
           Active(c) \/ Accepts(c),
           UNCHANGED <<op, holder, channel, service>>
    PROVE  MutexState'
<1> USE Domains
<1>1. TypeOK /\ MutexState
  BY DEF IInv
<1>2. \A q \in Calls : q # c => pc'[q] = pc[q]
  BY <1>1
<1>3. pc'[c] = p
  BY <1>1
<1>4. service = "stopped" => ~(Active(c) \/ Accepts(c))
  BY <1>1 DEF MutexState, Accepts
<1>5. service = "closing" => ~Rpc(c)
  BY <1>1 DEF MutexState, Accepts
<1> QED
  BY <1>1, <1>2, <1>3, <1>4, <1>5 DEF MutexState, Active, Rpc

LEMMA MutexStep ==
    ASSUME IInv, [Next]_vars
    PROVE  MutexState'
<1> USE Domains DEF Goto, Reply, ControlPoints, Steps
<1>0. TypeOK /\ MutexState
  BY DEF IInv
<1>1. ASSUME NEW c \in Calls, RefuseAmount(c) \/ BeginCharge(c) \/ BeginQuery(c)
      PROVE  MutexState'
  <2>1. /\ \E p \in ControlPoints \ {"publish", "sleep"} : pc' = [pc EXCEPT ![c] = p]
        /\ pc[c] = "idle" /\ Accepts(c) /\ UNCHANGED <<op, holder, channel, service>>
    BY <1>1 DEF RefuseAmount, BeginCharge, BeginQuery
  <2> QED
    BY <2>1, MutexAlone
<1>2. ASSUME NEW c \in Calls, Insert(c) \/ ListPayments(c) \/ GetPaymentByOrderID(c)
      PROVE  MutexState'
  <2>1. /\ \E p \in ControlPoints \ {"publish", "sleep"} : pc' = [pc EXCEPT ![c] = p]
        /\ pc[c] \in {"insert", "list", "read"} /\ UNCHANGED <<op, holder, channel, service>>
    BY <1>2 DEF Insert, ListPayments, GetPaymentByOrderID
  <2> QED
    BY <2>1, MutexAlone DEF Active
<1>3. ASSUME NEW c \in Calls, Lock(c) PROVE MutexState'
  <2>1. CASE channel = "nil"
    <3>1. /\ pc' = [pc EXCEPT ![c] = "done"] /\ pc[c] = "lock"
          /\ UNCHANGED <<op, holder, channel, service>>
      BY <1>3, <2>1 DEF Lock
    <3> QED
      BY <3>1, MutexAlone DEF Active
  <2>2. CASE channel # "nil"
    <3>1. /\ pc' = [pc EXCEPT ![c] = "publish"] /\ holder = Nobody /\ holder' = c
          /\ UNCHANGED <<op, channel, service>>
      BY <1>3, <2>2 DEF Lock
    <3> QED
      BY <1>0, <2>2, <3>1, ConstantsAssumption DEF MutexState
  <2> QED
    BY <2>1, <2>2
<1>4. ASSUME NEW c \in Calls, holder = c, holder' = Nobody, pc' = [pc EXCEPT ![c] = "done"],
             channel' = channel \/ (channel = "open" /\ channel' = "down"),
             UNCHANGED <<op, service>>
      PROVE  MutexState'
  BY <1>0, <1>4, ConstantsAssumption DEF MutexState, Active, Rpc
<1>5. ASSUME NEW c \in Calls, NEW p \in {"publish", "sleep"}, holder = c,
             pc' = [pc EXCEPT ![c] = p], pc[c] \in {"publish", "sleep"},
             UNCHANGED <<op, holder, channel, service>>
      PROVE  MutexState'
  BY <1>0, <1>5, ConstantsAssumption DEF MutexState, Active, Rpc
<1>6. ASSUME NEW c \in Calls,
             PublishAccepted(c) \/ PublishVanishes(c) \/ PublishFails(c) \/ Sleep(c)
      PROVE  MutexState'
  <2>1. pc[c] \in {"publish", "sleep"} /\ holder = c
    BY <1>0, <1>6 DEF MutexState, PublishAccepted, PublishVanishes, PublishFails, Sleep
  <2>2. CASE PublishAccepted(c) \/ PublishVanishes(c)
    <3>1. /\ holder' = Nobody /\ pc' = [pc EXCEPT ![c] = "done"]
          /\ channel' = channel \/ (channel = "open" /\ channel' = "down")
          /\ UNCHANGED <<op, service>>
      BY <2>2 DEF PublishAccepted, PublishVanishes, ReturnPayment
    <3> QED
      BY <1>4, <2>1, <3>1
  <2>3. CASE PublishFails(c)
    BY <1>5, <2>1, <2>3 DEF PublishFails
  <2>4. CASE Sleep(c)
    <3>1. /\ \/ holder' = holder /\ pc' = [pc EXCEPT ![c] = "publish"]
             \/ holder' = Nobody /\ pc' = [pc EXCEPT ![c] = "done"]
          /\ UNCHANGED <<op, channel, service>>
      BY <2>4 DEF Sleep, ReturnPayment
    <3>2. CASE holder' = holder /\ pc' = [pc EXCEPT ![c] = "publish"]
      BY <1>5, <2>1, <3>1, <3>2
    <3>3. CASE holder' = Nobody /\ pc' = [pc EXCEPT ![c] = "done"]
      BY <1>4, <2>1, <3>1, <3>3
    <3> QED
      BY <3>1, <3>2, <3>3
  <2> QED
    BY <1>6, <2>2, <2>3, <2>4
<1>7. CASE Closing
  <2>1. CASE LockPublisher
    BY <1>0, <2>1, ConstantsAssumption DEF MutexState, LockPublisher, Active, Rpc
  <2>2. CASE CloseChannel
    <3>1. holder = Main
      BY <1>0, <2>2 DEF MutexState, CloseChannel
    <3> QED
      BY <1>0, <2>2, <3>1, ConstantsAssumption DEF MutexState, CloseChannel, Active, Rpc
  <2>3. CASE CloseConnection
    BY <1>0, <2>3, ConstantsAssumption DEF MutexState, CloseConnection, Active, Rpc
  <2> QED
    BY <1>7, <2>1, <2>2, <2>3 DEF Closing
<1>8. CASE Exit \/ Crash
  BY <1>0, <1>8, ConstantsAssumption DEF MutexState, Exit, Crash, Halt, Active, Rpc
<1>9. CASE Stop \/ LoseBroker \/ BindQueue \/ UNCHANGED vars \/ \E c \in Calls : Disconnect(c)
  BY <1>0, <1>9 DEF MutexState, Stop, LoseBroker, BindQueue, Disconnect, Active, Rpc, vars
<1>10. CASE Restart
  BY <1>0, <1>10 DEF MutexState, Restart, Active, Rpc
<1> QED
  BY <1>1, <1>2, <1>3, <1>6, <1>7, <1>8, <1>9, <1>10 DEF Next, Handler, Closing

-----------------------------------------------------------------------------
(* Announcements *)

LEMMA AnnouncedStep ==
    ASSUME IInv, [Next]_vars
    PROVE  AnnouncedState'
<1> USE DEF Goto, Reply
<1>0. TypeOK /\ CallsState
  BY DEF IInv
<1> SUFFICES ASSUME BrokerStays
             PROVE  /\ bound' = TRUE /\ channel' # "down"
                    /\ \A q \in Calls : pc'[q] # "sleep" /\ (reply'[q] = "Authorized" => queued'[q] = 1)
  BY DEF AnnouncedState, BrokerStays
<1>1. /\ bound = TRUE /\ channel # "down" /\ "broker" \notin Environment
      /\ \A q \in Calls : pc[q] # "sleep" /\ (reply[q] = "Authorized" => queued[q] = 1)
  BY DEF IInv, AnnouncedState, BrokerStays
<1> USE Domains, <1>0, <1>1
<1>2. ASSUME NEW c \in Calls,
             RefuseAmount(c) \/ BeginCharge(c) \/ BeginQuery(c) \/ ListPayments(c)
               \/ GetPaymentByOrderID(c) \/ Lock(c)
      PROVE  /\ \E p \in {"insert", "read", "list", "publish", "done"} : pc' = [pc EXCEPT ![c] = p]
             /\ reply' = reply \/ \E r \in {"InvalidArgument", "Internal", "NotFound", "OK", "Panicked"} :
                                      reply' = [reply EXCEPT ![c] = r]
             /\ UNCHANGED <<queued, bound, channel>>
  BY <1>2 DEF RefuseAmount, BeginCharge, BeginQuery, ListPayments, GetPaymentByOrderID, Lock
<1>3. ASSUME NEW c \in Calls, Insert(c)
      PROVE  /\ \E p \in {"lock", "done"} : pc' = [pc EXCEPT ![c] = p]
             /\ reply' = reply \/ \E r \in {"Internal", "Declined"} : reply' = [reply EXCEPT ![c] = r]
             /\ UNCHANGED <<queued, bound, channel>>
  <2>1. status[c] \in {"Authorized", "Declined"}
    BY <1>3 DEF CallsState, CallState, Insert, Statuses
  <2> QED
    BY <1>3, <2>1 DEF Insert
<1>4. ASSUME NEW c \in Calls, PublishAccepted(c)
      PROVE  /\ pc' = [pc EXCEPT ![c] = "done"]
             /\ \A q \in Calls : reply'[q] = "Authorized" => queued'[q] = 1
             /\ UNCHANGED <<bound, channel>>
  <2>1. queued[c] = 0
    BY <1>4 DEF CallsState, CallState, PublishAccepted
  <2> QED
    BY <1>4, <2>1 DEF PublishAccepted, ReturnPayment
<1>5. ASSUME NEW c \in Calls PROVE ~PublishVanishes(c) /\ ~PublishFails(c) /\ ~Sleep(c)
  BY <1>1 DEF PublishVanishes, PublishFails, Sleep
<1>6. CASE Exit \/ Crash
  BY <1>6 DEF Exit, Crash, Halt
<1>7. CASE Stop \/ Closing \/ Restart \/ LoseBroker \/ BindQueue \/ UNCHANGED vars
            \/ \E c \in Calls : Disconnect(c)
  BY <1>7 DEF Stop, Closing, LockPublisher,
     CloseChannel, CloseConnection, Restart, LoseBroker, BindQueue, Disconnect, vars
<1>8. ASSUME NEW c \in Calls, PublishAccepted(c)
      PROVE  /\ bound' = TRUE /\ channel' # "down"
             /\ \A q \in Calls : pc'[q] # "sleep" /\ (reply'[q] = "Authorized" => queued'[q] = 1)
  BY <1>4, <1>8
<1>9. ASSUME NEW c \in Calls,
             \/ RefuseAmount(c) \/ BeginCharge(c) \/ BeginQuery(c) \/ ListPayments(c)
             \/ GetPaymentByOrderID(c) \/ Lock(c) \/ Insert(c)
      PROVE  /\ bound' = TRUE /\ channel' # "down"
             /\ \A q \in Calls : pc'[q] # "sleep" /\ (reply'[q] = "Authorized" => queued'[q] = 1)
  <2>1. /\ \E p \in {"insert", "read", "list", "publish", "lock", "done"} : pc' = [pc EXCEPT ![c] = p]
        /\ reply' = reply \/ \E r \in Replies \ {"Authorized"} : reply' = [reply EXCEPT ![c] = r]
        /\ UNCHANGED <<queued, bound, channel>>
    BY <1>2, <1>3, <1>9 DEF Replies, Statuses
  <2>2. \A q \in Calls : reply'[q] = "Authorized" => reply[q] = "Authorized"
    BY <2>1
  <2>3. \A q \in Calls : pc'[q] # "sleep"
    BY <2>1
  <2> QED
    BY <2>1, <2>2, <2>3
<1> QED
  BY <1>5, <1>6, <1>7, <1>8, <1>9 DEF Next, Handler, Closing

-----------------------------------------------------------------------------
(* Replies *)

\* A call is answered once.
LEMMA ReplyStays ==
    ASSUME IInv, [Next]_vars, NEW c \in Calls, reply[c] # None
    PROVE  reply'[c] = reply[c]
<1> USE Domains DEF Goto, Reply
<1>0. TypeOK /\ pc[c] = "done"
  BY DEF IInv, CallsState, CallState
<1>1. ASSUME NEW d \in Calls, d # c, Handler(d) \/ RefuseAmount(d) PROVE reply'[c] = reply[c]
  BY <1>0, <1>1 DEF Handler, RefuseAmount, Insert, Lock, PublishAccepted, PublishVanishes,
     PublishFails, Sleep, GetPaymentByOrderID, ListPayments, ReturnPayment
<1>2. ~Handler(c) /\ ~RefuseAmount(c)
  BY <1>0 DEF Handler, RefuseAmount, Insert, Lock, PublishAccepted, PublishVanishes,
     PublishFails, Sleep, GetPaymentByOrderID, ListPayments
<1>3. ASSUME NEW d \in Calls, BeginCharge(d) \/ BeginQuery(d) \/ Disconnect(d)
      PROVE  reply' = reply
  BY <1>3 DEF BeginCharge, BeginQuery, Disconnect
<1>4. ASSUME Stop \/ Closing \/ Exit \/ Crash \/ Restart \/ LoseBroker \/ BindQueue \/ UNCHANGED vars
      PROVE  reply' = reply
  BY <1>4 DEF Stop, Closing, LockPublisher,
     CloseChannel, CloseConnection, Exit, Crash, Halt, Restart, LoseBroker, BindQueue, vars
<1> QED
  BY <1>1, <1>2, <1>3, <1>4 DEF Next, Closing

\* The money changes in two ways: a call that was begun stores its payment, once, and
\* an authorised payment is announced, once.
LEMMA MoneyStep ==
    ASSUME IInv, [Next]_vars
    PROVE  \/ UNCHANGED <<payments, queued>>
           \/ \E c \in Calls, s \in Statuses :
                /\ pc[c] = "insert" /\ payments[c] = None
                /\ payments' = [payments EXCEPT ![c] = s] /\ queued' = queued
           \/ \E c \in Calls :
                /\ payments[c] = "Authorized" /\ queued[c] = 0
                /\ queued' = [queued EXCEPT ![c] = 1] /\ payments' = payments
<1> USE Domains
<1>1. ASSUME NEW c \in Calls, Insert(c), payments' # payments
      PROVE  /\ pc[c] = "insert" /\ payments[c] = None /\ status[c] \in Statuses
             /\ payments' = [payments EXCEPT ![c] = status[c]] /\ queued' = queued
  BY <1>1 DEF Insert, broker, IInv, CallsState, CallState
<1>2. ASSUME NEW c \in Calls, PublishAccepted(c), queued' # queued
      PROVE  /\ payments[c] = "Authorized" /\ queued[c] = 0
             /\ queued' = [queued EXCEPT ![c] = 1] /\ payments' = payments
  <2>1. pc[c] = "publish" /\ payments' = payments
    BY <1>2 DEF PublishAccepted, table
  <2>2. payments[c] = "Authorized" /\ queued[c] = 0
    BY <2>1 DEF IInv, CallsState, CallState
  <2>3. queued' = [queued EXCEPT ![c] = queued[c] + 1]
    BY <1>2 DEF PublishAccepted, IInv, TypeOK
  <2> QED
    BY <2>1, <2>2, <2>3
<1>3. ASSUME NEW c \in Calls, Insert(c) PROVE queued' = queued
  BY <1>3 DEF Insert, broker
<1>4. ASSUME NEW c \in Calls, PublishAccepted(c) PROVE payments' = payments
  BY <1>4 DEF PublishAccepted, table
<1>5. \/ UNCHANGED <<payments, queued>>
      \/ \E c \in Calls : Insert(c) \/ PublishAccepted(c)
  BY DEF Next, Handler, RefuseAmount, BeginCharge, BeginQuery, Lock, PublishVanishes, PublishFails,
     Sleep, GetPaymentByOrderID, ListPayments, Disconnect, Stop, Closing, LockPublisher,
     CloseChannel, CloseConnection, Exit, Crash, Halt, Restart, LoseBroker, BindQueue, vars, table, broker
<1> QED
  BY <1>1, <1>2, <1>3, <1>4, <1>5

-----------------------------------------------------------------------------
(* The theorems *)

LEMMA Invariance == Spec => []IInv
<1>1. IInv /\ [Next]_vars => IInv'
  BY TypeStep, CallStep, MutexStep, AnnouncedStep DEF IInv
<1> QED
  BY <1>1, InitInv, PTL DEF Spec

\* Types: in particular no payment is published more than three times, and a read
\* always shows a payment that exists.
THEOREM TypeInvariant == Spec => []TypeOK
<1>1. IInv => TypeOK
  BY DEF IInv
<1> QED
  BY <1>1, Invariance, PTL

\* The queue holds one event of a payment at most, and only of authorised payments
\* that are in the table.
THEOREM EventsAreTrue == Spec => []EventsAreAuthorizedPayments
<1>1. IInv => EventsAreAuthorizedPayments
  BY DEF IInv, CallsState, CallState, EventsAreAuthorizedPayments, None
<1> QED
  BY <1>1, Invariance, PTL

\* What a caller was told is in the table, whatever became of its statement.
THEOREM RepliesAreTrue == Spec => []RepliesMatchPayments
<1>1. IInv => RepliesMatchPayments
  BY DEF IInv, CallsState, CallState, RepliesMatchPayments
<1> QED
  BY <1>1, Invariance, PTL

\* Mutual exclusion of the publishers, and of Close with them.
THEOREM Exclusive == Spec => []PublisherIsExclusive
<1>1. IInv => PublisherIsExclusive
  <2> SUFFICES ASSUME IInv, NEW c \in Calls, pc[c] \in {"publish", "sleep"}
               PROVE  holder = c /\ channel # "nil"
    BY DEF PublisherIsExclusive
  <2> QED
    BY ConstantsAssumption DEF IInv, MutexState
<1> QED
  BY <1>1, Invariance, PTL

\* No RPC finds the publisher closed: GracefulStop comes before Close.
THEOREM RpcsAreSafe == Spec => []NoRpcPanics
<1>1. IInv => NoRpcPanics
  BY DEF IInv, CallsState, CallState, NoRpcPanics
<1> QED
  BY <1>1, Invariance, PTL

\* As long as the broker stays and the queue is bound, who is told of an authorised
\* payment has its event in the queue.
THEOREM Announced == Spec => []AuthorizedIsAnnounced
<1>1. IInv => AuthorizedIsAnnounced
  BY DEF IInv, AnnouncedState, BrokerStays, AuthorizedIsAnnounced
<1> QED
  BY <1>1, Invariance, PTL

\* Reads of an order follow the replies about its payments.
THEOREM ReadsFollow == Spec => ReadsFollowReplies
<1>1. ASSUME IInv, [Next]_vars, NEW c \in Calls, NEW d \in Calls,
             op[c].kind = "get", reply[c] = None, reply'[c] \in {"OK", "NotFound"},
             reply[d] \in Statuses, op[d].order = op[c].order
      PROVE  reply'[c] = "OK" /\ Position(d) <= Position(shown'[c])
  <2> USE Domains DEF Goto, Reply
  <2>0. TypeOK /\ CallsState
    BY <1>1 DEF IInv
  <2>1. d \in PaymentsOf(op[c].order)
    BY <1>1, <2>0 DEF CallsState, CallState, PaymentsOf, Statuses
  <2>2. GetPaymentByOrderID(c)
    <3>1. ASSUME NEW q \in Calls, ~GetPaymentByOrderID(q), Handler(q) PROVE FALSE
      <4>1. reply' = reply \/ \E r \in Replies \ {"OK", "NotFound"} : reply' = [reply EXCEPT ![q] = r]
        BY <2>0, <3>1 DEF Handler, Insert, Lock, PublishAccepted, PublishVanishes, PublishFails,
               Sleep, ListPayments, ReturnPayment, Replies, Statuses, ListedColumns, PaymentColumns
      <4> QED
        BY <1>1, <2>0, <4>1
    <3>2. ASSUME NEW q \in Calls, q # c, GetPaymentByOrderID(q) PROVE FALSE
      <4>1. reply'[c] = reply[c]
        BY <2>0, <3>2 DEF GetPaymentByOrderID
      <4> QED
        BY <1>1, <4>1
    <3>3. ASSUME NEW q \in Calls, RefuseAmount(q) \/ BeginCharge(q) \/ BeginQuery(q) \/ Disconnect(q)
          PROVE  FALSE
      <4>1. reply' = reply \/ reply' = [reply EXCEPT ![q] = "InvalidArgument"]
        BY <3>3 DEF RefuseAmount, BeginCharge, BeginQuery, Disconnect
      <4> QED
        BY <1>1, <2>0, <4>1
    <3>4. ~(Stop \/ Closing \/ Exit \/ Crash \/ Restart \/ LoseBroker \/ BindQueue \/ UNCHANGED vars)
      <4>1. reply' # reply
        BY <1>1
      <4> QED
        BY <4>1 DEF Stop, Closing, LockPublisher,
     CloseChannel, CloseConnection, Exit, Crash, Halt, Restart, LoseBroker, BindQueue, vars
    <3> QED
      BY <1>1, <3>1, <3>2, <3>3, <3>4 DEF Next, Closing
  <2>3. PaymentsOf(op[c].order) # {}
    BY <2>1
  <2>4. reply'[c] = "OK" /\ shown'[c] = Newest(op[c].order)
    <3>1. reply' # [reply EXCEPT ![c] = "Internal"]
      BY <1>1, <2>0
    <3>2. reply' = [reply EXCEPT ![c] = "OK"] /\ shown' = [shown EXCEPT ![c] = Newest(op[c].order)]
      BY <2>2, <2>3, <3>1 DEF GetPaymentByOrderID
    <3> QED
      BY <2>0, <3>2
  <2> QED
    BY <2>0, <2>1, <2>3, <2>4, NewestIsOne
<1>2. IInv /\ [Next]_vars =>
        [\A c, d \in Calls :
          /\ op[c].kind = "get" /\ reply[c] = None /\ reply'[c] \in {"OK", "NotFound"}
          /\ reply[d] \in Statuses /\ op[d].order = op[c].order
          => reply'[c] = "OK" /\ Position(d) <= Position(shown'[c])]_vars
  BY <1>1
<1> QED
  BY <1>2, Invariance, PTL DEF Spec, ReadsFollowReplies

=============================================================================
