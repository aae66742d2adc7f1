--------------------------- MODULE PaymentService ---------------------------
(***************************************************************************)
(* The payment service (payment-service): concurrent gRPC and HTTP calls   *)
(* that charge an order, read its payment or list payments, the RabbitMQ   *)
(* publisher they share under a mutex, and the shutdown of the process.    *)
(*                                                                         *)
(* One call is one goroutine.  Its steps are its database statement, the   *)
(* acquisition of the publisher's mutex, each attempt to publish and each  *)
(* sleep between attempts; main's are the wait for the RPCs and the mutex, *)
(* and each of the two calls of the broker that close the publisher.  A    *)
(* payment is named by the call that makes it.                             *)
(***************************************************************************)
EXTENDS Integers, Sequences, FiniteSets

CONSTANTS
    Calls,           \* the calls, and so also the payments they may make
    Nobody,          \* the mutex is free
    Main,            \* the goroutine of main
    Orders,          \* order identifiers
    NoOrder,         \* a listing names no order
    Amounts,         \* amounts a charge may carry
    MaxPaymentAmount,
    Kinds,           \* the operations calls may ask for
    DbOutcomes,      \* how a Postgres statement may end (see OrderService)
    Environment      \* what may go wrong around the service

ASSUME ConstantsAssumption ==
    /\ Nobody \notin Calls /\ Main \notin Calls /\ Main # Nobody
    /\ NoOrder \notin Orders
    /\ Amounts \subseteq Int
    /\ MaxPaymentAmount \in Nat
    /\ Kinds \subseteq {"charge", "get", "list"}
    /\ DbOutcomes \subseteq {"ok", "lost", "late"}
    /\ Environment \subseteq {"crash", "stop", "disconnect", "broker", "unbound"}

VARIABLES
    op,         \* op[c]: what call c asks for
    pc,         \* pc[c]: the next step of c
    status,     \* status[c]: Status of the local *domain.Payment of c, or "None"
    reply,      \* reply[c]: how c was answered, or "None"
    shown,      \* shown[c]: the payment a "get" answered with, or Nobody
    gone,       \* gone[c]: c's context is cancelled (client gone or deadline over)
    attempt,    \* attempt[c]: loop variable of PublishPaymentProcessed
    payments,   \* payments[c]: status column of the row of payment c, or "None"
    created,    \* the payments in the order of their created_at
    holder,     \* who holds Publisher.mu, or Nobody
    channel,    \* Publisher.channel: "open", "down" (closed by a failure) or "nil"
    bound,      \* the consumer has declared and bound its queue
    queued,     \* queued[c]: events of payment c routed to that queue
    service     \* main: "running", "stopping", "closing" or "stopped"

local == <<pc, status, reply, shown, attempt>>
publisher == <<holder, channel>>
broker == <<bound, queued>>
table == <<payments, created>>
vars == <<op, local, gone, table, publisher, broker, service>>

None == "None"
Statuses == {"Authorized", "Declined"}
MaxAttempts == 3

Steps == {"insert", "lock", "publish", "sleep", "read", "list"}
ControlPoints == Steps \cup {"idle", "done", "dead"}
Replies == Statuses \cup {None, "OK", "InvalidArgument", "NotFound", "Internal", "Panicked"}

\* GetPaymentByOrderID is an HTTP route only; the other two are gRPC methods too.
Ops ==
    {o \in [kind : Kinds, via : {"grpc", "http"}, order : Orders \cup {NoOrder},
            amount : Amounts \cup {0}] :
        CASE o.kind = "charge" -> o.order # NoOrder /\ o.amount \in Amounts
          [] o.kind = "get"    -> o.order # NoOrder /\ o.amount = 0 /\ o.via = "http"
          [] OTHER             -> o.order = NoOrder /\ o.amount = 0}

TypeOK ==
    /\ op \in [Calls -> Ops]
    /\ pc \in [Calls -> ControlPoints]
    /\ status \in [Calls -> Statuses \cup {None}]
    /\ reply \in [Calls -> Replies]
    /\ shown \in [Calls -> Calls \cup {Nobody}]
    /\ gone \in [Calls -> BOOLEAN]
    /\ attempt \in [Calls -> 0 .. MaxAttempts]
    /\ payments \in [Calls -> Statuses \cup {None}]
    /\ created \in Seq(Calls)
    /\ holder \in Calls \cup {Nobody, Main}
    /\ channel \in {"open", "down", "nil"}
    /\ bound \in BOOLEAN
    /\ queued \in [Calls -> 0 .. MaxAttempts]
    /\ service \in {"running", "stopping", "closing", "stopped"}

Init ==
    /\ op \in [Calls -> Ops]
    /\ pc = [c \in Calls |-> "idle"]
    /\ status = [c \in Calls |-> None]
    /\ reply = [c \in Calls |-> None]
    /\ shown = [c \in Calls |-> Nobody]
    /\ gone = [c \in Calls |-> FALSE]
    /\ attempt = [c \in Calls |-> 0]
    /\ payments = [c \in Calls |-> None]
    /\ created = <<>>
    /\ holder = Nobody
    /\ channel = "open"
    /\ bound = ("unbound" \notin Environment)
    /\ queued = [c \in Calls |-> 0]
    /\ service = "running"

-----------------------------------------------------------------------------
(* Control of one call *)

Rpc(c) == op[c].via = "grpc"
Active(c) == pc[c] \in Steps

Goto(c, step) == pc' = [pc EXCEPT ![c] = step]
Reply(c, r) == Goto(c, "done") /\ reply' = [reply EXCEPT ![c] = r]

\* The gRPC listener closes as shutdown begins; the HTTP one (router.Run is never
\* told) goes on until the process exits.
Accepts(c) == service = "running" \/ (~Rpc(c) /\ service \in {"stopping", "closing"})

\* Statements of a cancelled context, and those that find the pool closed -- main
\* closes it after the publisher -- fail without reaching the server.
Db(c) == IF gone[c] THEN {"lost"}
         ELSE IF service = "closing" /\ holder = Nobody THEN DbOutcomes \cup {"lost"} ELSE DbOutcomes

Applied(outcome) == outcome \in {"ok", "late"}

-----------------------------------------------------------------------------
(* ProcessPayment and POST /payments: AuthorizePayment *)

\* The transport (gRPC check or JSON binding) and the use case refuse amounts that
\* are not positive.
RefuseAmount(c) ==
    /\ pc[c] = "idle" /\ Accepts(c)
    /\ op[c].kind = "charge" /\ op[c].amount <= 0
    /\ Reply(c, "InvalidArgument")
    /\ UNCHANGED <<op, status, shown, attempt, gone, table, publisher, broker, service>>

Decide(amount) == IF amount > MaxPaymentAmount THEN "Declined" ELSE "Authorized"

\* The status is decided and created_at taken before the row exists.
BeginCharge(c) ==
    /\ pc[c] = "idle" /\ Accepts(c)
    /\ op[c].kind = "charge" /\ op[c].amount > 0
    /\ status' = [status EXCEPT ![c] = Decide(op[c].amount)]
    /\ created' = Append(created, c)
    /\ Goto(c, "insert")
    /\ UNCHANGED <<op, reply, shown, attempt, gone, payments, publisher, broker, service>>

\* Mutant: an error of repo.Create is only logged.
InsertErrorIgnored(c) ==
    /\ pc[c] = "insert"
    /\ \E outcome \in Db(c) :
        payments' = IF Applied(outcome) THEN [payments EXCEPT ![c] = status[c]] ELSE payments
    /\ IF status[c] = "Authorized" THEN Goto(c, "lock") /\ UNCHANGED reply
                                   ELSE Reply(c, status[c])
    /\ UNCHANGED <<op, status, shown, attempt, gone, created, publisher, broker, service>>

\* Mutant: only authorised payments are stored.
DeclinedNotStored(c) ==
    /\ pc[c] = "insert"
    /\ \E outcome \in Db(c) :
        /\ payments' = IF Applied(outcome) /\ status[c] = "Authorized"
                         THEN [payments EXCEPT ![c] = status[c]] ELSE payments
        /\ IF outcome = "ok" /\ status[c] = "Authorized"
             THEN Goto(c, "lock") /\ UNCHANGED reply
             ELSE Reply(c, IF outcome = "ok" THEN status[c] ELSE "Internal")
    /\ UNCHANGED <<op, status, shown, attempt, gone, created, publisher, broker, service>>

\* repo.Create; then only an authorised payment is announced.
Insert(c) ==
    /\ pc[c] = "insert"
    /\ \E outcome \in Db(c) :
        /\ payments' = IF Applied(outcome)
                         THEN [payments EXCEPT ![c] = status[c]] ELSE payments
        /\ IF outcome = "ok" /\ status[c] = "Authorized"
             THEN Goto(c, "lock") /\ UNCHANGED reply
             ELSE Reply(c, IF outcome = "ok" THEN status[c] ELSE "Internal")
    /\ UNCHANGED <<op, status, shown, attempt, gone, created, publisher, broker, service>>

-----------------------------------------------------------------------------
(* PublishPaymentProcessed *)

\* p.mu.Lock().  A call that gets the mutex after Close finds a nil channel: the
\* handler panics and releases the mutex.  gin.Recovery makes that a 500; in a
\* gRPC handler nothing would recover it.
Lock(c) ==
    /\ pc[c] = "lock" /\ holder = Nobody
    /\ IF channel = "nil"
         THEN Reply(c, "Panicked") /\ UNCHANGED <<attempt, holder>>
         ELSE /\ Goto(c, "publish") /\ UNCHANGED reply
              /\ attempt' = [attempt EXCEPT ![c] = 1]
              /\ holder' = c
    /\ UNCHANGED <<op, status, shown, gone, table, channel, broker, service>>

\* defer p.mu.Unlock(), and AuthorizePayment returns the payment whatever the
\* publisher returned.
ReturnPayment(c) == Reply(c, status[c]) /\ holder' = Nobody

\* Mutant: PublishWithContext as one would expect it, giving up on a cancelled context.
PublishHonoursContext(c) ==
    /\ pc[c] = "publish" /\ channel = "open"
    /\ queued' = [queued EXCEPT ![c] = IF bound /\ ~gone[c] THEN @ + 1 ELSE @]
    /\ ReturnPayment(c)
    /\ UNCHANGED <<op, status, shown, attempt, gone, table, channel, bound, service>>

\* Mutant: the loop does not return on success.
PublishLoopsOn(c) ==
    /\ pc[c] = "publish" /\ channel = "open"
    /\ queued' = [queued EXCEPT ![c] = IF bound THEN @ + 1 ELSE @]
    /\ Goto(c, "sleep")
    /\ UNCHANGED <<op, status, reply, shown, attempt, gone, table, publisher, bound, service>>

\* The broker takes the event.  It is not mandatory: without a bound queue the
\* broker drops it, and the publisher is told of neither.
PublishAccepted(c) ==
    /\ pc[c] = "publish" /\ channel = "open"
    /\ queued' = [queued EXCEPT ![c] = IF bound THEN @ + 1 ELSE @]
    /\ ReturnPayment(c)
    /\ UNCHANGED <<op, status, shown, attempt, gone, table, channel, bound, service>>

\* The bytes are written to a connection that is already dead: success for the
\* publisher, which asks for no confirmation.
PublishVanishes(c) ==
    /\ "broker" \in Environment
    /\ pc[c] = "publish" /\ channel = "open"
    /\ channel' = "down"
    /\ ReturnPayment(c)
    /\ UNCHANGED <<op, status, shown, attempt, gone, table, broker, service>>

\* A closed channel stays closed: every attempt ends with amqp.ErrClosed.
PublishFails(c) ==
    /\ pc[c] = "publish" /\ channel = "down"
    /\ Goto(c, "sleep")
    /\ UNCHANGED <<op, status, reply, shown, attempt, gone, table, publisher, broker, service>>

\* Mutant: one attempt too many.
SleepOnceMore(c) ==
    /\ pc[c] = "sleep"
    /\ IF attempt[c] <= MaxAttempts
         THEN /\ attempt' = [attempt EXCEPT ![c] = @ + 1]
              /\ Goto(c, "publish") /\ UNCHANGED <<reply, holder>>
         ELSE ReturnPayment(c) /\ UNCHANGED attempt
    /\ UNCHANGED <<op, status, shown, gone, table, channel, broker, service>>

\* Mutant: giving up without releasing the mutex.
GiveUpLocked(c) ==
    /\ pc[c] = "sleep"
    /\ IF attempt[c] < MaxAttempts
         THEN /\ attempt' = [attempt EXCEPT ![c] = @ + 1]
              /\ Goto(c, "publish") /\ UNCHANGED <<reply, holder>>
         ELSE Reply(c, status[c]) /\ UNCHANGED <<attempt, holder>>
    /\ UNCHANGED <<op, status, shown, gone, table, channel, broker, service>>

\* Mutant: retrying until the broker is back.
SleepForever(c) ==
    /\ pc[c] = "sleep"
    /\ Goto(c, "publish")
    /\ UNCHANGED <<op, status, reply, shown, attempt, gone, table, publisher, broker, service>>

\* time.Sleep, after the last attempt too, with the mutex held throughout.
Sleep(c) ==
    /\ pc[c] = "sleep"
    /\ IF attempt[c] < MaxAttempts
         THEN /\ attempt' = [attempt EXCEPT ![c] = @ + 1]
              /\ Goto(c, "publish") /\ UNCHANGED <<reply, holder>>
         ELSE ReturnPayment(c) /\ UNCHANGED attempt
    /\ UNCHANGED <<op, status, shown, gone, table, channel, broker, service>>

-----------------------------------------------------------------------------
(* GET /payments/:order_id, GET /payments/list and ListPayments *)

BeginQuery(c) ==
    /\ pc[c] = "idle" /\ Accepts(c)
    /\ op[c].kind # "charge"
    /\ Goto(c, IF op[c].kind = "get" THEN "read" ELSE "list")
    /\ UNCHANGED <<op, status, reply, shown, attempt, gone, table, publisher, broker, service>>

PaymentsOf(order) == {p \in Calls : payments[p] # None /\ op[p].order = order}
Position(p) == CHOOSE i \in DOMAIN created : created[i] = p

\* Mutant: ORDER BY created_at without DESC.
Oldest(order) ==
    CHOOSE p \in PaymentsOf(order) : \A q \in PaymentsOf(order) : Position(p) <= Position(q)

\* ORDER BY created_at DESC LIMIT 1.
Newest(order) ==
    CHOOSE p \in PaymentsOf(order) : \A q \in PaymentsOf(order) : Position(q) <= Position(p)

GetPaymentByOrderID(c) ==
    /\ pc[c] = "read"
    /\ \E outcome \in Db(c) :
        \/ /\ outcome # "ok"
           /\ Reply(c, "Internal") /\ UNCHANGED shown
        \/ /\ outcome = "ok" /\ PaymentsOf(op[c].order) = {}
           /\ Reply(c, "NotFound") /\ UNCHANGED shown
        \/ /\ outcome = "ok" /\ PaymentsOf(op[c].order) # {}
           /\ Reply(c, "OK")
           /\ shown' = [shown EXCEPT ![c] = Newest(op[c].order)]
    /\ UNCHANGED <<op, status, attempt, gone, table, publisher, broker, service>>

\* The table as the migration creates it, and the columns List selects.
PaymentColumns == {"id", "order_id", "transaction_id", "amount", "status", "created_at"}
ListedColumns == {"id", "order_id", "customer_id", "amount", "status", "created_at"}

\* An unknown column fails the statement, so every listing ends in an error.
ListPayments(c) ==
    /\ pc[c] = "list"
    /\ \E outcome \in Db(c) :
        Reply(c, IF outcome = "ok" /\ ListedColumns \subseteq PaymentColumns
                   THEN "OK" ELSE "Internal")
    /\ UNCHANGED <<op, status, shown, attempt, gone, table, publisher, broker, service>>

-----------------------------------------------------------------------------
(* main and the environment *)

\* SIGTERM or SIGINT; GracefulStop refuses new RPCs.
Stop ==
    /\ "stop" \in Environment
    /\ service = "running"
    /\ service' = "stopping"
    /\ UNCHANGED <<op, local, gone, table, publisher, broker>>

\* Mutant: Stop instead of GracefulStop.
CloseAtOnce ==
    /\ service = "stopping"
    /\ holder = Nobody /\ holder' = Main
    /\ service' = "closing"
    /\ UNCHANGED <<op, local, gone, table, channel, broker>>

\* Mutant: Close without p.mu.Lock().
CloseUnlocked ==
    /\ service = "stopping"
    /\ \A c \in Calls : ~(Active(c) /\ Rpc(c))
    /\ holder' = Main
    /\ service' = "closing"
    /\ UNCHANGED <<op, local, gone, table, channel, broker>>

\* GracefulStop returns when every RPC has ended, main returns and its deferred
\* publisher.Close takes the mutex.  HTTP calls are not waited for.
LockPublisher ==
    /\ service = "stopping"
    /\ \A c \in Calls : ~(Active(c) /\ Rpc(c))
    /\ holder = Nobody /\ holder' = Main
    /\ service' = "closing"
    /\ UNCHANGED <<op, local, gone, table, channel, broker>>

\* channel.Close returns, with the broker's answer or because the connection has
\* broken; meanwhile calls queue for the mutex.
CloseChannel ==
    /\ service = "closing" /\ channel # "nil"
    /\ channel' = "nil"
    /\ UNCHANGED <<op, local, gone, table, holder, broker, service>>

\* So does conn.Close, and the mutex is released.
CloseConnection ==
    /\ service = "closing" /\ channel = "nil" /\ holder = Main
    /\ holder' = Nobody
    /\ UNCHANGED <<op, local, gone, table, channel, broker, service>>

\* The process ends and every call left in it with it.
Halt ==
    /\ service' = "stopped"
    /\ pc' = [c \in Calls |-> IF Active(c) THEN "dead" ELSE pc[c]]
    /\ holder' = Nobody
    /\ channel' = "nil"
    /\ UNCHANGED <<op, status, reply, shown, attempt, gone, table, broker>>

\* The pool of database connections is closed, and main returns.
Exit == service = "closing" /\ channel = "nil" /\ holder = Nobody /\ Halt

Crash == "crash" \in Environment /\ service # "stopped" /\ Halt

\* A new process connects to the broker before it serves.
Restart ==
    /\ service = "stopped"
    /\ service' = "running"
    /\ channel' = "open"
    /\ UNCHANGED <<op, local, gone, table, holder, broker>>

Disconnect(c) ==
    /\ "disconnect" \in Environment
    /\ Active(c) /\ ~gone[c]
    /\ gone' = [gone EXCEPT ![c] = TRUE]
    /\ UNCHANGED <<op, local, table, publisher, broker, service>>

\* The connection to the broker breaks; nothing ever opens another.
LoseBroker ==
    /\ "broker" \in Environment
    /\ channel = "open"
    /\ channel' = "down"
    /\ UNCHANGED <<op, local, gone, table, holder, broker, service>>

\* The notification service starts for the first time (NewConsumer).
BindQueue ==
    /\ ~bound
    /\ bound' = TRUE
    /\ UNCHANGED <<op, local, gone, table, publisher, queued, service>>

-----------------------------------------------------------------------------

Handler(c) ==
    \/ Insert(c)
    \/ Lock(c)
    \/ PublishAccepted(c)
    \/ PublishVanishes(c)
    \/ PublishFails(c)
    \/ Sleep(c)
    \/ GetPaymentByOrderID(c)
    \/ ListPayments(c)

Next ==
    \/ \E c \in Calls :
        \/ RefuseAmount(c)
        \/ BeginCharge(c)
        \/ BeginQuery(c)
        \/ Handler(c)
        \/ Disconnect(c)
    \/ Stop
    \/ LockPublisher
    \/ CloseChannel
    \/ CloseConnection
    \/ Exit
    \/ Crash
    \/ Restart
    \/ LoseBroker
    \/ BindQueue

Spec == Init /\ [][Next]_vars

\* A goroutine that can run does, sync.Mutex starves nobody, the database ends
\* every statement, and main goes on once GracefulStop lets it.  Of the broker it is
\* assumed that a write to its socket returns -- the write of an attempt has no
\* deadline, whatever the context of the publish says -- and that channel.Close and
\* conn.Close are answered, or cut short because the connection breaks: amqp's
\* heartbeats see to that when the broker falls silent.  Nothing makes a client
\* call, a signal come, the broker fail or anybody restart the service.
Fairness ==
    /\ \A c \in Calls : WF_vars(Handler(c))
    /\ WF_vars(LockPublisher) /\ WF_vars(CloseChannel) /\ WF_vars(CloseConnection)
    /\ WF_vars(Exit)

FairSpec == Spec /\ Fairness

-----------------------------------------------------------------------------
(* Properties *)

\* The queue only holds events of payments that are in the table, authorised,
\* and no event twice: the publisher's three attempts never deliver two copies.
\* (AuthorizePayment publishes after repo.Create has succeeded.)
EventsAreAuthorizedPayments ==
    \A c \in Calls : queued[c] > 0 => payments[c] = "Authorized" /\ queued[c] = 1

\* What a caller was told is in the table: the order service settles its order by
\* this answer.  A refused call leaves no payment, and a payment was answered
\* with its own status, or with an error, or not at all.
RepliesMatchPayments ==
    \A c \in Calls :
        /\ reply[c] \in Statuses => payments[c] = reply[c]
        /\ payments[c] # None => reply[c] \in {None, payments[c], "Internal", "Panicked"}

\* One call at a time uses the publisher, and Close waits for it: the channel does
\* not become nil under a call that is between two of its attempts.
PublisherIsExclusive ==
    \A c \in Calls : pc[c] \in {"publish", "sleep"} => holder = c /\ channel # "nil"

\* Shutting down, no RPC ever meets the closed publisher; there it would take the
\* process down with every other call.
NoRpcPanics == \A c \in Calls : Rpc(c) => reply[c] # "Panicked"

\* With the broker up and the queue bound, every payment a caller was told is
\* authorised has its event in the queue -- also when the caller's context had
\* been cancelled by then, and while the service shuts down.
AuthorizedIsAnnounced ==
    {"broker", "unbound"} \cap Environment = {} =>
        \A c \in Calls : reply[c] = "Authorized" => queued[c] = 1

\* GET /payments/:order_id never misses, and never shows anything older than, a
\* payment of that order that somebody was already told of.
ReadsFollowReplies ==
    [][\A c, d \in Calls :
          /\ op[c].kind = "get" /\ reply[c] = None /\ reply'[c] \in {"OK", "NotFound"}
          /\ reply[d] \in Statuses /\ op[d].order = op[c].order
          => reply'[c] = "OK" /\ Position(d) <= Position(shown'[c])]_vars

\* A call that was started ends: no attempt, sleep or queue for the mutex keeps it,
\* behind the other publishers or behind Close.
CallsEnd == \A c \in Calls : pc[c] \in Steps ~> pc[c] \in {"done", "dead"}

\* A shutdown is completed whatever the calls in flight do, with a broken connection
\* to the broker as with one that answers Close; main takes its turn at the mutex
\* among HTTP calls, which GracefulStop does not wait for.
ShutdownCompletes == service = "stopping" ~> service = "stopped"

=============================================================================
