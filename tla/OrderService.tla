---------------------------- MODULE OrderService ----------------------------
(***************************************************************************)
(* The order service (order-service/internal/usecase and the adapters it   *)
(* calls): concurrent HTTP requests that create, read and cancel orders    *)
(* over a Postgres table, a Redis cache-aside copy of it, the              *)
(* order_updates NOTIFY channel and a remote payment gateway.              *)
(*                                                                         *)
(* One request is one goroutine.  Its steps are the calls it makes to the  *)
(* database, to Redis and to the gateway, because between two of those     *)
(* calls any other request may run; the code between two calls is part of  *)
(* the step that precedes it.  Nothing else is shared between requests.    *)
(*                                                                         *)
(* An order is named by the request that creates it: uuid.New() gives each *)
(* creating request an identifier of its own.                              *)
(***************************************************************************)
EXTENDS Integers, Sequences, FiniteSets

CONSTANTS
    Requests,        \* the HTTP requests, and so also the orders they may create
    Keys,            \* values of the Idempotency-Key header
    NoKey,           \* the header is absent or empty
    Amounts,         \* amounts a request may ask for
    Kinds,           \* the operations requests may ask for
    DbOutcomes,      \* how a Postgres statement may end
    CacheOutcomes,   \* how a Redis command may end
    Environment      \* which of "crash" and "disconnect" may happen

(***************************************************************************)
(* A remote call ends "ok" (applied, success reported), "lost" (not        *)
(* applied, error reported) or "late" (applied, error reported: the reply  *)
(* was lost or the context ended while the statement ran).                 *)
(***************************************************************************)
AllOutcomes == {"ok", "lost", "late"}

ASSUME ConstantsAssumption ==
    /\ NoKey \notin Keys
    /\ Amounts \subseteq Int
    /\ Kinds \subseteq {"create", "get", "cancel", "markPaid"}
    /\ DbOutcomes \subseteq AllOutcomes
    /\ CacheOutcomes \subseteq AllOutcomes
    /\ Environment \subseteq {"crash", "disconnect"}

VARIABLES
    op,         \* op[r]: what request r asks for
    pc,         \* pc[r]: the call request r makes next
    subject,    \* subject[r]: ID of the local *domain.Order of r
    status,     \* status[r]: Status of that order as r knows or wants it, or "None"
    answer,     \* answer[r]: what the payment gateway told the creator of order r
    code,       \* code[r]: the status (net/http name) of the reply to r, or "None"
    gone,       \* gone[r]: r's context is cancelled (its client went away)
    orders,     \* orders[id]: status column of the row of order id, or "None"
    cache,      \* cache[id]: status in the Redis value order:<id>, or "None"
    notified    \* notified[id]: statuses sent on channel order_updates for id

local == <<pc, subject, status, answer, code>>
shared == <<orders, cache, notified>>
vars == <<op, local, gone, shared>>

Statuses == {"Pending", "Paid", "Failed", "Cancelled"}
None == "None"

Steps == {"lookup", "insert", "authorize", "cacheGet", "load",
          "update", "notify", "fill", "invalidate"}
ControlPoints == Steps \cup {"idle", "done", "dead"}

Answers == {None, "Authorized", "Declined", "error"}

Codes == {None, "OK", "Created", "BadRequest", "NotFound", "Conflict",
          "UnprocessableEntity", "InternalServerError", "ServiceUnavailable"}

\* Only a creator brings a key and an amount, and the order it names is its own.
Ops(r) ==
    {o \in [kind : Kinds, id : Requests, key : Keys \cup {NoKey}, amount : Amounts \cup {0}] :
        IF o.kind = "create" THEN o.id = r /\ o.amount \in Amounts
                             ELSE o.key = NoKey /\ o.amount = 0}

TypeOK ==
    /\ \A r \in Requests : op[r] \in Ops(r)
    /\ pc \in [Requests -> ControlPoints]
    /\ subject \in [Requests -> Requests]
    /\ status \in [Requests -> Statuses \cup {None}]
    /\ answer \in [Requests -> Answers]
    /\ code \in [Requests -> Codes]
    /\ gone \in [Requests -> BOOLEAN]
    /\ orders \in [Requests -> Statuses \cup {None}]
    /\ cache \in [Requests -> Statuses \cup {None}]
    /\ notified \in [Requests -> Seq(Statuses)]

Init ==
    /\ op \in {f \in [Requests -> UNION {Ops(r) : r \in Requests}] :
                  \A r \in Requests : f[r] \in Ops(r)}
    /\ pc = [r \in Requests |-> "idle"]
    /\ subject = [r \in Requests |-> op[r].id]
    /\ status = [r \in Requests |-> None]
    /\ answer = [r \in Requests |-> None]
    /\ code = [r \in Requests |-> None]
    /\ gone = [r \in Requests |-> FALSE]
    /\ orders = [id \in Requests |-> None]
    /\ cache = [id \in Requests |-> None]
    /\ notified = [id \in Requests |-> <<>>]

-----------------------------------------------------------------------------
(* Control of one request *)

Creates(r) == op[r].kind = "create"
Active(r) == pc[r] \in Steps

Goto(r, step) == pc' = [pc EXCEPT ![r] = step]

\* The handler writes the reply and the goroutine ends.
Reply(r, c) == Goto(r, "done") /\ code' = [code EXCEPT ![r] = c]

\* Every call takes the request's context: once that is cancelled the client
\* library reports the error without sending anything.
Db(r) == IF gone[r] THEN {"lost"} ELSE DbOutcomes
Redis(r) == IF gone[r] THEN {"lost"} ELSE CacheOutcomes

Applied(outcome) == outcome \in {"ok", "late"}

-----------------------------------------------------------------------------
(* POST /orders: CreateOrder *)

\* Amounts that are not positive are refused before any call (by the binding
\* of the JSON body and again by the use case).
RejectAmount(r) ==
    /\ pc[r] = "idle" /\ Creates(r)
    /\ op[r].amount <= 0
    /\ Reply(r, "BadRequest")
    /\ UNCHANGED <<op, subject, status, answer, gone, shared>>

BeginCreate(r) ==
    /\ pc[r] = "idle" /\ Creates(r)
    /\ op[r].amount > 0
    /\ Goto(r, IF op[r].key = NoKey THEN "insert" ELSE "lookup")
    /\ UNCHANGED <<op, subject, status, answer, code, gone, shared>>

Rows == {id \in Requests : orders[id] # None}
RowsWithKey(k) == {id \in Rows : op[id].key = k}

\* repo.GetByIdempotencyKey: an order with this key is returned as it stands.
LookupKey(r) ==
    /\ pc[r] = "lookup"
    /\ \E outcome \in Db(r) :
        \/ /\ outcome # "ok"
           /\ Reply(r, "InternalServerError")
           /\ UNCHANGED <<subject, status>>
        \/ /\ outcome = "ok" /\ RowsWithKey(op[r].key) = {}
           /\ Goto(r, "insert")
           /\ UNCHANGED <<subject, status, code>>
        \/ /\ outcome = "ok"
           /\ \E id \in RowsWithKey(op[r].key) :
                /\ subject' = [subject EXCEPT ![r] = id]
                /\ status' = [status EXCEPT ![r] = orders[id]]
           /\ Reply(r, "Created")
    /\ UNCHANGED <<op, answer, gone, shared>>

\* Mutant: the column without its UNIQUE constraint.
KeyNeverTaken(r) == FALSE

\* The UNIQUE constraint on orders.idempotency_key (NULLs never collide).
KeyTaken(r) == op[r].key # NoKey /\ RowsWithKey(op[r].key) # {}

\* Mutant: INSERT ... ON CONFLICT DO NOTHING.
InsertOrIgnore(r) ==
    /\ pc[r] = "insert"
    /\ \E outcome \in Db(r) :
        /\ orders' = IF Applied(outcome) /\ ~KeyTaken(r)
                       THEN [orders EXCEPT ![r] = "Pending"] ELSE orders
        /\ IF outcome = "ok" THEN Goto(r, "authorize") /\ UNCHANGED code
                             ELSE Reply(r, "InternalServerError")
    /\ status' = [status EXCEPT ![r] = "Pending"]
    /\ UNCHANGED <<op, subject, answer, gone, cache, notified>>

\* repo.Create: one INSERT; a violated constraint is an error like any other.
Insert(r) ==
    /\ pc[r] = "insert"
    /\ \E outcome \in Db(r) :
        LET stored == Applied(outcome) /\ ~KeyTaken(r) IN
        /\ orders' = IF stored THEN [orders EXCEPT ![r] = "Pending"] ELSE orders
        /\ IF stored /\ outcome = "ok"
             THEN Goto(r, "authorize") /\ UNCHANGED code
             ELSE Reply(r, "InternalServerError")
    /\ status' = [status EXCEPT ![r] = "Pending"]
    /\ UNCHANGED <<op, subject, answer, gone, cache, notified>>

\* Mutant: the gateway's own word becomes the status of the order.
StatusFromGateway(r, s) ==
    /\ pc[r] = "authorize"
    /\ answer' = [answer EXCEPT ![r] = s]
    /\ status' = [status EXCEPT ![r] = s]
    /\ Goto(r, "update")
    /\ UNCHANGED <<op, subject, code, gone, shared>>

\* Mutant: a declined payment is reported without UpdateStatus.
DeclineNotStored(r, s) ==
    /\ pc[r] = "authorize"
    /\ answer' = [answer EXCEPT ![r] = s]
    /\ status' = [status EXCEPT ![r] =
                    IF s = "Authorized" THEN "Paid" ELSE "Failed"]
    /\ Goto(r, IF s = "Authorized" THEN "update" ELSE "invalidate")
    /\ UNCHANGED <<op, subject, code, gone, shared>>

\* The gateway answers: "Authorized" pays the order, any other status fails it.
\* status[r] is from here on the argument of UpdateStatus.
PaymentAnswered(r, s) ==
    /\ pc[r] = "authorize"
    /\ answer' = [answer EXCEPT ![r] = s]
    /\ status' = [status EXCEPT ![r] =
                    IF s = "Authorized" THEN "Paid" ELSE "Failed"]
    /\ Goto(r, "update")
    /\ UNCHANGED <<op, subject, code, gone, shared>>

\* Mutant: an order whose payment call failed is put back to Pending.
PaymentErrorKeepsPending(r) ==
    /\ pc[r] = "authorize"
    /\ answer' = [answer EXCEPT ![r] = "error"]
    /\ status' = [status EXCEPT ![r] = "Pending"]
    /\ Goto(r, "update")
    /\ UNCHANGED <<op, subject, code, gone, shared>>

\* Mutant: a failed payment call is reported without UpdateStatus.
PaymentErrorNotStored(r) ==
    /\ pc[r] = "authorize"
    /\ answer' = [answer EXCEPT ![r] = "error"]
    /\ status' = [status EXCEPT ![r] = "Failed"]
    /\ Goto(r, "invalidate")
    /\ UNCHANGED <<op, subject, code, gone, shared>>

\* The call fails or its two seconds (or the request's context) run out.
PaymentError(r) ==
    /\ pc[r] = "authorize"
    /\ answer' = [answer EXCEPT ![r] = "error"]
    /\ status' = [status EXCEPT ![r] = "Failed"]
    /\ Goto(r, "update")
    /\ UNCHANGED <<op, subject, code, gone, shared>>

-----------------------------------------------------------------------------
(* The tail shared by the mutating operations *)

\* The reply of a request that ran to its end without an early return.
FinalCode(r) ==
    IF ~Creates(r) THEN "OK"
    ELSE CASE answer[r] = "Authorized" -> "Created"
           [] answer[r] = "Declined"   -> "UnprocessableEntity"
           [] OTHER                    -> "ServiceUnavailable"

\* Mutant: every failed UpdateStatus is only logged.
UpdateFailureIgnored(r, outcome) == Goto(r, "notify") /\ UNCHANGED code

\* After a failed UpdateStatus (an error, or no row updated) only the creator
\* whose payment call failed goes on: it logs the error and keeps its
\* ErrPaymentServiceUnavailable.
UpdateFailed(r, outcome) ==
    IF Creates(r) /\ answer[r] = "error"
      THEN Goto(r, "invalidate") /\ UNCHANGED code
      ELSE Reply(r, IF outcome = "ok" THEN "NotFound" ELSE "InternalServerError")

\* repo.UpdateStatus: UPDATE ... WHERE id = $2, whatever the status was.
UpdateStatus(r) ==
    /\ pc[r] = "update"
    /\ \E outcome \in Db(r) :
        /\ orders' = IF Applied(outcome) /\ op[r].id \in Rows
                       THEN [orders EXCEPT ![op[r].id] = status[r]]
                       ELSE orders
        /\ IF outcome = "ok" /\ op[r].id \in Rows
             THEN Goto(r, "notify") /\ UNCHANGED code
             ELSE UpdateFailed(r, outcome)
    /\ UNCHANGED <<op, subject, status, answer, gone, cache, notified>>

\* UpdateStatus goes on with a NOTIFY, a statement of its own on any pooled
\* connection.  Its failure is logged.  Only an order just paid is then put
\* into the cache, every other change invalidates the cache.
Notify(r) ==
    /\ pc[r] = "notify"
    /\ \E outcome \in Db(r) :
        notified' = IF Applied(outcome)
                      THEN [notified EXCEPT ![op[r].id] = Append(@, status[r])]
                      ELSE notified
    /\ Goto(r, IF Creates(r) /\ status[r] = "Paid" THEN "fill" ELSE "invalidate")
    /\ UNCHANGED <<op, subject, status, answer, code, gone, orders, cache>>

\* cache.Set: the local copy is written over whatever is there.
Fill(r) ==
    /\ pc[r] = "fill"
    /\ \E outcome \in Redis(r) :
        cache' = IF Applied(outcome)
                   THEN [cache EXCEPT ![subject[r]] = status[r]]
                   ELSE cache
    /\ Reply(r, FinalCode(r))
    /\ UNCHANGED <<op, subject, status, answer, gone, orders, notified>>

\* invalidateCache: DEL; an error is logged and swallowed.
Invalidate(r) ==
    /\ pc[r] = "invalidate"
    /\ \E outcome \in Redis(r) :
        cache' = IF Applied(outcome)
                   THEN [cache EXCEPT ![op[r].id] = None]
                   ELSE cache
    /\ Reply(r, FinalCode(r))
    /\ UNCHANGED <<op, subject, status, answer, gone, orders, notified>>

-----------------------------------------------------------------------------
(* GET /orders/:id, PATCH /orders/:id/cancel and MarkPaid *)

BeginOther(r) ==
    /\ pc[r] = "idle" /\ ~Creates(r)
    /\ Goto(r, CASE op[r].kind = "get"    -> "cacheGet"
                 [] op[r].kind = "cancel" -> "load"
                 [] OTHER                 -> "update")
    /\ status' = [status EXCEPT ![r] = IF op[r].kind = "markPaid" THEN "Paid" ELSE @]
    /\ UNCHANGED <<op, subject, answer, code, gone, shared>>

\* cache.Get: a hit is the answer; a miss and an error both go to the database.
CacheGet(r) ==
    /\ pc[r] = "cacheGet"
    /\ \E outcome \in Redis(r) :
        IF outcome = "ok" /\ cache[op[r].id] # None
          THEN /\ status' = [status EXCEPT ![r] = cache[op[r].id]]
               /\ Reply(r, "OK")
          ELSE Goto(r, "load") /\ UNCHANGED <<status, code>>
    /\ UNCHANGED <<op, subject, answer, gone, shared>>

\* Mutant: CanBeCancelled refuses only what is cancelled already.
CancelAnyRow(r, row) ==
    \/ /\ op[r].kind = "get"
       /\ status' = [status EXCEPT ![r] = row]
       /\ Goto(r, "fill") /\ UNCHANGED code
    \/ /\ op[r].kind = "cancel" /\ row # "Cancelled"
       /\ status' = [status EXCEPT ![r] = "Cancelled"]
       /\ Goto(r, "update") /\ UNCHANGED code
    \/ /\ op[r].kind = "cancel" /\ row = "Cancelled"
       /\ Reply(r, "Conflict") /\ UNCHANGED status

\* repo.GetByID, then: a read takes the row to the cache, a cancellation goes on
\* if the row is Pending (CanBeCancelled) and is refused otherwise.
LoadedRow(r, row) ==
    \/ /\ op[r].kind = "get"
       /\ status' = [status EXCEPT ![r] = row]
       /\ Goto(r, "fill") /\ UNCHANGED code
    \/ /\ op[r].kind = "cancel" /\ row = "Pending"
       /\ status' = [status EXCEPT ![r] = "Cancelled"]
       /\ Goto(r, "update") /\ UNCHANGED code
    \/ /\ op[r].kind = "cancel" /\ row # "Pending"
       /\ Reply(r, "Conflict") /\ UNCHANGED status

Load(r) ==
    /\ pc[r] = "load"
    /\ \E outcome \in Db(r) :
        \/ /\ outcome # "ok"
           /\ Reply(r, "InternalServerError") /\ UNCHANGED status
        \/ /\ outcome = "ok" /\ op[r].id \notin Rows
           /\ Reply(r, "NotFound") /\ UNCHANGED status
        \/ /\ outcome = "ok" /\ op[r].id \in Rows
           /\ LoadedRow(r, orders[op[r].id])
    /\ UNCHANGED <<op, subject, answer, gone, shared>>

-----------------------------------------------------------------------------
(* The environment *)

\* Mutant: Set without a TTL.
NeverExpires(id) == FALSE

\* The TTL runs out (or Redis evicts the key).
Expire(id) ==
    /\ cache[id] # None
    /\ cache' = [cache EXCEPT ![id] = None]
    /\ UNCHANGED <<op, local, gone, orders, notified>>

\* The client closes its connection: net/http cancels the request's context.
Disconnect(r) ==
    /\ "disconnect" \in Environment
    /\ Active(r) /\ ~gone[r]
    /\ gone' = [gone EXCEPT ![r] = TRUE]
    /\ UNCHANGED <<op, local, shared>>

\* The process dies with every request in it; Postgres and Redis live on.
Crash ==
    /\ "crash" \in Environment
    /\ \E r \in Requests : Active(r)
    /\ pc' = [r \in Requests |-> IF Active(r) THEN "dead" ELSE pc[r]]
    /\ UNCHANGED <<op, subject, status, answer, code, gone, shared>>

-----------------------------------------------------------------------------

\* The steps the service takes by itself once a request is running.
Handler(r) ==
    \/ LookupKey(r)
    \/ Insert(r)
    \/ PaymentError(r)
    \/ UpdateStatus(r)
    \/ Notify(r)
    \/ Fill(r)
    \/ Invalidate(r)
    \/ CacheGet(r)
    \/ Load(r)

Next ==
    \/ \E r \in Requests :
        \/ RejectAmount(r)
        \/ BeginCreate(r)
        \/ BeginOther(r)
        \/ Handler(r)
        \/ \E s \in {"Authorized", "Declined"} : PaymentAnswered(r, s)
        \/ Expire(r)
        \/ Disconnect(r)
    \/ Crash

Spec == Init /\ [][Next]_vars

\* A running goroutine takes its next step: the Postgres and Redis servers end
\* every command, the payment call is bounded by its timeout and a cached
\* value by its TTL.  Nothing is assumed about clients, crashes or the gateway.
Fairness ==
    \A r \in Requests : WF_vars(Handler(r)) /\ WF_vars(Expire(r))

FairSpec == Spec /\ Fairness

-----------------------------------------------------------------------------
(* Properties *)

\* What a committed status may have turned into by now.  A paid order never becomes
\* a failed one, nor the other way round, but Cancelled is no final status: the
\* creator writes its outcome over a cancellation that came before it.
MayBecome ==
    [s \in Statuses |->
        {t \in Statuses : \/ t \in {s, "Cancelled"}
                          \/ s = "Pending"
                          \/ s = "Cancelled" /\ t # "Pending"}]

\* Orders no MarkPaid call names.  MarkPaid writes Paid over any status and has
\* no caller in the repository; what it may disturb is only claimed of these.
Unmarked == {id \in Requests :
                \A r \in Requests : ~(op[r].kind = "markPaid" /\ op[r].id = id)}

Consistent(id, view) == id \in Unmarked => orders[id] \in MayBecome[view]

\* Replies whose body shows the order (201, 200 and the declined payment's 422).
ShowsOrder(r) == code[r] \in {"OK", "Created", "UnprocessableEntity"}

\* What anybody was shown of an order's outcome -- by a reply, the cached copy or a
\* notification -- was committed before and holds: a Paid or Failed order is that
\* still, or has been cancelled since, and is never seen Pending or with the other
\* outcome in the table.  The cache, the replies and NOTIFY are all written after the
\* row, by different calls that other requests interleave with.  A Cancelled that
\* was shown promises no more than that the order is not Pending: the creator's
\* update may yet make it Paid or Failed, as it may a cancellation that was answered
\* 200.  Nor is the order of the notifications promised.
OutcomesShownHold ==
    /\ \A id \in Requests : cache[id] # None => Consistent(id, cache[id])
    /\ \A r \in Requests : ShowsOrder(r) => Consistent(subject[r], status[r])
    /\ \A id \in Requests : \A i \in DOMAIN notified[id] : Consistent(id, notified[id][i])

\* The creator of an order has asked the gateway to charge it.
Charging(r) == Creates(r) /\ (pc[r] = "authorize" \/ answer[r] # None)

SameKey(r, s) ==
    Creates(r) /\ Creates(s) /\ op[r].key = op[s].key /\ op[r].key # NoKey

\* However many requests carry an idempotency key, at once or one after the
\* other, at most one of them reaches the payment gateway (usecase: lookup, then
\* INSERT under the UNIQUE constraint, and only then AuthorizePayment).
OneChargePerKey ==
    \A r, s \in Requests : SameKey(r, s) /\ Charging(r) /\ Charging(s) => r = s

\* All successful replies to one idempotency key show the same order.
IdempotentReplies ==
    \A r, s \in Requests :
        SameKey(r, s) /\ code[r] = "Created" /\ code[s] = "Created" => subject[r] = subject[s]

\* The row agrees with the gateway: Paid only if it said Authorized, Failed only
\* if it declined or did not answer, and a creator that replied 201 to its own
\* payment leaves no order unpaid.
RowAgreesWithGateway ==
    \A r \in Unmarked :
        /\ orders[r] = "Paid" => answer[r] = "Authorized"
        /\ orders[r] = "Failed" => answer[r] \in {"Declined", "error"}
        /\ code[r] \in {"Created", "UnprocessableEntity"} /\ subject[r] = r => orders[r] # "Pending"

\* A settled order keeps its outcome: Paid and Failed are left only for
\* Cancelled, and no row ever goes back to Pending or disappears.
OutcomeIsFinal ==
    [][\A id \in Requests :
          orders[id] # None =>
              /\ orders'[id] \notin {None, "Pending"} \ {orders[id]}
              /\ id \in Unmarked => orders'[id] \in MayBecome[orders[id]]]_vars

\* Stale entries do not outlive their TTL: from some time on every cached status
\* is the one in the table.
CacheConverges ==
    <>[](\A id \in Requests : cache[id] \in {None, orders[id]})

\* An order does not stay Pending: its creator settles it, or a cancellation
\* does, unless the process dies over its creator: nobody looks for it later.
\* (Nor where the creator's context or statements are lost: see the README.)
NoOrderStaysPending ==
    \A id \in Requests : orders[id] = "Pending" ~> orders[id] # "Pending" \/ pc[id] = "dead"

-----------------------------------------------------------------------------
(* The inductive invariant behind the safety properties *)

\* The status a creator writes after the gateway's answer.
Outcome(a) == IF a = "Authorized" THEN "Paid" ELSE "Failed"

Closing == {"update", "notify", "fill", "invalidate"}

\* What the control point of a request says about its local state ...
LocalState(r) ==
    /\ pc[r] # "done" => code[r] = None
    /\ pc[r] # "done" => subject[r] = op[r].id
    /\ pc[r] \in {"lookup", "insert", "authorize"} => Creates(r)
    /\ pc[r] = "lookup" => op[r].key # NoKey
    /\ op[r].kind = "get" => pc[r] \notin {"update", "notify", "invalidate"}
    /\ op[r].kind = "cancel" /\ pc[r] \in Closing =>
          pc[r] # "fill" /\ status[r] = "Cancelled"
    /\ op[r].kind = "markPaid" /\ pc[r] \in Closing =>
          pc[r] # "fill" /\ status[r] = "Paid"
    /\ Creates(r) => pc[r] \notin {"cacheGet", "load"}
    /\ Creates(r) /\ pc[r] \in Closing =>
          answer[r] # None /\ status[r] = Outcome(answer[r])
    /\ Creates(r) /\ pc[r] = "fill" => answer[r] = "Authorized"

\* ... and about the row of the order it creates.
RowState(r) ==
    /\ orders[r] # None => Creates(r)
    /\ answer[r] # None => orders[r] # None
    /\ pc[r] \in {"idle", "lookup", "insert"} => orders[r] = None /\ answer[r] = None
    /\ pc[r] = "authorize" => orders[r] # None /\ answer[r] = None
    /\ r \in Unmarked =>
          /\ orders[r] = "Paid" => answer[r] = "Authorized"
          /\ orders[r] = "Failed" => answer[r] \in {"Declined", "error"}
          /\ Creates(r) /\ pc[r] = "update" => orders[r] \in {"Pending", "Cancelled"}

\* A status some request has read or committed and not yet passed on.
InFlight(r) ==
    \/ pc[r] \in {"notify", "fill"}
    \/ pc[r] = "invalidate" /\ answer[r] # "error"

\* Consistent is not inductive by itself (a Paid order may be cancelled, and a
\* cancelled one may turn Failed): what keeps it is that only the creator
\* settles an order, once, by the gateway's answer.
Supported(id, view) ==
    /\ view # None
    /\ id \in Unmarked =>
        /\ orders[id] # None
        /\ view # "Pending" => orders[id] # "Pending"
        /\ view = "Paid" => answer[id] = "Authorized"
        /\ view = "Failed" => answer[id] \in {"Declined", "error"}

FlightSupported == \A r \in Requests : InFlight(r) => Supported(op[r].id, status[r])
CacheSupported == \A id \in Requests : cache[id] # None => Supported(id, cache[id])
RepliesSupported == \A r \in Requests : ShowsOrder(r) => Supported(subject[r], status[r])
NotifiedSupported ==
    \A id \in Requests : \A i \in DOMAIN notified[id] : Supported(id, notified[id][i])

ViewsSupported == FlightSupported /\ CacheSupported /\ RepliesSupported /\ NotifiedSupported

\* The UNIQUE constraint, as a fact about the table.
RowsDifferInKey ==
    \A r, s \in Requests : SameKey(r, s) /\ orders[r] # None /\ orders[s] # None => r = s

\* What a reply says about the order it shows.
ReplyState(r) ==
    /\ code[r] \in {"Created", "UnprocessableEntity"} => Creates(r)
    /\ code[r] = "OK" => ~Creates(r)
    /\ code[r] = "Created" =>
          /\ orders[subject[r]] # None
          /\ subject[r] = r \/ SameKey(r, subject[r])
    /\ code[r] \in {"Created", "UnprocessableEntity"} /\ subject[r] = r => status[r] \in {"Paid", "Failed"}

IndInv ==
    /\ TypeOK
    /\ \A r \in Requests : LocalState(r) /\ RowState(r) /\ ReplyState(r)
    /\ RowsDifferInKey
    /\ ViewsSupported

-----------------------------------------------------------------------------
(* The abstract specification *)

\* A creator between INSERT and UPDATE, and a cancellation between its check and
\* its UPDATE, are what the lifecycle has under way.
Open == {r \in Requests : Creates(r) /\ pc[r] \in {"authorize", "update"}}
Cancelling == {r \in Requests : op[r].kind = "cancel" /\ pc[r] = "update"}
Admitted == {<<op[r].id, r>> : r \in Cancelling}

Lifecycle == INSTANCE OrderLifecycle WITH
    Orders <- Requests, Parties <- Requests,
    open <- Open, admitted <- Admitted, marked <- Requests \ Unmarked

\* Whatever the interleaving and whichever calls fail, an order lives as
\* OrderLifecycle says: each step of the service is one of its steps or none.
ImplementsLifecycle == Lifecycle!Spec

-----------------------------------------------------------------------------
(* Claims of the documentation that the code does not keep *)

\* usecase/order_usecase.go:29-31: once the status is updated and the key
\* deleted, no reader gets a stale entry.
Quiet == \A r \in Requests : ~Active(r)
NoStaleEntryAfterUpdate ==
    Quiet => \A id \in Requests : cache[id] \in {None, orders[id]}

\* order-service/README.md:19, domain/errors.go:8: only Pending orders can be
\* cancelled.
OnlyPendingIsCancelled ==
    [][\A id \in Requests :
          orders'[id] = "Cancelled" => orders[id] \in {"Pending", "Cancelled"}]_vars

=============================================================================
