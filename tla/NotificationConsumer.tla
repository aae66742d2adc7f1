------------------------ MODULE NotificationConsumer ------------------------
(***************************************************************************)
(* The notification service (notification-service): a consumer of the      *)
(* RabbitMQ queue of payment.processed events hands each delivery to a     *)
(* pool of worker goroutines; a worker takes an idempotency key in Redis,  *)
(* sends one e-mail with retries, gives the key back if it failed, and     *)
(* acknowledges the delivery or dead-letters it.                           *)
(*                                                                         *)
(* One process runs at a time (docker-compose names the container).  What  *)
(* outlives it are the broker's queues, the Redis keys and the e-mails.    *)
(***************************************************************************)
EXTENDS Integers, Sequences, FiniteSets

CONSTANTS
    Messages,        \* events in the queue
    Payments,        \* values of payment_id
    NoPayment,       \* an event without one, or whose body is not JSON
    PaymentOf,       \* PaymentOf[m]: the payment event m is about
    Workers,         \* the goroutines of the pool
    Nothing,         \* no message
    MaxAttempts,     \* Policy.MaxAttempts
    SendOutcomes,    \* how EmailSender.Send may end
    SetOutcomes,     \* how a SETNX may end
    DelOutcomes,     \* how a DEL may end
    MaxRetries,      \* how often go-redis sends a command again (3 unless set)
    Environment      \* what may happen to the process

(***************************************************************************)
(* Redis: "ok", "lost" and "late" as in OrderService; and "again": the     *)
(* command was applied, its reply was lost, and go-redis will send it      *)
(* again by itself after a pause (Options.MaxRetries is left at its        *)
(* default), in which the other workers go on.                             *)
(* Send: "ok", "fail", and "late" (sent, but an error is reported: an SMTP *)
(* reply lost after the message was accepted).                             *)
(***************************************************************************)
ASSUME ConstantsAssumption ==
    /\ NoPayment \notin Payments
    /\ Nothing \notin Messages
    /\ PaymentOf \in [Messages -> Payments \cup {NoPayment}]
    /\ IsFiniteSet(Workers) /\ Workers # {}
    /\ MaxAttempts \in Nat
    /\ SendOutcomes \subseteq {"ok", "fail", "late"}
    /\ SetOutcomes \subseteq {"ok", "lost", "late", "again"}
    /\ DelOutcomes \subseteq {"ok", "lost", "late", "again"}
    /\ MaxRetries \in Nat
    /\ Environment \subseteq {"crash", "stop", "connection"}

VARIABLES
    where,      \* where[m]: the broker's view of m: "ready", "unacked", "acked" or "dlq"
    inbox,      \* deliveries in the client library, on their way to channel msgs
    held,       \* the delivery Run has received and not yet put into jobs
    jobs,       \* the buffered channel jobs
    pc,         \* pc[w]: the next step of worker w
    job,        \* job[w]: the delivery w handles
    attempt,    \* attempt[w]: loop variable of Policy.Do
    verdict,    \* verdict[w]: how w will settle its delivery
    resent,     \* resent[w]: how often w's Redis command was applied without a reply
    idem,       \* idem[p]: the key notif:idem:<p> is set
    stolen,     \* history: payments whose key the repetition of a DEL took from another worker
    emails,     \* emails[p]: e-mails sent about p, counted up to Many
    service,    \* "running", "draining", "exited" (status 0) or "crashed"
    ctxDone,    \* the signal context is cancelled
    link        \* the AMQP connection is up

worker == <<pc, job, attempt, verdict, resent>>
buffers == <<inbox, held, jobs>>
outside == <<idem, stolen, emails>>
process == <<service, ctxDone, link>>
vars == <<where, buffers, worker, outside, process>>

PoolSize == Cardinality(Workers)
Prefetch == PoolSize
JobsCapacity == 2 * PoolSize
Many == 2

TypeOK ==
    /\ where \in [Messages -> {"ready", "unacked", "acked", "dlq"}]
    /\ inbox \in Seq(Messages)
    /\ held \in Messages \cup {Nothing}
    /\ jobs \in Seq(Messages) /\ Len(jobs) <= JobsCapacity
    /\ pc \in [Workers -> {"idle", "acquire", "send", "sleep", "release", "settle", "exited"}]
    /\ job \in [Workers -> Messages \cup {Nothing}]
    /\ attempt \in [Workers -> 0 .. MaxAttempts]
    /\ verdict \in [Workers -> {"none", "ack", "nack"}]
    /\ resent \in [Workers -> 0 .. MaxRetries]
    /\ \A w \in Workers : resent[w] # 0 => pc[w] \in {"acquire", "release"}
    /\ idem \in [Payments -> BOOLEAN]
    /\ stolen \subseteq Payments
    /\ emails \in [Payments -> 0 .. Many]
    /\ service \in {"running", "draining", "exited", "crashed"}
    /\ ctxDone \in BOOLEAN
    /\ link \in BOOLEAN

\* Events are published whenever the payment service likes; a "ready" one may
\* wait in the queue for as long as it takes, which comes to the same.
Init ==
    /\ where = [m \in Messages |-> "ready"]
    /\ inbox = <<>> /\ held = Nothing /\ jobs = <<>>
    /\ pc = [w \in Workers |-> "idle"]
    /\ job = [w \in Workers |-> Nothing]
    /\ attempt = [w \in Workers |-> 0]
    /\ verdict = [w \in Workers |-> "none"]
    /\ resent = [w \in Workers |-> 0]
    /\ idem = [p \in Payments |-> FALSE]
    /\ stolen = {}
    /\ emails = [p \in Payments |-> 0]
    /\ service = "running" /\ ctxDone = FALSE /\ link = TRUE

Alive == service \in {"running", "draining"}

\* Every Redis command takes the signal context, which also ends its repetitions.
Redis(outcomes) == IF ctxDone THEN {"lost"} ELSE outcomes

\* Send returns ctx.Err() if the context ends first; the SMTP sender leaves a
\* goroutine behind that may still get its message through.
Sender == IF ctxDone THEN SendOutcomes \cup {"fail"} ELSE SendOutcomes

-----------------------------------------------------------------------------
(* The broker *)

Unacked == {m \in Messages : where[m] = "unacked"}

\* Mutant: a consumer that forgets channel.Qos.
PrefetchUnlimited == TRUE

PrefetchAllows == Cardinality(Unacked) < Prefetch

\* Deliveries go on while the pool drains: the consumer is cancelled in Close only.
Deliver(m) ==
    /\ Alive /\ link
    /\ where[m] = "ready" /\ PrefetchAllows
    /\ where' = [where EXCEPT ![m] = "unacked"]
    /\ inbox' = Append(inbox, m)
    /\ UNCHANGED <<held, jobs, worker, outside, process>>

\* The connection ends: what was not acknowledged is ready again.
Requeued == [m \in Messages |-> IF where[m] = "unacked" THEN "ready" ELSE where[m]]

-----------------------------------------------------------------------------
(* Consumer.Run *)

\* case msg := <-msgs.  With the context done select may still choose this case.
Receive ==
    /\ service = "running" /\ held = Nothing
    /\ inbox # <<>>
    /\ held' = Head(inbox)
    /\ inbox' = Tail(inbox)
    /\ UNCHANGED <<where, jobs, worker, outside, process>>

\* jobs <- msg blocks while the channel is full, and Run with it.
Enqueue ==
    /\ service = "running" /\ held # Nothing
    /\ Len(jobs) < JobsCapacity
    /\ jobs' = Append(jobs, held)
    /\ held' = Nothing
    /\ UNCHANGED <<where, inbox, worker, outside, process>>

\* case <-ctx.Done(), or msgs was closed with the connection: close(jobs).
Drain ==
    /\ service = "running" /\ held = Nothing
    /\ ctxDone \/ ~link
    /\ service' = "draining"
    /\ UNCHANGED <<where, buffers, worker, outside, ctxDone, link>>

\* wg.Wait() is over and Run returns nil either way; Close takes the connection
\* down, deliveries still in the client library included, and main returns.
Finish ==
    /\ service = "draining"
    /\ \A w \in Workers : pc[w] = "exited"
    /\ service' = "exited"
    /\ link' = FALSE
    /\ where' = Requeued
    /\ inbox' = <<>>
    /\ UNCHANGED <<held, jobs, worker, outside, ctxDone>>

-----------------------------------------------------------------------------
(* One worker: handle, Process and Policy.Do *)

Payment(w) == PaymentOf[job[w]]
Goto(w, step) == pc' = [pc EXCEPT ![w] = step]
Conclude(w, v) == Goto(w, "settle") /\ verdict' = [verdict EXCEPT ![w] = v]

\* An event that cannot be read or names no payment is dead-lettered at once.
TakeJob(w) ==
    /\ Alive /\ pc[w] = "idle" /\ jobs # <<>>
    /\ job' = [job EXCEPT ![w] = Head(jobs)]
    /\ jobs' = Tail(jobs)
    /\ IF PaymentOf[Head(jobs)] = NoPayment
         THEN Conclude(w, "nack")
         ELSE Goto(w, "acquire") /\ UNCHANGED verdict
    /\ UNCHANGED <<where, inbox, held, attempt, resent, outside, process>>

\* Mutant: jobs is never closed.
JobsNeverClosed(w) == FALSE

\* range jobs ends once the channel is closed and empty.
ExitWorker(w) ==
    /\ service = "draining" /\ pc[w] = "idle" /\ jobs = <<>>
    /\ Goto(w, "exited")
    /\ UNCHANGED <<where, buffers, job, attempt, verdict, resent, outside, process>>

\* Policy.Do with no attempt to make returns nil, as after a success.
FirstAttempt(w) ==
    IF MaxAttempts = 0
      THEN Conclude(w, "ack") /\ UNCHANGED attempt
      ELSE /\ Goto(w, "send") /\ UNCHANGED verdict
           /\ attempt' = [attempt EXCEPT ![w] = 1]

\* The command was applied without a reply, and go-redis has a try left.
SendAgain(w) ==
    /\ resent[w] < MaxRetries
    /\ resent' = [resent EXCEPT ![w] = @ + 1]
    /\ UNCHANGED <<pc, attempt, verdict>>

\* The command has returned, with a reply or with an error.
Returned(w) == resent' = [resent EXCEPT ![w] = 0]

\* Mutant: an unreachable Redis does not stop the notification.
AcquireFailsOpen(w) ==
    /\ pc[w] = "acquire"
    /\ \E outcome \in Redis(SetOutcomes) :
        LET p == Payment(w) IN
        /\ idem' = IF outcome = "lost" THEN idem ELSE [idem EXCEPT ![p] = TRUE]
        /\ \/ outcome = "again" /\ SendAgain(w)
           \/ /\ outcome # "again" /\ Returned(w)
              /\ IF outcome = "ok" /\ idem[p]
                   THEN Conclude(w, "ack") /\ UNCHANGED attempt
                   ELSE FirstAttempt(w)
    /\ UNCHANGED <<where, buffers, job, stolen, emails, process>>

\* Mutant: SET for SETNX.
AcquireBySet(w) ==
    /\ pc[w] = "acquire"
    /\ \E outcome \in Redis(SetOutcomes) :
        /\ idem' = IF outcome = "lost" THEN idem ELSE [idem EXCEPT ![Payment(w)] = TRUE]
        /\ \/ outcome = "again" /\ SendAgain(w)
           \/ outcome = "ok" /\ Returned(w) /\ FirstAttempt(w)
           \/ /\ outcome \in {"lost", "late"} /\ Returned(w)
              /\ Conclude(w, "nack") /\ UNCHANGED attempt
    /\ UNCHANGED <<where, buffers, job, stolen, emails, process>>

\* Acquire is one SETNX; sent again, it may find the key its first try has set.
\* An error dead-letters the delivery, and nothing undoes what the command may have
\* done (worker.go:35-36); a key that is taken acknowledges it.
Acquire(w) ==
    /\ pc[w] = "acquire"
    /\ \E outcome \in Redis(SetOutcomes) :
        LET p == Payment(w) IN
        /\ idem' = IF outcome = "lost" THEN idem ELSE [idem EXCEPT ![p] = TRUE]
        /\ \/ outcome = "again" /\ SendAgain(w)
           \/ outcome = "ok" /\ ~idem[p] /\ Returned(w) /\ FirstAttempt(w)
           \/ /\ outcome = "ok" /\ idem[p] /\ Returned(w)
              /\ Conclude(w, "ack") /\ UNCHANGED attempt
           \/ /\ outcome \in {"lost", "late"} /\ Returned(w)
              /\ Conclude(w, "nack") /\ UNCHANGED attempt
    /\ UNCHANGED <<where, buffers, job, stolen, emails, process>>

\* Mutant: one attempt too many.
OneMoreAttempt(w) == Goto(w, IF attempt[w] > MaxAttempts THEN "release" ELSE "sleep")

\* After a failed attempt: the last one gives up, any other one waits.
AttemptFailed(w) == Goto(w, IF attempt[w] = MaxAttempts THEN "release" ELSE "sleep")

\* Mutant: the result of the first attempt is dropped and the loop goes on.
SendLoopsOn(w) ==
    /\ pc[w] = "send"
    /\ \E outcome \in Sender :
        /\ emails' = IF outcome = "fail" THEN emails
                     ELSE [emails EXCEPT ![Payment(w)] = IF @ < Many THEN @ + 1 ELSE @]
        /\ AttemptFailed(w) /\ UNCHANGED verdict
    /\ UNCHANGED <<where, buffers, job, attempt, resent, idem, stolen, process>>

\* One attempt to send.
Send(w) ==
    /\ pc[w] = "send"
    /\ \E outcome \in Sender :
        /\ emails' = IF outcome = "fail" THEN emails
                     ELSE [emails EXCEPT ![Payment(w)] = IF @ < Many THEN @ + 1 ELSE @]
        /\ IF outcome = "ok" THEN Conclude(w, "ack")
                             ELSE AttemptFailed(w) /\ UNCHANGED verdict
    /\ UNCHANGED <<where, buffers, job, attempt, resent, idem, stolen, process>>

\* The backoff: the timer starts the next attempt, a cancelled context ends them.
Sleep(w) ==
    /\ pc[w] = "sleep"
    /\ \/ /\ Goto(w, "send")
          /\ attempt' = [attempt EXCEPT ![w] = @ + 1]
       \/ /\ ctxDone
          /\ Goto(w, "release") /\ UNCHANGED attempt
    /\ UNCHANGED <<where, buffers, job, verdict, resent, outside, process>>

\* Mutant: the last attempt dead-letters the delivery without a Release.
ReleaseForgotten(w) ==
    /\ pc[w] = "release"
    /\ Conclude(w, "nack")
    /\ UNCHANGED <<where, buffers, job, attempt, resent, outside, process>>

\* Release is one DEL; its error is only logged.  It deletes whatever is there: sent
\* again, it may find the key that another worker has taken since.
Release(w) ==
    /\ pc[w] = "release"
    /\ \E outcome \in Redis(DelOutcomes) :
        LET p == Payment(w) IN
        /\ idem' = IF outcome = "lost" THEN idem ELSE [idem EXCEPT ![p] = FALSE]
        /\ stolen' = IF outcome # "lost" /\ resent[w] > 0 /\ idem[p]
                       THEN stolen \cup {p} ELSE stolen
        /\ \/ outcome = "again" /\ SendAgain(w)
           \/ /\ outcome # "again" /\ Returned(w)
              /\ Conclude(w, "nack") /\ UNCHANGED attempt
    /\ UNCHANGED <<where, buffers, job, emails, process>>

\* Mutant: a failed delivery is neither acknowledged nor rejected.
NackForgotten(w) == IF verdict[w] = "ack" THEN "acked" ELSE "unacked"

\* Mutant: the failed delivery is acknowledged as well.
AckAnyway(w) == "acked"

SettledAs(w) == IF verdict[w] = "ack" THEN "acked" ELSE "dlq"

\* Ack or Nack(requeue = false); neither reaches the broker once the connection
\* is gone, and the error is logged or dropped.
Settle(w) ==
    /\ pc[w] = "settle"
    /\ where' = IF link THEN [where EXCEPT ![job[w]] = SettledAs(w)] ELSE where
    /\ Goto(w, "idle")
    /\ job' = [job EXCEPT ![w] = Nothing]
    /\ attempt' = [attempt EXCEPT ![w] = 0]
    /\ verdict' = [verdict EXCEPT ![w] = "none"]
    /\ UNCHANGED <<buffers, resent, outside, process>>

-----------------------------------------------------------------------------
(* main and the environment *)

Stop ==
    /\ "stop" \in Environment
    /\ Alive /\ ~ctxDone
    /\ ctxDone' = TRUE
    /\ UNCHANGED <<where, buffers, worker, outside, service, link>>

\* What the client library has buffered is dropped; what Run and the workers
\* hold goes on being handled.
LoseConnection ==
    /\ "connection" \in Environment
    /\ Alive /\ link
    /\ link' = FALSE
    /\ where' = Requeued
    /\ inbox' = <<>>
    /\ UNCHANGED <<held, jobs, worker, outside, service, ctxDone>>

Crash ==
    /\ "crash" \in Environment
    /\ Alive
    /\ where' = Requeued
    /\ inbox' = <<>> /\ held' = Nothing /\ jobs' = <<>>
    /\ pc' = [w \in Workers |-> "idle"]
    /\ job' = [w \in Workers |-> Nothing]
    /\ attempt' = [w \in Workers |-> 0]
    /\ verdict' = [w \in Workers |-> "none"]
    /\ resent' = [w \in Workers |-> 0]
    /\ service' = "crashed"
    /\ ctxDone' = FALSE /\ link' = FALSE
    /\ UNCHANGED outside

\* A new process: started by docker after a crash, by hand after an exit with
\* status 0 (restart: on-failure).  Its buffers and jobs are empty like those its
\* predecessor left.
Restart ==
    /\ ~Alive
    /\ pc' = [w \in Workers |-> "idle"] /\ resent' = [w \in Workers |-> 0]
    /\ service' = "running" /\ ctxDone' = FALSE /\ link' = TRUE
    /\ UNCHANGED <<where, buffers, job, attempt, verdict, outside>>

-----------------------------------------------------------------------------

Work(w) ==
    \/ TakeJob(w)
    \/ ExitWorker(w)
    \/ Acquire(w)
    \/ Send(w)
    \/ Sleep(w)
    \/ Release(w)
    \/ Settle(w)

Dispatch == Receive \/ Enqueue \/ Drain

Next ==
    \/ \E m \in Messages : Deliver(m)
    \/ Dispatch
    \/ Finish
    \/ \E w \in Workers : Work(w)
    \/ Stop
    \/ LoseConnection
    \/ Crash
    \/ Restart

Spec == Init /\ [][Next]_vars

\* Goroutines that can run do, the broker delivers what it may, and docker
\* restarts a process that crashed, not one that exited.  WF(Work(w)) takes for
\* granted that an attempt to send ends: the simulated sender, which
\* docker-compose configures, ends after 250 ms; the SMTP sender dials and talks
\* without a deadline, and against a server that accepts and falls silent it ends
\* with the signal only (smtp.go).  A Redis command ends with its timeouts.
Fairness ==
    /\ \A m \in Messages : WF_vars(Deliver(m))
    /\ \A w \in Workers : WF_vars(Work(w))
    /\ WF_vars(Dispatch)
    /\ WF_vars(Finish)
    /\ WF_vars(service = "crashed" /\ Restart)

FairSpec == Spec /\ Fairness

-----------------------------------------------------------------------------
(* Properties *)

\* However often an event is queued, delivered or redelivered -- by duplicates,
\* crashes, lost connections and lost replies of Redis -- at most one e-mail is
\* sent about a payment, by a sender whose errors mean that nothing was sent.
\* The exception is a payment whose key the repetition of a DEL took from another
\* worker (idempotency.go:48): its next duplicate may send a second e-mail.
AtMostOneEmail ==
    "late" \notin SendOutcomes =>
        \A p \in Payments \ stolen : emails[p] <= 1

\* At work on its payment: between Acquire and the end of Release.
AtWork(w) == pc[w] \in {"send", "sleep", "release"}

\* At work with the payment's key: no DEL of its own was applied yet.
Busy(w) == AtWork(w) /\ (pc[w] = "release" => resent[w] = 0)

\* One worker at a time is busy with a payment, and it has the key while it is:
\* the SETNX keeps the others out until the DEL.  Only the repetition of a DEL, by
\* a worker whose first one was applied without a reply, takes away the key of
\* another worker; a payment it happened to is in stolen.
OneWorkerPerPayment ==
    \A v, w \in Workers : Busy(v) /\ Payment(v) \notin stolen =>
        /\ idem[Payment(v)]
        /\ Busy(w) /\ Payment(w) = Payment(v) => v = w

\* The process never holds more deliveries than it has workers (consumer.go:41):
\* none waits behind a busy worker while another is idle for good, and Run never
\* blocks on a full jobs channel, deaf to a signal.
DeliveriesFitThePool ==
    Len(jobs) + Cardinality({held} \ {Nothing}) + Cardinality({w \in Workers : job[w] # Nothing})
        <= PoolSize

\* A valid event that has left the queue was worth an e-mail, or is in the DLQ, or
\* another event of the payment is still in work.  (idempotency.go:44-46:
\* at-least-once, without losses.)
Pending(p) ==
    \E m \in Messages : PaymentOf[m] = p /\ where[m] \in {"ready", "unacked", "dlq"}
NothingIsLost ==
    \A p \in Payments :
        (\E m \in Messages : PaymentOf[m] = p /\ where[m] = "acked")
            => emails[p] > 0 \/ Pending(p)

\* An event does not stay in the queue unless the service stops: it is handled
\* and ends acknowledged or dead-lettered, whatever fails on the way.
EveryEventIsSettled ==
    \A m \in Messages :
        where[m] = "ready" ~> where[m] \in {"acked", "dlq"} \/ ~Alive

\* A signal or a lost connection ends the process.
DrainEnds == ctxDone \/ ~link ~> ~Alive

\* A worker whose attempts have failed does not keep the key: when it stops being
\* busy its e-mail is sent or its DEL applied, so that the event can be taken from
\* the DLQ later (worker.go:47) -- unless it is being stopped, when its DEL has the
\* cancelled context and is not sent.  This is about the workers that have got the
\* key.  One whose SETNX was applied without a reply was told that it has not: it
\* dead-letters the event with the key set, and no DEL follows (worker.go:35-36).
FailedAttemptsFreeTheKey ==
    [][\A w \in Workers :
          Busy(w) /\ ~Busy(w)' =>
              emails'[Payment(w)] > 0 \/ ~idem'[Payment(w)] \/ ctxDone]_vars

-----------------------------------------------------------------------------
(* The abstract specification *)

Owners == {<<Payment(w), w>> : w \in {v \in Workers : Busy(v)}}

Once == INSTANCE OncePerPayment WITH taken <- idem, owners <- Owners, void <- stolen

\* Over all duplicates, redeliveries, retries and crashes, a payment is claimed,
\* notified and given back as OncePerPayment says -- a claim that the repetition of
\* a DEL breaks included -- by a sender whose errors mean that nothing was sent.
ImplementsOnce == Once!Spec

=============================================================================
