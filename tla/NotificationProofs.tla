-------------------------- MODULE NotificationProofs --------------------------
(***************************************************************************)
(* Proofs about NotificationConsumer for every pool of workers, any number *)
(* of events and duplicates, any number of attempts, and every mixture of  *)
(* crashes, signals, lost connections and failing Redis commands.          *)
(***************************************************************************)
EXTENDS NotificationConsumer, FiniteSetTheorems, SequenceTheorems, TLAPS

USE DEF worker, buffers, outside, process

Steps == {"idle", "acquire", "send", "sleep", "release", "settle", "exited"}

-----------------------------------------------------------------------------
(* Types *)

\* A worker sleeps between two attempts, never after the last.
SleepBound == \A w \in Workers : pc[w] = "sleep" => attempt[w] # MaxAttempts

\* A worker that goes for a key has an event with a payment.
HasPayment ==
    \A w \in Workers : pc[w] = "acquire" \/ AtWork(w) => Payment(w) \in Payments

\* What TypeOK says of the variables of the workers and of what they share.
LEMMA Domains ==
    ASSUME TypeOK
    PROVE  /\ pc \in [Workers -> Steps]
           /\ job \in [Workers -> Messages \cup {Nothing}]
           /\ attempt \in [Workers -> 0 .. MaxAttempts]
           /\ verdict \in [Workers -> {"none", "ack", "nack"}]
           /\ idem \in [Payments -> BOOLEAN]
           /\ emails \in [Payments -> 0 .. Many]
           /\ where \in [Messages -> {"ready", "unacked", "acked", "dlq"}]
           /\ jobs \in Seq(Messages) /\ inbox \in Seq(Messages)
           /\ held \in Messages \cup {Nothing}
           /\ resent \in [Workers -> 0 .. MaxRetries] /\ stolen \subseteq Payments
BY DEF TypeOK, Steps

\* The capacity of jobs is a natural number.
LEMMA Capacities == PoolSize \in Nat /\ JobsCapacity \in Nat /\ PoolSize <= JobsCapacity
<1>1. Cardinality(Workers) \in Nat
  BY ConstantsAssumption, FS_CardinalityType
<1> QED
  BY <1>1 DEF PoolSize, JobsCapacity

\* The head of a queue of messages is one, and its tail is shorter.
LEMMA Shorter ==
    ASSUME NEW q \in Seq(Messages), q # <<>>
    PROVE  /\ Head(q) \in Messages /\ Tail(q) \in Seq(Messages)
           /\ Len(Tail(q)) = Len(q) - 1
           /\ Len(q) \in Nat /\ Len(q) > 0
BY HeadTailProperties, LenProperties, EmptySeq

\* What SendAgain and Returned count: only a command that waits for Redis has been
\* sent before.
ResentOK ==
    /\ resent \in [Workers -> 0 .. MaxRetries]
    /\ \A w \in Workers : resent[w] # 0 => pc[w] \in {"acquire", "release"}

\* A command that returns, one way or another, leaves no count behind.
LEMMA ResentStep ==
    ASSUME TypeOK, [Next]_vars
    PROVE  ResentOK'
<1> USE ConstantsAssumption, Domains DEF ResentOK
<1>0. ResentOK
  BY DEF TypeOK
<1> USE <1>0
<1>1. ASSUME NEW w \in Workers, SendAgain(w), pc[w] \in {"acquire", "release"} PROVE ResentOK'
  <2>1. resent[w] + 1 \in 0 .. MaxRetries
    BY <1>1 DEF SendAgain
  <2> QED
    BY <1>1, <2>1 DEF SendAgain
<1>2. ASSUME NEW w \in Workers, Returned(w), \A v \in Workers \ {w} : pc'[v] = pc[v]
      PROVE  ResentOK'
  BY <1>2 DEF Returned
<1>3. ASSUME NEW w \in Workers, Acquire(w) PROVE ResentOK'
  <2>1. \/ SendAgain(w)
        \/ Returned(w) /\ (FirstAttempt(w) \/ Conclude(w, "ack") \/ Conclude(w, "nack"))
    BY <1>3 DEF Acquire
  <2>2. CASE Returned(w) /\ (FirstAttempt(w) \/ Conclude(w, "ack") \/ Conclude(w, "nack"))
    BY <1>2, <2>2 DEF FirstAttempt, Conclude, Goto
  <2> QED
    BY <1>1, <1>3, <2>1, <2>2 DEF Acquire
<1>4. ASSUME NEW w \in Workers, Release(w) PROVE ResentOK'
  <2>1. SendAgain(w) \/ (Returned(w) /\ Conclude(w, "nack"))
    BY <1>4 DEF Release
  <2>2. CASE Returned(w) /\ Conclude(w, "nack")
    BY <1>2, <2>2 DEF Conclude, Goto
  <2> QED
    BY <1>1, <1>4, <2>1, <2>2 DEF Release
<1>5. ASSUME NEW w \in Workers, resent' = resent, pc[w] \notin {"acquire", "release"},
             \A v \in Workers \ {w} : pc'[v] = pc[v]
      PROVE  ResentOK'
  BY <1>5
<1>6. ASSUME NEW w \in Workers, TakeJob(w) \/ ExitWorker(w) \/ Send(w) \/ Sleep(w) \/ Settle(w)
      PROVE  ResentOK'
  <2>1. resent' = resent /\ pc[w] \notin {"acquire", "release"}
    BY <1>6 DEF TakeJob, ExitWorker, Send, Sleep, Settle
  <2>2. \A v \in Workers \ {w} : pc'[v] = pc[v]
    BY <1>6 DEF TakeJob, ExitWorker, Send, Sleep, Settle, AttemptFailed, Conclude, Goto
  <2> QED
    BY <1>5, <2>1, <2>2
<1>7. CASE Crash \/ Restart
  BY <1>7 DEF Crash, Restart
<1>8. CASE UNCHANGED <<pc, resent>>
  BY <1>8
<1>9. \/ UNCHANGED <<pc, resent>> \/ Crash \/ Restart
      \/ \E w \in Workers : Work(w)
  BY DEF Next, Dispatch, Deliver, Receive, Enqueue, Drain, Finish, Stop, LoseConnection, vars
<1> QED
  BY <1>3, <1>4, <1>6, <1>7, <1>8, <1>9 DEF Work

\* Whatever fails, the variables keep their types: no queue grows over its
\* capacity and no retry loop makes more attempts than the policy allows.
LEMMA TypeStep ==
    ASSUME TypeOK, SleepBound, HasPayment, [Next]_vars
    PROVE  TypeOK' /\ SleepBound'
<1> USE ConstantsAssumption, Domains, Capacities
<1>r. ResentOK'
  BY ResentStep
<1>0. <<>> \in Seq(Messages) /\ Len(<<>>) = 0
  BY EmptySeq
<1>1. ASSUME NEW m \in Messages, Deliver(m) PROVE TypeOK' /\ SleepBound'
  <2>1. inbox' \in Seq(Messages)
    BY <1>1, AppendProperties DEF Deliver
  <2> QED
    BY <1>1, <2>1, <1>r DEF TypeOK, ResentOK, SleepBound, Deliver
<1>2. CASE Receive
  <2>1. held' \in Messages /\ inbox' \in Seq(Messages)
    BY <1>2, Shorter DEF Receive
  <2> QED
    BY <1>2, <2>1, <1>r DEF TypeOK, ResentOK, SleepBound, Receive
<1>3. CASE Enqueue
  <2>1. held \in Messages
    BY <1>3 DEF Enqueue
  <2>2. jobs' \in Seq(Messages) /\ Len(jobs') = Len(jobs) + 1 /\ Len(jobs) \in Nat
    BY <1>3, <2>1, AppendProperties, LenProperties DEF Enqueue
  <2> QED
    BY <1>3, <2>2, <1>r DEF TypeOK, ResentOK, SleepBound, Enqueue
<1>4. CASE Drain
  BY <1>4, <1>r DEF TypeOK, ResentOK, SleepBound, Drain
<1>5. Requeued \in [Messages -> {"ready", "unacked", "acked", "dlq"}]
  BY DEF Requeued
<1>6. CASE Finish
  BY <1>0, <1>5, <1>6, <1>r DEF TypeOK, ResentOK, SleepBound, Finish
<1>7. ASSUME NEW w \in Workers, TakeJob(w) PROVE TypeOK' /\ SleepBound'
  <2>1. Head(jobs) \in Messages /\ jobs' \in Seq(Messages) /\ Len(jobs') <= JobsCapacity
    BY <1>7, Shorter DEF TakeJob, TypeOK
  <2>2. pc' = [pc EXCEPT ![w] = "settle"] \/ pc' = [pc EXCEPT ![w] = "acquire"]
    BY <1>7 DEF TakeJob, Conclude, Goto
  <2>3. verdict' = verdict \/ verdict' = [verdict EXCEPT ![w] = "nack"]
    BY <1>7 DEF TakeJob, Conclude
  <2>4. job' = [job EXCEPT ![w] = Head(jobs)]
    BY <1>7 DEF TakeJob
  <2>5. UNCHANGED <<where, inbox, held, attempt, idem, stolen, emails, service, ctxDone, link>>
    BY <1>7 DEF TakeJob, outside, process
  <2>6. pc' \in [Workers -> Steps]
    BY <2>2, Domains DEF Steps
  <2>7. verdict' \in [Workers -> {"none", "ack", "nack"}]
    BY <2>3, Domains
  <2>8. job' \in [Workers -> Messages \cup {Nothing}]
    BY <2>1, <2>4, Domains
  <2>9. SleepBound'
    BY <2>2, <2>5, Domains DEF SleepBound
  <2> QED
    BY <2>1, <2>5, <2>6, <2>7, <2>8, <2>9, <1>r DEF TypeOK, ResentOK, Steps
<1>8. ASSUME NEW w \in Workers, ExitWorker(w) PROVE TypeOK' /\ SleepBound'
  BY <1>8, <1>r DEF TypeOK, ResentOK, SleepBound, ExitWorker, Goto
<1>9. ASSUME NEW w \in Workers, Acquire(w) PROVE TypeOK' /\ SleepBound'
  <2>1. idem' \in [Payments -> BOOLEAN]
    BY <1>9 DEF Acquire
  <2>2. FirstAttempt(w) \/ (Conclude(w, "ack") /\ UNCHANGED attempt)
          \/ (Conclude(w, "nack") /\ UNCHANGED attempt) \/ UNCHANGED <<pc, attempt, verdict>>
    BY <1>9 DEF Acquire, SendAgain
  <2>4. /\ pc' \in [Workers -> Steps] /\ attempt' \in [Workers -> 0 .. MaxAttempts]
        /\ verdict' \in [Workers -> {"none", "ack", "nack"}]
    <3>1. CASE FirstAttempt(w) /\ MaxAttempts # 0
      <4>1. 1 \in 0 .. MaxAttempts
        BY <3>1
      <4> QED
        BY <3>1, <4>1 DEF FirstAttempt, Goto, Steps
    <3>2. CASE ~(FirstAttempt(w) /\ MaxAttempts # 0)
      <4>1. CASE UNCHANGED <<pc, attempt, verdict>>
        BY <4>1
      <4>2. ASSUME NEW v \in {"ack", "nack"}, Conclude(w, v) /\ UNCHANGED attempt
            PROVE  /\ pc' \in [Workers -> Steps] /\ attempt' \in [Workers -> 0 .. MaxAttempts]
                   /\ verdict' \in [Workers -> {"none", "ack", "nack"}]
        BY <4>2 DEF Conclude, Goto, Steps
      <4> QED
        BY <2>2, <3>2, <4>1, <4>2 DEF FirstAttempt
    <3> QED
      BY <3>1, <3>2
  <2>3. SleepBound'
    BY <1>9, <2>2 DEF SleepBound, Acquire, FirstAttempt, Conclude, Goto
  <2> QED
    BY <1>9, <2>1, <2>3, <2>4, <1>r DEF TypeOK, ResentOK, Acquire, Steps
<1>10. ASSUME NEW w \in Workers, Send(w) PROVE TypeOK' /\ SleepBound'
  <2>1. emails' \in [Payments -> 0 .. Many]
    <3>1. PICK outcome \in Sender :
            emails' = IF outcome = "fail" THEN emails
                      ELSE [emails EXCEPT ![Payment(w)] = IF @ < Many THEN @ + 1 ELSE @]
      BY <1>10 DEF Send
    <3>2. \A p \in Payments : (IF emails[p] < Many THEN emails[p] + 1 ELSE emails[p]) \in 0 .. Many
      BY DEF Many
    <3> QED
      BY <3>1, <3>2
  <2>2. /\ pc' \in [Workers -> Steps]
        /\ verdict' \in [Workers -> {"none", "ack", "nack"}]
    BY <1>10 DEF Send, AttemptFailed, Conclude, Goto, Steps
  <2>3. SleepBound'
    BY <1>10 DEF SleepBound, Send, AttemptFailed, Conclude, Goto
  <2> QED
    BY <1>10, <2>1, <2>2, <2>3, <1>r DEF TypeOK, ResentOK, Send, Steps
<1>11. ASSUME NEW w \in Workers, Sleep(w) PROVE TypeOK' /\ SleepBound'
  <2>1. attempt' \in [Workers -> 0 .. MaxAttempts]
    <3>1. pc[w] = "sleep" => attempt[w] + 1 \in 0 .. MaxAttempts
      BY DEF SleepBound
    <3> QED
      BY <1>11, <3>1 DEF Sleep
  <2>2. pc' \in [Workers -> Steps]
    BY <1>11 DEF Sleep, Goto, Steps
  <2>3. SleepBound'
    BY <1>11 DEF SleepBound, Sleep, Goto
  <2> QED
    BY <1>11, <2>1, <2>2, <2>3, <1>r DEF TypeOK, ResentOK, Sleep, Steps
<1>12. ASSUME NEW w \in Workers, Release(w) PROVE TypeOK' /\ SleepBound'
  <2>1. idem' \in [Payments -> BOOLEAN]
    BY <1>12 DEF Release
  <2>2. UNCHANGED <<pc, attempt, verdict>> \/ (Conclude(w, "nack") /\ UNCHANGED attempt)
    BY <1>12 DEF Release, SendAgain
  <2>3. pc' \in [Workers -> Steps] /\ verdict' \in [Workers -> {"none", "ack", "nack"}]
    <3>1. CASE UNCHANGED <<pc, attempt, verdict>>
      BY <3>1
    <3>2. CASE Conclude(w, "nack")
      BY <3>2 DEF Conclude, Goto, Steps
    <3> QED
      BY <2>2, <3>1, <3>2
  <2>4. SleepBound' /\ attempt' = attempt
    BY <2>2 DEF SleepBound, Conclude, Goto
  <2>5. stolen' \subseteq Payments
    BY <1>12 DEF Release, HasPayment, AtWork
  <2> QED
    BY <1>12, <2>1, <2>3, <2>4, <2>5, <1>r DEF TypeOK, ResentOK, Release, Steps
<1>13. ASSUME NEW w \in Workers, Settle(w) PROVE TypeOK' /\ SleepBound'
  <2>1. where' \in [Messages -> {"ready", "unacked", "acked", "dlq"}]
    BY <1>13 DEF Settle, SettledAs
  <2> QED
    BY <1>13, <2>1, <1>r DEF TypeOK, ResentOK, SleepBound, Settle, Goto
<1>14. CASE Stop
  BY <1>14, <1>r DEF TypeOK, ResentOK, SleepBound, Stop
<1>15. CASE LoseConnection
  BY <1>0, <1>5, <1>15, <1>r DEF TypeOK, ResentOK, SleepBound, LoseConnection
<1>16. CASE Crash
  <2>1. SleepBound'
    BY <1>16 DEF SleepBound, Crash
  <2>2. Len(jobs') <= JobsCapacity
    BY <1>0, <1>16 DEF Crash
  <2>3. attempt' \in [Workers -> 0 .. MaxAttempts] /\ job' \in [Workers -> Messages \cup {Nothing}]
    BY <1>16 DEF Crash
  <2> QED
    BY <1>0, <1>5, <1>16, <2>1, <2>2, <2>3, <1>r DEF TypeOK, ResentOK, Crash
<1>17. CASE Restart
  BY <1>17, <1>r DEF TypeOK, ResentOK, SleepBound, Restart
<1>18. CASE UNCHANGED vars
  BY <1>18, <1>r DEF vars, TypeOK, SleepBound, ResentOK
<1> QED
  BY <1>1, <1>2, <1>3, <1>4, <1>6, <1>7, <1>8, <1>9, <1>10, <1>11, <1>12, <1>13,
     <1>14, <1>15, <1>16, <1>17, <1>18 DEF Next, Dispatch, Work

\* A service that starts on a full queue is well typed.
LEMMA TypeInitially ==
    ASSUME Init
    PROVE  TypeOK /\ SleepBound
<1>1. <<>> \in Seq(Messages) /\ Len(<<>>) = 0
  BY EmptySeq
<1>2. Len(jobs) <= JobsCapacity
  BY <1>1, Capacities DEF Init
<1>3. attempt \in [Workers -> 0 .. MaxAttempts] /\ emails \in [Payments -> 0 .. Many]
  BY ConstantsAssumption DEF Init, Many
<1>5. resent \in [Workers -> 0 .. MaxRetries] /\ \A w \in Workers : resent[w] = 0
  BY ConstantsAssumption DEF Init
<1>4. where \in [Messages -> {"ready", "unacked", "acked", "dlq"}] /\ idem \in [Payments -> BOOLEAN]
  BY DEF Init
<1> QED
  BY <1>1, <1>2, <1>3, <1>4, <1>5 DEF Init, TypeOK, SleepBound

-----------------------------------------------------------------------------
(* Who has the key of a payment *)

\* An e-mail about a payment is the only one, its key is there for good, and nobody
\* is busy with another -- if no repetition of a DEL took a key of the payment.
EmailIsLast ==
    "late" \notin SendOutcomes =>
        \A p \in Payments \ stolen : emails[p] # 0 =>
            /\ emails[p] = 1 /\ idem[p]
            /\ \A w \in Workers : Busy(w) => Payment(w) # p

Claims == TypeOK /\ HasPayment /\ OneWorkerPerPayment /\ EmailIsLast

\* Nobody new is busy, and whoever is still is so with the same payment.
NobodyNew == \A w \in Workers : Busy(w)' => Busy(w) /\ Payment(w)' = Payment(w)
Quiet == NobodyNew /\ UNCHANGED <<idem, stolen, emails>>

\* What a step of w leaves alone.
OthersStand(w) == \A v \in Workers \ {w} : pc'[v] = pc[v] /\ resent'[v] = resent[v]

\* What claims a payment is left alone by steps that touch no key, e-mail or busy worker.
LEMMA QuietKeepsClaims ==
    ASSUME OneWorkerPerPayment, EmailIsLast, Quiet
    PROVE  OneWorkerPerPayment' /\ EmailIsLast'
BY DEF OneWorkerPerPayment, EmailIsLast, Quiet, NobodyNew

\* All steps but those of a busy worker and the SETNX are quiet.
LEMMA QuietSteps ==
    ASSUME TypeOK, [Next]_vars
    PROVE  \/ Quiet
           \/ \E w \in Workers : Acquire(w) \/ Send(w) \/ Release(w)
<1> USE Domains DEF Quiet, NobodyNew, Busy, AtWork, Payment
<1>1. ASSUME NEW m \in Messages, Deliver(m) PROVE Quiet
  BY <1>1 DEF Deliver
<1>2. CASE Dispatch
  BY <1>2 DEF Dispatch, Receive, Enqueue, Drain
<1>3. CASE Finish
  BY <1>3 DEF Finish
<1>4. ASSUME NEW w \in Workers, TakeJob(w) PROVE Quiet
  BY <1>4 DEF TakeJob, Conclude, Goto, Steps
<1>5. ASSUME NEW w \in Workers, ExitWorker(w) PROVE Quiet
  BY <1>5 DEF ExitWorker, Goto, Steps
<1>6. ASSUME NEW w \in Workers, Sleep(w) PROVE Quiet
  BY <1>6 DEF Sleep, Goto, Steps
<1>7. ASSUME NEW w \in Workers, Settle(w) PROVE Quiet
  BY <1>7 DEF Settle, Goto, Steps
<1>8. CASE Stop \/ LoseConnection
  BY <1>8 DEF Stop, LoseConnection
<1>9. CASE Crash \/ Restart
  BY <1>9 DEF Crash, Restart
<1>10. CASE UNCHANGED vars
  BY <1>10 DEF vars
<1> QED
  BY <1>1, <1>2, <1>3, <1>4, <1>5, <1>6, <1>7, <1>8, <1>9, <1>10 DEF Next, Work

\* SETNX takes a free key or changes nothing; only who takes it goes on.
LEMMA AcquireCases ==
    ASSUME TypeOK, HasPayment, NEW w \in Workers, Acquire(w)
    PROVE  /\ UNCHANGED <<emails, stolen, job>> /\ Payment(w) \in Payments
           /\ pc[w] = "acquire" /\ OthersStand(w)
           /\ \/ idem' = idem /\ pc'[w] \in {"acquire", "settle"}
              \/ /\ ~idem[Payment(w)]
                 /\ idem' = [idem EXCEPT ![Payment(w)] = TRUE]
                 /\ pc'[w] \in {"acquire", "send", "settle"}
<1>1. pc[w] = "acquire" /\ Payment(w) \in Payments
  BY DEF Acquire, HasPayment
<1>2. UNCHANGED <<emails, stolen, job>>
  BY DEF Acquire
<1>3. PICK outcome \in Redis(SetOutcomes) :
        /\ idem' = IF outcome = "lost" THEN idem ELSE [idem EXCEPT ![Payment(w)] = TRUE]
        /\ \/ SendAgain(w)
           \/ outcome = "ok" /\ ~idem[Payment(w)] /\ Returned(w) /\ FirstAttempt(w)
           \/ Returned(w) /\ (Conclude(w, "ack") \/ Conclude(w, "nack"))
  BY DEF Acquire
<1>4. CASE SendAgain(w)
  <2>1. OthersStand(w) /\ pc'[w] = "acquire"
    BY <1>1, <1>4, Domains DEF SendAgain, OthersStand
  <2> QED
    BY <1>1, <1>2, <1>3, <2>1, Domains
<1>5. CASE outcome = "ok" /\ ~idem[Payment(w)] /\ Returned(w) /\ FirstAttempt(w)
  <2>1. OthersStand(w) /\ pc'[w] \in {"send", "settle"}
    BY <1>5, Domains DEF Returned, FirstAttempt, Conclude, Goto, OthersStand
  <2> QED
    BY <1>1, <1>2, <1>3, <1>5, <2>1
<1>6. CASE Returned(w) /\ (Conclude(w, "ack") \/ Conclude(w, "nack"))
  <2>1. OthersStand(w) /\ pc'[w] = "settle"
    BY <1>6, Domains DEF Returned, Conclude, Goto, OthersStand
  <2> QED
    BY <1>1, <1>2, <1>3, <2>1, Domains
<1> QED
  BY <1>3, <1>4, <1>5, <1>6

\* A message that gets out is counted; a sender that says so ends the job.
LEMMA SendCases ==
    ASSUME TypeOK, HasPayment, NEW w \in Workers, Send(w)
    PROVE  /\ UNCHANGED <<idem, stolen, job>> /\ NobodyNew
           /\ pc[w] = "send" /\ Busy(w) /\ Payment(w) \in Payments
           /\ pc'[w] \in {"settle", "release", "sleep"} /\ OthersStand(w)
           /\ "late" \notin SendOutcomes =>
                \/ Quiet
                \/ /\ pc'[w] = "settle"
                   /\ emails' = [emails EXCEPT ![Payment(w)] = IF @ < Many THEN @ + 1 ELSE @]
<1>1. UNCHANGED <<idem, stolen, job>> /\ pc[w] = "send" /\ Busy(w) /\ Payment(w) \in Payments
  BY DEF Send, HasPayment, Busy, AtWork
<1>2. OthersStand(w) /\ pc'[w] \in {"settle", "release", "sleep"}
  BY Domains DEF Send, Conclude, AttemptFailed, Goto, OthersStand
<1>3. NobodyNew
  BY <1>1, <1>2 DEF NobodyNew, Busy, AtWork, Payment, OthersStand
<1>4. PICK outcome \in Sender :
        /\ emails' = IF outcome = "fail" THEN emails
                     ELSE [emails EXCEPT ![Payment(w)] = IF @ < Many THEN @ + 1 ELSE @]
        /\ outcome = "ok" => Conclude(w, "ack")
  BY DEF Send
<1>5. outcome \in {"ok", "fail", "late"} /\ ("late" \notin SendOutcomes => outcome # "late")
  BY ConstantsAssumption DEF Sender
<1>6. CASE outcome = "fail"
  BY <1>1, <1>2, <1>3, <1>4, <1>6 DEF Quiet
<1>7. CASE outcome = "ok"
  <2>1. pc'[w] = "settle"
    BY <1>4, <1>7, Domains DEF Conclude, Goto
  <2> QED
    BY <1>1, <1>2, <1>3, <1>4, <1>7, <2>1
<1>8. CASE outcome = "late"
  BY <1>1, <1>2, <1>3, <1>5, <1>8
<1> QED
  BY <1>5, <1>6, <1>7, <1>8

\* The first DEL takes away the worker's own key; its repetition finds none, or takes
\* away another's.
LEMMA ReleaseCases ==
    ASSUME TypeOK, HasPayment, NEW w \in Workers, Release(w)
    PROVE  /\ UNCHANGED <<emails, job>> /\ NobodyNew /\ ~Busy(w)'
           /\ pc[w] = "release" /\ pc'[w] \in {"release", "settle"} /\ Payment(w) \in Payments
           /\ OthersStand(w)
           /\ Busy(w) => /\ stolen' = stolen
                         /\ idem' \in {idem, [idem EXCEPT ![Payment(w)] = FALSE]}
           /\ ~Busy(w) => \/ UNCHANGED <<idem, stolen>>
                          \/ /\ idem[Payment(w)] /\ stolen' = stolen \cup {Payment(w)}
                             /\ idem' = [idem EXCEPT ![Payment(w)] = FALSE]
<1>1. UNCHANGED <<emails, job>> /\ pc[w] = "release" /\ Payment(w) \in Payments
  BY DEF Release, HasPayment, AtWork
<1>2. SendAgain(w) \/ (Returned(w) /\ Conclude(w, "nack"))
  BY DEF Release
<1>3. OthersStand(w) /\ pc'[w] \in {"release", "settle"}
  BY <1>1, <1>2, Domains DEF SendAgain, Returned, Conclude, Goto, OthersStand
<1>4. ~Busy(w)'
  <2>1. CASE SendAgain(w)
    <3>1. resent'[w] # 0
      BY <2>1, Domains, ConstantsAssumption DEF SendAgain
    <3>2. pc'[w] = "release"
      BY <1>1, <2>1 DEF SendAgain
    <3> QED
      BY <3>1, <3>2 DEF Busy
  <2>2. CASE Conclude(w, "nack")
    BY <2>2, Domains DEF Conclude, Goto, Busy, AtWork
  <2> QED
    BY <1>2, <2>1, <2>2
<1>5. NobodyNew
  BY <1>1, <1>3, <1>4 DEF NobodyNew, Busy, AtWork, Payment, OthersStand
<1>6. PICK outcome \in Redis(DelOutcomes) :
        /\ idem' = IF outcome = "lost" THEN idem ELSE [idem EXCEPT ![Payment(w)] = FALSE]
        /\ stolen' = IF outcome # "lost" /\ resent[w] > 0 /\ idem[Payment(w)]
                       THEN stolen \cup {Payment(w)} ELSE stolen
  BY DEF Release
<1>7. Busy(w) <=> ~(resent[w] > 0)
  BY <1>1, Domains DEF Busy, AtWork
<1>8. ~idem[Payment(w)] => [idem EXCEPT ![Payment(w)] = FALSE] = idem
  BY <1>1, Domains
<1> QED
  BY <1>1, <1>3, <1>4, <1>5, <1>6, <1>7, <1>8

\* A payment is in hand exactly while the worker's job has one.
LEMMA HasPaymentStep ==
    ASSUME TypeOK, HasPayment, [Next]_vars
    PROVE  HasPayment'
<1> USE Domains DEF HasPayment, AtWork, Payment, OthersStand
<1>1. ASSUME NEW w \in Workers, TakeJob(w) PROVE HasPayment'
  <2>1. Head(jobs) \in Messages
    BY <1>1, Shorter DEF TakeJob
  <2>2. PaymentOf[Head(jobs)] \in Payments \/ PaymentOf[Head(jobs)] = NoPayment
    BY <2>1, ConstantsAssumption
  <2> QED
    BY <1>1, <2>1, <2>2 DEF TakeJob, Conclude, Goto
<1>2. ASSUME NEW w \in Workers, Acquire(w) PROVE HasPayment'
  BY <1>2, AcquireCases
<1>3. ASSUME NEW w \in Workers, Send(w) PROVE HasPayment'
  BY <1>3, SendCases
<1>4. ASSUME NEW w \in Workers, Release(w) PROVE HasPayment'
  BY <1>4, ReleaseCases
<1>5. ASSUME NEW w \in Workers, ExitWorker(w) \/ Sleep(w) \/ Settle(w) PROVE HasPayment'
  BY <1>5 DEF ExitWorker, Sleep, Settle, Goto
<1>6. ASSUME NEW m \in Messages, Deliver(m) PROVE HasPayment'
  BY <1>6 DEF Deliver
<1>7. CASE Dispatch \/ Finish \/ Stop \/ LoseConnection
  BY <1>7 DEF Dispatch, Receive, Enqueue, Drain, Finish, Stop, LoseConnection
<1>8. CASE Crash \/ Restart
  BY <1>8 DEF Crash, Restart
<1>9. CASE UNCHANGED vars
  BY <1>9 DEF vars
<1> QED
  BY <1>1, <1>2, <1>3, <1>4, <1>5, <1>6, <1>7, <1>8, <1>9 DEF Next, Work

\* The types hold in every reachable state: no queue grows over its capacity and
\* no retry loop makes more attempts than the policy allows.
THEOREM TypeInvariant == Spec => [](TypeOK /\ SleepBound)
<1>1. Init => TypeOK /\ SleepBound /\ HasPayment
  BY TypeInitially DEF Init, HasPayment, AtWork
<1>2. (TypeOK /\ SleepBound /\ HasPayment) /\ [Next]_vars => (TypeOK /\ SleepBound /\ HasPayment)'
  BY TypeStep, HasPaymentStep
<1> QED
  BY <1>1, <1>2, PTL DEF Spec

\* SETNX lets one worker in, who leaves with the e-mail sent or the key returned.
LEMMA ClaimsStep ==
    ASSUME Claims, SleepBound, [Next]_vars
    PROVE  Claims'
<1>1. TypeOK /\ HasPayment /\ OneWorkerPerPayment /\ EmailIsLast
  BY DEF Claims
<1>2. TypeOK' /\ HasPayment'
  BY <1>1, TypeStep, HasPaymentStep
<1>3. CASE Quiet
  BY <1>1, <1>2, <1>3, QuietKeepsClaims DEF Claims
<1>4. ASSUME NEW w \in Workers, Acquire(w) PROVE OneWorkerPerPayment' /\ EmailIsLast'
  <2>1. CASE idem' = idem /\ pc'[w] \in {"acquire", "settle"}
    <3>1. Quiet
      BY <1>1, <1>4, <2>1, AcquireCases DEF Quiet, NobodyNew, Busy, AtWork, Payment, OthersStand
    <3> QED
      BY <1>1, <3>1, QuietKeepsClaims
  <2>2. CASE ~idem[Payment(w)] /\ idem' = [idem EXCEPT ![Payment(w)] = TRUE]
    <3>1. \A v \in Workers : Payment(v)' = Payment(v) /\ (Busy(v)' => Busy(v) \/ v = w)
      BY <1>1, <1>4, AcquireCases DEF Busy, AtWork, Payment, OthersStand
    <3>2. \A v \in Workers : Busy(v) => Payment(v) \in Payments
                                       /\ (Payment(v) \notin stolen => Payment(v) # Payment(w))
      BY <1>1, <2>2 DEF OneWorkerPerPayment, HasPayment, Busy
    <3>3. \A p \in Payments : idem'[p] = (idem[p] \/ p = Payment(w))
      BY <1>1, <2>2, Domains
    <3>4. UNCHANGED <<emails, stolen>> /\ Payment(w) \in Payments
      BY <1>1, <1>4, AcquireCases
    <3>5. OneWorkerPerPayment'
      BY <1>1, <3>1, <3>2, <3>3, <3>4 DEF OneWorkerPerPayment
    <3>6. EmailIsLast'
      BY <1>1, <2>2, <3>1, <3>3, <3>4 DEF EmailIsLast
    <3> QED
      BY <3>5, <3>6
  <2> QED
    BY <1>1, <1>4, <2>1, <2>2, AcquireCases
<1>5. ASSUME NEW w \in Workers, Send(w) PROVE OneWorkerPerPayment' /\ EmailIsLast'
  <2>1. OneWorkerPerPayment'
    BY <1>1, <1>5, SendCases DEF OneWorkerPerPayment, NobodyNew
  <2>2. EmailIsLast'
    <3> SUFFICES ASSUME "late" \notin SendOutcomes PROVE EmailIsLast'
      BY DEF EmailIsLast
    <3>1. CASE Quiet
      BY <1>1, <3>1, QuietKeepsClaims
    <3>2. CASE /\ pc'[w] = "settle"
               /\ emails' = [emails EXCEPT ![Payment(w)] = IF @ < Many THEN @ + 1 ELSE @]
      <4>1. Busy(w) /\ Payment(w) \in Payments
            /\ (Payment(w) \notin stolen => idem[Payment(w)])
        BY <1>1, <1>5, SendCases DEF OneWorkerPerPayment
      <4>2. Payment(w) \notin stolen => emails[Payment(w)] = 0 /\ emails'[Payment(w)] = 1
        BY <1>1, <3>2, <4>1, Domains DEF EmailIsLast, Many
      <4>3. \A p \in Payments \ {Payment(w)} : emails'[p] = emails[p]
        BY <1>1, <3>2, Domains
      <4>4. \A v \in Workers : Busy(v)' => Busy(v) /\ Payment(v)' = Payment(v) /\ v # w
        BY <1>1, <1>5, <3>2, SendCases DEF NobodyNew, Busy, AtWork
      <4>5. Payment(w) \notin stolen => \A v \in Workers : Busy(v)' => Payment(v)' # Payment(w)
        BY <1>1, <4>1, <4>4 DEF OneWorkerPerPayment
      <4>6. UNCHANGED <<idem, stolen>>
        BY <1>1, <1>5, SendCases
      <4> QED
        BY <1>1, <4>1, <4>2, <4>3, <4>4, <4>5, <4>6 DEF EmailIsLast
    <3> QED
      BY <1>1, <1>5, <3>1, <3>2, SendCases
  <2> QED
    BY <2>1, <2>2
<1>6. ASSUME NEW w \in Workers, Release(w) PROVE OneWorkerPerPayment' /\ EmailIsLast'
  <2>1. Payment(w) \in Payments /\ emails' = emails /\ NobodyNew /\ ~Busy(w)'
    BY <1>1, <1>6, ReleaseCases
  <2>2. CASE UNCHANGED <<idem, stolen>>
    BY <1>1, <2>1, <2>2, QuietKeepsClaims DEF Quiet
  <2>3. CASE Busy(w) /\ stolen' = stolen /\ idem' = [idem EXCEPT ![Payment(w)] = FALSE]
    <3>1. \A v \in Workers : Busy(v)' => /\ Busy(v) /\ Payment(v)' = Payment(v) /\ v # w
                                          /\ Payment(v) \in Payments
      BY <1>1, <2>1 DEF NobodyNew, HasPayment, Busy
    <3>2. \A v \in Workers : Busy(v)' /\ Payment(v) \notin stolen => Payment(v) # Payment(w)
      BY <1>1, <2>3, <3>1 DEF OneWorkerPerPayment
    <3>3. \A p \in Payments \ {Payment(w)} : idem'[p] = idem[p]
      BY <1>1, <2>3, Domains
    <3>4. OneWorkerPerPayment'
      BY <1>1, <2>3, <3>1, <3>2, <3>3 DEF OneWorkerPerPayment
    <3>5. "late" \notin SendOutcomes /\ Payment(w) \notin stolen => emails[Payment(w)] = 0
      BY <1>1, <2>1, <2>3 DEF EmailIsLast
    <3>6. EmailIsLast'
      BY <1>1, <2>1, <2>3, <3>1, <3>3, <3>5 DEF EmailIsLast
    <3> QED
      BY <3>4, <3>6
  <2>4. CASE /\ stolen' = stolen \cup {Payment(w)}
             /\ idem' = [idem EXCEPT ![Payment(w)] = FALSE]
    <3>1. \A v \in Workers : Busy(v)' => /\ Busy(v) /\ Payment(v)' = Payment(v)
                                          /\ Payment(v) \in Payments
      BY <1>1, <2>1 DEF NobodyNew, HasPayment, Busy
    <3>2. \A p \in Payments \ {Payment(w)} : idem'[p] = idem[p]
      BY <1>1, <2>4, Domains
    <3>3. OneWorkerPerPayment'
      BY <1>1, <2>4, <3>1, <3>2 DEF OneWorkerPerPayment
    <3>4. EmailIsLast'
      BY <1>1, <2>1, <2>4, <3>1, <3>2 DEF EmailIsLast
    <3> QED
      BY <3>3, <3>4
  <2> QED
    BY <1>1, <1>6, <2>2, <2>3, <2>4, ReleaseCases
<1> QED
  BY <1>1, <1>2, <1>3, <1>4, <1>5, <1>6, QuietSteps DEF Claims

\* In every reachable state a busy worker has the key of its payment to itself.
THEOREM ClaimsInvariant == Spec => [](Claims /\ SleepBound)
<1>1. Init => Claims
  <2>1. Init => TypeOK
    BY TypeInitially
  <2> QED
    BY <2>1 DEF Init, Claims, HasPayment, OneWorkerPerPayment, EmailIsLast, Busy, AtWork
<1>2. Claims /\ SleepBound /\ [Next]_vars => Claims'
  BY ClaimsStep
<1> QED
  BY <1>1, <1>2, TypeInvariant, PTL DEF Spec

\* One worker at a time is busy with a payment, and the key is there while it is,
\* whatever commands Redis loses or answers late: the one thing that takes the key of
\* another worker away is a DEL that go-redis sends again, and stolen names the
\* payments it happened to.
THEOREM Exclusive == Spec => []OneWorkerPerPayment
BY ClaimsInvariant, PTL DEF Claims

\* Over all duplicates, redeliveries, crashes and lost replies, a payment gets one
\* e-mail at most, by a sender whose errors mean that nothing was sent -- unless the
\* repetition of a DEL has taken the payment's key from another worker.
THEOREM OneEmail == Spec => []AtMostOneEmail
<1>1. Claims => AtMostOneEmail
  <2> SUFFICES ASSUME Claims, "late" \notin SendOutcomes, NEW p \in Payments \ stolen
               PROVE  emails[p] <= 1
    BY DEF AtMostOneEmail
  <2>1. emails[p] \in 0 .. Many /\ (emails[p] # 0 => emails[p] = 1)
    BY Domains DEF Claims, EmailIsLast
  <2> QED
    BY <2>1 DEF Many
<1> QED
  BY <1>1, ClaimsInvariant, PTL

-----------------------------------------------------------------------------
(* The abstract specification *)

Refines == Once!Next \/ UNCHANGED Once!vars

\* A quiet step only ends the work of some claimants.
LEMMA QuietRefines ==
    ASSUME Quiet
    PROVE  Refines
<1>1. Owners' \subseteq Owners
  BY DEF Quiet, NobodyNew, Owners
<1> QED
  BY <1>1 DEF Quiet, Refines, Once!Next, Once!Die

\* The others own what they owned, and w what it is busy with.
LEMMA OwnersAfter ==
    ASSUME NEW w \in Workers, job' = job, OthersStand(w)
    PROVE  /\ ~Busy(w)' => Owners' = Owners \ {<<Payment(w), w>>}
           /\ Busy(w) \/ ~Busy(w)' \/ Owners' = Owners \cup {<<Payment(w), w>>}
           /\ Busy(w) \/ Busy(w)' \/ Owners' = Owners
<1>1. \A v \in Workers \ {w} : Busy(v)' <=> Busy(v)
  BY DEF OthersStand, Busy, AtWork
<1>2. \A v \in Workers : Payment(v)' = Payment(v)
  BY DEF Payment
<1> QED
  BY <1>1, <1>2 DEF Owners

\* Every step of the service is one of the abstract specification, or none.
LEMMA StepRefines ==
    ASSUME "late" \notin SendOutcomes, Claims, [Next]_vars
    PROVE  Refines
<1>1. TypeOK /\ HasPayment /\ OneWorkerPerPayment /\ EmailIsLast
  BY DEF Claims
<1>2. ASSUME NEW w \in Workers, Acquire(w) PROVE Refines
  <2>1. CASE idem' = idem /\ pc'[w] \in {"acquire", "settle"}
    <3>1. Quiet
      BY <1>1, <1>2, <2>1, AcquireCases DEF Quiet, NobodyNew, Busy, AtWork, Payment, OthersStand
    <3> QED
      BY <3>1, QuietRefines
  <2>2. CASE /\ ~idem[Payment(w)]
             /\ idem' = [idem EXCEPT ![Payment(w)] = TRUE]
             /\ pc'[w] \in {"acquire", "send", "settle"}
    <3>1. ~Busy(w)
      BY <1>1, <1>2, AcquireCases DEF Busy, AtWork
    <3>2. Owners' \in {Owners, Owners \cup {<<Payment(w), w>>}}
      BY <1>1, <1>2, <3>1, AcquireCases, OwnersAfter
    <3>3. Once!Claim(Payment(w), w)
      BY <1>1, <1>2, <2>2, <3>2, AcquireCases DEF Once!Claim
    <3> QED
      BY <1>1, <1>2, <3>3, AcquireCases DEF Refines, Once!Next
  <2> QED
    BY <1>1, <1>2, <2>1, <2>2, AcquireCases
<1>3. ASSUME NEW w \in Workers, Send(w) PROVE Refines
  <2>1. CASE Quiet
    BY <2>1, QuietRefines
  <2>2. CASE /\ pc'[w] = "settle"
             /\ emails' = [emails EXCEPT ![Payment(w)] = IF @ < Many THEN @ + 1 ELSE @]
    <3>1. Busy(w) /\ Payment(w) \in Payments /\ UNCHANGED <<idem, stolen>>
      BY <1>1, <1>3, SendCases
    <3>2. emails[Payment(w)] = 0 \/ Payment(w) \in stolen
      BY <1>1, <3>1 DEF EmailIsLast
    <3>3. ~Busy(w)'
      BY <2>2 DEF Busy, AtWork
    <3>4. Owners' = Owners \ {<<Payment(w), w>>} /\ <<Payment(w), w>> \in Owners
      BY <1>1, <1>3, <3>1, <3>3, SendCases, OwnersAfter DEF Owners
    <3>5. Once!Send(Payment(w), w)
      BY <2>2, <3>1, <3>2, <3>4 DEF Once!Send, Many
    <3> QED
      BY <3>1, <3>5 DEF Refines, Once!Next
  <2> QED
    BY <1>1, <1>3, <2>1, <2>2, SendCases
<1>4. ASSUME NEW w \in Workers, Release(w) PROVE Refines
  <2>1. Payment(w) \in Payments /\ emails' = emails
    BY <1>1, <1>4, ReleaseCases
  <2>2. CASE Busy(w)
    <3>1. emails[Payment(w)] = 0 \/ Payment(w) \in stolen
      BY <1>1, <2>1, <2>2 DEF EmailIsLast
    <3>2. Owners' = Owners \ {<<Payment(w), w>>} /\ <<Payment(w), w>> \in Owners
      BY <1>1, <1>4, <2>2, ReleaseCases, OwnersAfter DEF Owners
    <3>3. Once!GiveUp(Payment(w), w)
      BY <1>1, <1>4, <2>2, <3>1, <3>2, ReleaseCases DEF Once!GiveUp
    <3> QED
      BY <2>1, <3>3 DEF Refines, Once!Next
  <2>3. CASE ~Busy(w)
    <3>1. Owners' = Owners
      BY <1>1, <1>4, <2>3, ReleaseCases, OwnersAfter
    <3>2. UNCHANGED Once!vars \/ Once!Break(Payment(w))
      BY <1>1, <1>4, <2>3, <3>1, ReleaseCases DEF Once!Break, Once!vars
    <3> QED
      BY <2>1, <3>2 DEF Refines, Once!Next
  <2> QED
    BY <2>2, <2>3
<1>5. CASE Quiet
  BY <1>5, QuietRefines
<1> QED
  BY <1>1, <1>2, <1>3, <1>4, <1>5, QuietSteps

\* A payment is claimed, notified and given back as OncePerPayment says, by a
\* sender whose errors mean that nothing was sent; the repetition of a DEL that
\* takes another worker's key is its Break.
THEOREM OnceImplemented ==
    ASSUME "late" \notin SendOutcomes
    PROVE  Spec => ImplementsOnce
<1>1. Init => Once!Init
  <2> SUFFICES ASSUME Init PROVE Once!Init
    OBVIOUS
  <2>1. \A w \in Workers : ~Busy(w)
    BY DEF Init, Busy, AtWork
  <2>2. Owners = {}
    BY <2>1 DEF Owners
  <2> QED
    BY <2>2 DEF Init, Once!Init
<1>2. Claims /\ [Next]_vars => [Once!Next]_(Once!vars)
  BY StepRefines DEF Refines
<1> QED
  BY <1>1, <1>2, ClaimsInvariant, PTL DEF Spec, ImplementsOnce, Once!Spec

-----------------------------------------------------------------------------
(* The deliveries in the process *)

Loaded == {w \in Workers : job[w] # Nothing}
HeldSet == {held} \ {Nothing}

\* What the process holds, the client library's buffer not counted.
InProcess == Len(jobs) + Cardinality(HeldSet) + Cardinality(Loaded)

\* A delivery in the process is unacknowledged at the broker, or the connection
\* is down and nothing more is delivered.
PoolInv ==
    /\ IsFiniteSet(Unacked)
    /\ link => InProcess + Len(inbox) <= Cardinality(Unacked) /\ Cardinality(Unacked) <= PoolSize
    /\ ~link => Unacked = {} /\ inbox = <<>> /\ InProcess <= PoolSize
    /\ \A w \in Workers : pc[w] \in {"idle", "exited"} <=> job[w] = Nothing
    /\ \A w \in Workers : pc[w] = "exited" => jobs = <<>>
    /\ (\E w \in Workers : pc[w] = "exited") => held = Nothing /\ service # "running"
    /\ service # "running" => held = Nothing
    /\ ~Alive => ~link /\ jobs = <<>> /\ Loaded = {}

\* The numbers InProcess adds up, before a step and after it.
Counted ==
    /\ IsFiniteSet(Loaded) /\ Cardinality(Loaded) \in Nat
    /\ Cardinality(HeldSet) = IF held = Nothing THEN 0 ELSE 1
    /\ Len(jobs) \in Nat /\ Len(inbox) \in Nat
    /\ InProcess \in Nat

LEMMA Counts == TypeOK => Counted
<1> SUFFICES ASSUME TypeOK PROVE Counted
  OBVIOUS
<1>1. IsFiniteSet(Loaded) /\ Cardinality(Loaded) \in Nat
  BY ConstantsAssumption, FS_Subset, FS_CardinalityType DEF Loaded
<1>2. Cardinality(HeldSet) = IF held = Nothing THEN 0 ELSE 1
  <2>1. CASE held = Nothing
    <3>1. HeldSet = {}
      BY <2>1 DEF HeldSet
    <3> QED
      BY <2>1, <3>1, FS_EmptySet
  <2>2. CASE held # Nothing
    <3>1. HeldSet = {held}
      BY <2>2 DEF HeldSet
    <3> QED
      BY <2>2, <3>1, FS_Singleton
  <2> QED
    BY <2>1, <2>2
<1>3. Len(jobs) \in Nat /\ Len(inbox) \in Nat
  BY Domains, LenProperties
<1> QED
  BY <1>1, <1>2, <1>3 DEF Counted, InProcess

LEMMA CountsNext == TypeOK' => Counted'
BY Counts, PTL

\* Steps of a worker with a job that keeps it.
LEMMA WorkingStep ==
    ASSUME TypeOK, PoolInv, NEW w \in Workers,
           pc[w] \notin {"idle", "exited"}, pc'[w] \notin {"idle", "exited"},
           \A v \in Workers \ {w} : pc'[v] = pc[v],
           job' = job, UNCHANGED <<where, inbox, held, jobs, service, link>>
    PROVE  PoolInv'
<1>1. /\ Unacked' = Unacked /\ Loaded' = Loaded /\ HeldSet' = HeldSet
      /\ PoolSize' = PoolSize /\ Alive' = Alive
  BY DEF Unacked, Loaded, HeldSet, PoolSize, Alive
<1>2. InProcess' = InProcess
  BY <1>1 DEF InProcess
<1> QED
  BY <1>1, <1>2 DEF PoolInv

\* Each step passes a delivery on, or makes room: the broker delivers only while
\* fewer than PoolSize are unacknowledged.
LEMMA PoolStep ==
    ASSUME TypeOK, PoolInv, TypeOK', [Next]_vars
    PROVE  PoolInv'
<1>0. PoolSize \in Nat /\ PoolSize' = PoolSize
  BY Capacities DEF PoolSize
<1> USE DEF Counted
<1>1. ASSUME NEW m \in Messages, Deliver(m) PROVE PoolInv'
  <2>1. Unacked' = Unacked \cup {m} /\ m \notin Unacked
    BY <1>1, Domains DEF Deliver, Unacked
  <2>2. /\ IsFiniteSet(Unacked')
        /\ Cardinality(Unacked') = Cardinality(Unacked) + 1 /\ Cardinality(Unacked) \in Nat
    BY <2>1, FS_AddElement, FS_CardinalityType DEF PoolInv
  <2>3. Len(inbox') = Len(inbox) + 1
    BY <1>1, Domains, AppendProperties DEF Deliver
  <2>4. /\ InProcess' = InProcess /\ Loaded' = Loaded /\ Alive' = Alive
        /\ UNCHANGED <<link, held, jobs, pc, job, service>>
    BY <1>1 DEF Deliver, InProcess, HeldSet, Loaded, Alive
  <2>5. link /\ Cardinality(Unacked) < PoolSize
    BY <1>1 DEF Deliver, PrefetchAllows, Prefetch
  <2> QED
    BY <1>0, <2>2, <2>3, <2>4, <2>5, Counts DEF PoolInv
<1>2. CASE Receive
  <2>1. held = Nothing /\ held' # Nothing /\ Len(inbox') = Len(inbox) - 1 /\ Len(inbox) > 0
    BY <1>2, Domains, Shorter, ConstantsAssumption DEF Receive
  <2>2. /\ Unacked' = Unacked /\ Loaded' = Loaded /\ Alive' = Alive
        /\ UNCHANGED <<link, jobs, pc, job, service>> /\ service = "running"
    BY <1>2 DEF Receive, Unacked, Loaded, Alive
  <2>3. Cardinality(HeldSet) = 0 /\ Cardinality(HeldSet)' = 1
    BY <2>1, Counts, CountsNext
  <2>4. InProcess' = InProcess + 1
    BY <2>2, <2>3, Counts DEF InProcess
  <2>5. inbox # <<>>
    BY <1>2 DEF Receive
  <2> QED
    BY <1>0, <2>1, <2>2, <2>4, <2>5, Counts DEF PoolInv, Alive
<1>3. CASE Enqueue
  <2>1. held # Nothing /\ held' = Nothing /\ Len(jobs') = Len(jobs) + 1
    BY <1>3, Domains, AppendProperties DEF Enqueue
  <2>2. /\ Unacked' = Unacked /\ Loaded' = Loaded /\ Alive' = Alive
        /\ UNCHANGED <<link, inbox, pc, job, service>> /\ service = "running"
    BY <1>3 DEF Enqueue, Unacked, Loaded, Alive
  <2>3. Cardinality(HeldSet) = 1 /\ Cardinality(HeldSet)' = 0
    BY <2>1, Counts, CountsNext
  <2>4. InProcess' = InProcess
    BY <2>1, <2>2, <2>3, Counts DEF InProcess
  <2> QED
    BY <1>0, <2>1, <2>2, <2>4, Counts DEF PoolInv, Alive
<1>4. CASE Drain
  <2>1. /\ Unacked' = Unacked /\ Loaded' = Loaded /\ InProcess' = InProcess
        /\ UNCHANGED <<link, inbox, held, jobs, pc, job>>
        /\ held = Nothing /\ service' = "draining"
    BY <1>4 DEF Drain, Unacked, Loaded, InProcess, HeldSet
  <2> QED
    BY <1>0, <2>1 DEF PoolInv, Alive
<1>5. CASE Finish
  <2>1. /\ Unacked' = {} /\ Loaded = {} /\ Loaded' = {} /\ jobs = <<>> /\ held = Nothing
        /\ UNCHANGED <<jobs, held, pc, job>>
        /\ link' = FALSE /\ inbox' = <<>> /\ service' = "exited"
    BY <1>5, Domains, ConstantsAssumption DEF Finish, Unacked, Requeued, PoolInv, Loaded
  <2>2. InProcess' = 0
    BY <2>1, FS_EmptySet, EmptySeq, CountsNext DEF InProcess
  <2> QED
    BY <1>0, <2>1, <2>2, FS_EmptySet DEF PoolInv, Alive
<1>6. ASSUME NEW w \in Workers, TakeJob(w) PROVE PoolInv'
  <2>1. /\ jobs # <<>> /\ Len(jobs') = Len(jobs) - 1 /\ Head(jobs) \in Messages
        /\ pc[w] = "idle" /\ Alive /\ pc'[w] \in {"settle", "acquire"}
        /\ \A v \in Workers \ {w} : pc'[v] = pc[v]
    BY <1>6, Domains, Shorter DEF TakeJob, Conclude, Goto
  <2>2. /\ job' = [job EXCEPT ![w] = Head(jobs)] /\ Unacked' = Unacked /\ Alive' = Alive
        /\ UNCHANGED <<link, inbox, held, service>>
    BY <1>6 DEF TakeJob, Unacked, Alive
  <2>3. job[w] = Nothing /\ job'[w] # Nothing /\ \A v \in Workers \ {w} : job'[v] = job[v]
    BY <2>1, <2>2, Domains, ConstantsAssumption DEF PoolInv
  <2>4. Loaded' = Loaded \cup {w} /\ w \notin Loaded
    BY <2>3 DEF Loaded
  <2>5. Cardinality(Loaded') = Cardinality(Loaded) + 1
    BY <2>4, FS_AddElement, Counts
  <2>6. InProcess' = InProcess
    BY <2>1, <2>2, <2>5, Counts DEF InProcess, HeldSet
  <2> QED
    BY <1>0, <2>1, <2>2, <2>3, <2>6 DEF PoolInv, Alive
<1>7. ASSUME NEW w \in Workers, ExitWorker(w) PROVE PoolInv'
  <2>1. /\ Unacked' = Unacked /\ Loaded' = Loaded /\ InProcess' = InProcess /\ Alive' = Alive
        /\ UNCHANGED <<link, inbox, held, jobs, job, service>>
        /\ pc[w] = "idle" /\ jobs = <<>> /\ service = "draining"
        /\ pc'[w] = "exited" /\ \A v \in Workers \ {w} : pc'[v] = pc[v]
    BY <1>7, Domains DEF ExitWorker, Goto, Unacked, Loaded, InProcess, HeldSet, Alive
  <2> QED
    BY <1>0, <2>1 DEF PoolInv
<1>8. ASSUME NEW w \in Workers, Acquire(w) \/ Send(w) \/ Sleep(w) \/ Release(w) PROVE PoolInv'
  <2>1. job' = job /\ UNCHANGED <<where, inbox, held, jobs, service, link>>
    BY <1>8 DEF Acquire, Send, Sleep, Release
  <2>2. pc[w] \in {"acquire", "send", "sleep", "release"}
    BY <1>8 DEF Acquire, Send, Sleep, Release
  <2>3. pc' = pc \/ \E step \in {"send", "sleep", "release", "settle"} : pc' = [pc EXCEPT ![w] = step]
    <3>1. CASE Acquire(w)
      <4>1. SendAgain(w) \/ FirstAttempt(w) \/ Conclude(w, "ack") \/ Conclude(w, "nack")
        BY <3>1 DEF Acquire
      <4> QED
        BY <4>1 DEF SendAgain, FirstAttempt, Conclude, Goto
    <3>2. CASE Send(w)
      BY <3>2 DEF Send, AttemptFailed, Conclude, Goto
    <3>3. CASE Sleep(w) \/ Release(w)
      BY <3>3 DEF Sleep, Release, SendAgain, Conclude, Goto
    <3> QED
      BY <1>8, <3>1, <3>2, <3>3
  <2>4. pc'[w] \notin {"idle", "exited"} /\ \A v \in Workers \ {w} : pc'[v] = pc[v]
    BY <2>2, <2>3, Domains
  <2> QED
    BY <2>1, <2>2, <2>4, WorkingStep
<1>9. ASSUME NEW w \in Workers, Settle(w) PROVE PoolInv'
  <2>1. /\ pc[w] = "settle" /\ pc'[w] = "idle" /\ \A v \in Workers \ {w} : pc'[v] = pc[v]
        /\ job' = [job EXCEPT ![w] = Nothing] /\ Alive' = Alive
        /\ UNCHANGED <<link, inbox, held, jobs, service>>
    BY <1>9, Domains DEF Settle, Goto, Alive
  <2>2. job[w] # Nothing /\ job'[w] = Nothing /\ \A v \in Workers \ {w} : job'[v] = job[v]
    BY <2>1, Domains DEF PoolInv
  <2>3. Loaded' = Loaded \ {w} /\ w \in Loaded
    BY <2>2 DEF Loaded
  <2>4. Cardinality(Loaded') = Cardinality(Loaded) - 1
    BY <2>3, FS_RemoveElement, Counts
  <2>5. InProcess' = InProcess - 1
    BY <2>1, <2>4, Counts DEF InProcess, HeldSet
  <2>6. Unacked' = IF link THEN Unacked \ {job[w]} ELSE Unacked
    BY <1>9, <2>2, Domains DEF Settle, SettledAs, Unacked
  <2>7. /\ IsFiniteSet(Unacked') /\ Cardinality(Unacked) \in Nat
        /\ Cardinality(Unacked') \in {Cardinality(Unacked), Cardinality(Unacked) - 1}
    BY <2>6, FS_RemoveElement, FS_CardinalityType DEF PoolInv
  <2> QED
    BY <1>0, <2>1, <2>2, <2>3, <2>5, <2>6, <2>7, Counts, CountsNext, SMTT(30) DEF PoolInv
<1>10. CASE Stop
  <2>1. /\ Unacked' = Unacked /\ Loaded' = Loaded /\ InProcess' = InProcess /\ Alive' = Alive
        /\ UNCHANGED <<link, inbox, held, jobs, pc, job, service>>
    BY <1>10 DEF Stop, Unacked, Loaded, InProcess, HeldSet, Alive
  <2> QED
    BY <1>0, <2>1 DEF PoolInv
<1>11. CASE LoseConnection
  <2>1. /\ Unacked' = {} /\ Loaded' = Loaded /\ InProcess' = InProcess /\ Alive' = Alive
        /\ link /\ link' = FALSE /\ inbox' = <<>>
        /\ UNCHANGED <<held, jobs, pc, job, service>>
    BY <1>11, Domains DEF LoseConnection, Unacked, Requeued, Loaded, InProcess, HeldSet, Alive
  <2>2. Cardinality(Unacked) \in Nat
    BY FS_CardinalityType DEF PoolInv
  <2> QED
    BY <1>0, <2>1, <2>2, Counts, FS_EmptySet DEF PoolInv
<1>12. CASE Crash
  <2>1. /\ Unacked' = {} /\ Loaded' = {} /\ held' = Nothing /\ jobs' = <<>> /\ inbox' = <<>>
        /\ link' = FALSE /\ service' = "crashed"
        /\ \A w \in Workers : pc'[w] = "idle" /\ job'[w] = Nothing
    BY <1>12, Domains DEF Crash, Unacked, Requeued, Loaded
  <2>2. InProcess' = 0
    BY <2>1, FS_EmptySet, EmptySeq, CountsNext DEF InProcess
  <2> QED
    BY <1>0, <2>1, <2>2, FS_EmptySet DEF PoolInv, Alive
<1>13. CASE Restart
  <2>1. /\ Unacked' = Unacked /\ Loaded' = Loaded /\ InProcess' = InProcess
        /\ ~link /\ link' = TRUE /\ jobs = <<>> /\ Loaded = {} /\ held = Nothing
        /\ UNCHANGED <<inbox, held, jobs, job>> /\ service' = "running"
        /\ \A w \in Workers : pc'[w] = "idle"
    BY <1>13 DEF Restart, Unacked, Loaded, InProcess, HeldSet, PoolInv, Alive
  <2>2. InProcess = 0
    BY <2>1, FS_EmptySet, EmptySeq, Counts DEF InProcess
  <2>3. Unacked = {} /\ inbox = <<>> /\ \A w \in Workers : job[w] = Nothing
    BY <2>1 DEF PoolInv, Loaded
  <2> QED
    BY <1>0, <2>1, <2>2, <2>3, FS_EmptySet, EmptySeq DEF PoolInv, Alive
<1>14. CASE UNCHANGED vars
  <2>1. /\ Unacked' = Unacked /\ Loaded' = Loaded /\ InProcess' = InProcess /\ Alive' = Alive
        /\ UNCHANGED <<link, inbox, held, jobs, pc, job, service>>
    BY <1>14 DEF vars, Unacked, Loaded, InProcess, HeldSet, Alive
  <2> QED
    BY <1>0, <2>1 DEF PoolInv
<1> QED
  BY <1>1, <1>2, <1>3, <1>4, <1>5, <1>6, <1>7, <1>8, <1>9, <1>10, <1>11, <1>12, <1>13, <1>14
  DEF Next, Dispatch, Work

\* The counts hold in every reachable state.
THEOREM PoolInvariant == Spec => []PoolInv
<1>1. Init => PoolInv
  <2> SUFFICES ASSUME Init PROVE PoolInv
    OBVIOUS
  <2>1. Unacked = {} /\ Loaded = {} /\ HeldSet = {}
    BY DEF Init, Unacked, Loaded, HeldSet
  <2>2. InProcess = 0
    BY <2>1, FS_EmptySet, EmptySeq DEF Init, InProcess
  <2> QED
    BY <2>1, <2>2, FS_EmptySet, EmptySeq, Capacities DEF Init, PoolInv, Alive
<1>2. TypeOK /\ PoolInv /\ TypeOK' /\ [Next]_vars => PoolInv'
  BY PoolStep
<1> QED
  BY <1>1, <1>2, TypeInvariant, PTL DEF Spec

\* With the prefetch set to the number of workers, no more deliveries than workers
\* are ever in the process, in every order in which they come, are settled, and
\* are lost with their connection: Run never waits for room in jobs.
THEOREM PoolFits == Spec => []DeliveriesFitThePool
<1>1. PoolInv /\ TypeOK => DeliveriesFitThePool
  <2> SUFFICES ASSUME PoolInv, TypeOK PROVE InProcess <= PoolSize
    BY DEF DeliveriesFitThePool, InProcess, HeldSet, Loaded
  <2> QED
    BY Counts, Capacities, FS_CardinalityType DEF PoolInv, Counted
<1> QED
  BY <1>1, PoolInvariant, TypeInvariant, PTL

-----------------------------------------------------------------------------
(* Failed attempts free the key *)

\* E-mails are counted with natural numbers.
LEMMA EmailsCount ==
    ASSUME TypeOK
    PROVE  \A p \in Payments : emails[p] \in Nat
<1>1. emails \in [Payments -> 0 .. 2]
  BY DEF TypeOK, Many
<1> QED
  BY <1>1

\* A step of another worker leaves w as busy as it was.
LEMMA OthersStayBusy ==
    ASSUME TypeOK, NEW v \in Workers, Work(v), NEW w \in Workers \ {v}, Busy(w)
    PROVE  Busy(w)'
<1> USE Domains
<1>1. pc'[w] = pc[w]
  BY DEF Work, TakeJob, ExitWorker, Acquire, Send, Sleep, Release, Settle, SendAgain,
         FirstAttempt, AttemptFailed, Conclude, Goto
<1>2. resent'[w] = resent[w]
  BY DEF Work, TakeJob, ExitWorker, Acquire, Send, Sleep, Release, Settle, SendAgain, Returned
<1> QED
  BY <1>1, <1>2 DEF Busy, AtWork

\* A worker that stops being busy has sent its e-mail, or its DEL was applied, unless
\* its process dies with it.
LEMMA GiveBackStep ==
    ASSUME TypeOK, TypeOK', HasPayment, PoolInv, [Next]_vars,
           "crash" \notin Environment, "lost" \notin DelOutcomes,
           NEW w \in Workers, Busy(w), ~Busy(w)'
    PROVE  emails'[Payment(w)] > 0 \/ ~idem'[Payment(w)] \/ ctxDone
<1> USE Domains
<1>1. Payment(w) \in Payments /\ pc[w] \in {"send", "sleep", "release"}
  BY DEF HasPayment, Busy, AtWork
<1>2. resent[w] = 0
  <2>1. resent[w] # 0 => pc[w] \in {"acquire", "release"}
    BY DEF TypeOK
  <2> QED
    BY <1>1, <2>1 DEF Busy
<1>3. pc'[w] \in {"send", "sleep", "release"} => resent'[w] # 0
  BY DEF Busy, AtWork
<1>4. Alive
  BY <1>1 DEF PoolInv, Loaded
<1>5. UNCHANGED <<pc, resent>> => FALSE
  BY <1>1, <1>2, <1>3
<1>6. Work(w)
  <2>1. ~Crash /\ ~Restart
    BY <1>4 DEF Crash, Restart
  <2>2. \A v \in Workers \ {w} : ~Work(v)
    BY OthersStayBusy
  <2> QED
    BY <1>5, <2>1, <2>2 DEF Next, Dispatch, Deliver, Receive, Enqueue, Drain, Finish, Stop,
       LoseConnection, vars
<1>7. CASE Send(w)
  <2>1. PICK outcome \in Sender :
          /\ emails' = IF outcome = "fail" THEN emails
                       ELSE [emails EXCEPT ![Payment(w)] = IF @ < Many THEN @ + 1 ELSE @]
          /\ IF outcome = "ok" THEN Conclude(w, "ack") ELSE AttemptFailed(w)
    BY <1>7 DEF Send
  <2>2. resent'[w] = 0
    BY <1>2, <1>7 DEF Send
  <2>3. outcome = "ok"
    BY <1>1, <1>3, <2>1, <2>2 DEF AttemptFailed, Goto
  <2>4. emails'[Payment(w)] = IF emails[Payment(w)] < Many THEN emails[Payment(w)] + 1
                              ELSE emails[Payment(w)]
    BY <1>1, <2>1, <2>3
  <2>5. emails[Payment(w)] \in Nat
    BY <1>1, EmailsCount
  <2> QED
    BY <2>4, <2>5 DEF Many
<1>8. CASE Release(w)
  <2>1. PICK outcome \in Redis(DelOutcomes) :
          idem' = IF outcome = "lost" THEN idem ELSE [idem EXCEPT ![Payment(w)] = FALSE]
    BY <1>8 DEF Release
  <2>2. outcome # "lost" \/ ctxDone
    BY DEF Redis
  <2> QED
    BY <1>1, <2>1, <2>2
<1>9. ~Sleep(w)
  BY <1>2, <1>3 DEF Sleep, Goto
<1>10. ~(TakeJob(w) \/ ExitWorker(w) \/ Acquire(w) \/ Settle(w))
  BY <1>1 DEF TakeJob, ExitWorker, Acquire, Settle
<1> QED
  BY <1>6, <1>7, <1>8, <1>9, <1>10 DEF Work

\* A worker whose attempts have failed gives its key back, whatever else goes on, as
\* long as the process does not die and no DEL is lost on its way to Redis.  Workers
\* that never learnt of their key -- a SETNX applied without a reply -- are not in it.
THEOREM FailuresFreeTheKey ==
    ASSUME "crash" \notin Environment, "lost" \notin DelOutcomes
    PROVE  Spec => FailedAttemptsFreeTheKey
<1> DEFINE Back == \A w \in Workers : Busy(w) /\ ~Busy(w)' =>
                      emails'[Payment(w)] > 0 \/ ~idem'[Payment(w)] \/ ctxDone
<1>1. TypeOK /\ TypeOK' /\ HasPayment /\ PoolInv /\ [Next]_vars => [Back]_vars
  BY GiveBackStep
<1>2. Claims => TypeOK /\ HasPayment
  BY DEF Claims
<1> QED
  BY <1>1, <1>2, PoolInvariant, ClaimsInvariant, PTL DEF Spec, FailedAttemptsFreeTheKey

-----------------------------------------------------------------------------
(* Nothing is lost *)

Within(q) == {q[i] : i \in 1 .. Len(q)}
NoRepeat(q) == \A i, j \in 1 .. Len(q) : q[i] = q[j] => i = j

\* The head of a queue without repetitions is not in its tail.
LEMMA WithinTail ==
    ASSUME NEW q \in Seq(Messages), q # <<>>, NoRepeat(q)
    PROVE  /\ Head(q) \in Within(q) /\ NoRepeat(Tail(q))
           /\ Within(Tail(q)) = Within(q) \ {Head(q)}
<1>1. /\ Len(q) \in Nat /\ Len(q) > 0 /\ Len(Tail(q)) = Len(q) - 1 /\ Head(q) = q[1]
      /\ \A i \in 1 .. Len(Tail(q)) : Tail(q)[i] = q[i + 1]
  BY Shorter, HeadTailProperties
<1>2. \A i \in 1 .. Len(Tail(q)) : i + 1 \in 1 .. Len(q) /\ i + 1 # 1
  BY <1>1
<1>3. NoRepeat(Tail(q))
  BY <1>1, <1>2 DEF NoRepeat
<1>4. \A i \in 1 .. Len(q) : i # 1 => i - 1 \in 1 .. Len(Tail(q)) /\ Tail(q)[i - 1] = q[i]
  BY <1>1
<1>5. 1 \in 1 .. Len(q)
  BY <1>1
<1>6. Within(Tail(q)) \subseteq Within(q) \ {Head(q)}
  BY <1>1, <1>2, <1>5 DEF Within, NoRepeat
<1>7. Within(q) \ {Head(q)} \subseteq Within(Tail(q))
  BY <1>1, <1>4 DEF Within
<1> QED
  BY <1>1, <1>3, <1>5, <1>6, <1>7 DEF Within

\* A message that is new to a queue can be appended.
LEMMA WithinAppend ==
    ASSUME NEW q \in Seq(Messages), NEW m \in Messages, NoRepeat(q), m \notin Within(q)
    PROVE  NoRepeat(Append(q, m)) /\ Within(Append(q, m)) = Within(q) \cup {m}
<1> DEFINE r == Append(q, m)
<1>1. /\ Len(q) \in Nat /\ Len(r) = Len(q) + 1 /\ r[Len(q) + 1] = m
      /\ \A i \in 1 .. Len(q) : r[i] = q[i]
  BY AppendProperties, LenProperties
<1>2. \A i \in 1 .. Len(r) : i \in 1 .. Len(q) \/ i = Len(q) + 1
  BY <1>1
<1>3. 1 .. Len(q) \subseteq 1 .. Len(r) /\ Len(q) + 1 \in 1 .. Len(r)
  BY <1>1
<1> HIDE DEF r
<1>4. NoRepeat(r)
  BY <1>1, <1>2 DEF NoRepeat, Within
<1>5. Within(r) = Within(q) \cup {m}
  BY <1>1, <1>2, <1>3 DEF Within
<1> QED
  BY <1>4, <1>5 DEF r

InWork == {job[w] : w \in Loaded}

\* While the connection is up, a delivery is unacknowledged and in one place of the
\* process only: the client library, Run, the channel, or one worker.
Unique ==
    /\ NoRepeat(inbox) /\ NoRepeat(jobs)
    /\ \A v, w \in Loaded : job[v] = job[w] => v = w
    /\ Within(inbox) \cup HeldSet \cup Within(jobs) \cup InWork \subseteq Unacked
    /\ Within(inbox) \cap (HeldSet \cup Within(jobs) \cup InWork) = {}
    /\ HeldSet \cap (Within(jobs) \cup InWork) = {}
    /\ Within(jobs) \cap InWork = {}

\* Messages that are passed on stay in one place.
LEMMA UniqueStep ==
    ASSUME TypeOK, PoolInv, link => Unique, [Next]_vars, link'
    PROVE  Unique'
<1> USE Domains
<1>0. Within(<<>>) = {} /\ NoRepeat(<<>>)
  BY EmptySeq DEF Within, NoRepeat
<1>1. ASSUME NEW m \in Messages, Deliver(m) PROVE Unique'
  <2>1. Unique /\ m \notin Unacked /\ Unacked' = Unacked \cup {m}
    BY <1>1 DEF Deliver, Unacked
  <2>2. NoRepeat(inbox') /\ Within(inbox') = Within(inbox) \cup {m}
    BY <1>1, <2>1, WithinAppend DEF Deliver, Unique
  <2>3. UNCHANGED <<HeldSet, jobs, Loaded, job, InWork>>
    BY <1>1 DEF Deliver, HeldSet, Loaded, InWork
  <2> QED
    BY <2>1, <2>2, <2>3 DEF Unique
<1>2. CASE Receive
  <2>1. Unique /\ Unacked' = Unacked /\ UNCHANGED <<jobs, Loaded, job, InWork>>
    BY <1>2 DEF Receive, Unacked, Loaded, InWork
  <2>2. /\ NoRepeat(inbox') /\ Within(inbox') = Within(inbox) \ {Head(inbox)}
        /\ Head(inbox) \in Within(inbox)
    BY <1>2, <2>1, WithinTail DEF Receive, Unique
  <2>3. HeldSet' = {Head(inbox)}
    BY <1>2, Shorter, ConstantsAssumption DEF Receive, HeldSet
  <2> QED
    BY <2>1, <2>2, <2>3 DEF Unique
<1>3. CASE Enqueue
  <2>1. /\ Unique /\ held \in Messages /\ HeldSet = {held} /\ HeldSet' = {}
        /\ Unacked' = Unacked /\ UNCHANGED <<inbox, Loaded, job, InWork>>
    BY <1>3 DEF Enqueue, HeldSet, Unacked, Loaded, InWork
  <2>2. NoRepeat(jobs') /\ Within(jobs') = Within(jobs) \cup {held}
    BY <1>3, <2>1, WithinAppend DEF Enqueue, Unique
  <2> QED
    BY <2>1, <2>2 DEF Unique
<1>4. ASSUME NEW w \in Workers, TakeJob(w) PROVE Unique'
  <2>1. Unique /\ Unacked' = Unacked /\ UNCHANGED <<inbox, HeldSet>>
    BY <1>4 DEF TakeJob, Unacked, HeldSet
  <2>2. /\ NoRepeat(jobs') /\ Within(jobs') = Within(jobs) \ {Head(jobs)}
        /\ Head(jobs) \in Within(jobs) /\ Head(jobs) \in Messages
    BY <1>4, <2>1, WithinTail, Shorter DEF TakeJob, Unique
  <2>3. /\ w \notin Loaded /\ Loaded' = Loaded \cup {w} /\ job'[w] = Head(jobs)
        /\ \A v \in Loaded : job'[v] = job[v]
    BY <1>4, <2>2, ConstantsAssumption DEF TakeJob, Loaded, PoolInv
  <2>4. InWork' = InWork \cup {Head(jobs)}
    <3>1. InWork' \subseteq InWork \cup {Head(jobs)}
      BY <2>3 DEF InWork
    <3>2. InWork \cup {Head(jobs)} \subseteq InWork'
      BY <2>3 DEF InWork
    <3> QED
      BY <3>1, <3>2 DEF InWork
  <2>5. \A v \in Loaded : job[v] # Head(jobs)
    BY <2>1, <2>2 DEF Unique, InWork
  <2>6. \A u, v \in Loaded' : job'[u] = job'[v] => u = v
    BY <2>1, <2>3, <2>5 DEF Unique
  <2> QED
    BY <2>1, <2>2, <2>4, <2>6 DEF Unique
<1>5. ASSUME NEW w \in Workers, Settle(w) PROVE Unique'
  <2>1. Unique /\ w \in Loaded /\ UNCHANGED <<inbox, HeldSet, jobs>>
    BY <1>5 DEF Settle, HeldSet, PoolInv, Loaded
  <2>2. Loaded' = Loaded \ {w} /\ \A v \in Loaded' : job'[v] = job[v]
    BY <1>5 DEF Settle, Loaded
  <2>3. InWork' = InWork \ {job[w]} /\ job[w] \in InWork
    <3>1. \A v \in Loaded : v # w => job[v] # job[w]
      BY <2>1 DEF Unique
    <3>2. InWork' = {job[v] : v \in Loaded \ {w}}
      BY <2>2, Zenon DEF InWork
    <3>3. InWork' \subseteq InWork \ {job[w]}
      BY <3>1, <3>2 DEF InWork
    <3>4. InWork \ {job[w]} \subseteq InWork'
      BY <3>2 DEF InWork
    <3> QED
      BY <2>1, <3>3, <3>4 DEF InWork
  <2>4. Unacked' = Unacked \ {job[w]}
    BY <1>5, <2>1 DEF Settle, SettledAs, Unacked, Loaded
  <2>5. \A u, v \in Loaded' : job'[u] = job'[v] => u = v
    BY <2>1, <2>2 DEF Unique
  <2> QED
    BY <2>1, <2>3, <2>4, <2>5 DEF Unique
<1>6. CASE Restart
  <2>1. ~link /\ Loaded = {} /\ inbox = <<>> /\ jobs = <<>> /\ held = Nothing
    BY <1>6 DEF Restart, PoolInv, Alive
  <2>2. Loaded' = {} /\ inbox' = <<>> /\ jobs' = <<>> /\ held' = Nothing
    BY <1>6, <2>1 DEF Restart, Loaded
  <2>3. InWork' = {} /\ HeldSet' = {}
    BY <2>2 DEF InWork, HeldSet
  <2> QED
    BY <1>0, <2>2, <2>3 DEF Unique
<1>7. ~Finish /\ ~LoseConnection /\ ~Crash
  BY DEF Finish, LoseConnection, Crash
<1>8. CASE UNCHANGED <<where, inbox, held, jobs, job, link>>
  <2>1. Unique /\ UNCHANGED <<Unacked, HeldSet, Loaded, InWork, inbox, jobs, job>>
    BY <1>8 DEF Unacked, HeldSet, Loaded, InWork
  <2> QED
    BY <2>1 DEF Unique
<1>9. \/ \E m \in Messages : Deliver(m)
      \/ Receive \/ Enqueue \/ Restart
      \/ \E w \in Workers : TakeJob(w) \/ Settle(w)
      \/ UNCHANGED <<where, inbox, held, jobs, job, link>>
  BY <1>7 DEF Next, Dispatch, Drain, Work, ExitWorker, Acquire, Send, Sleep, Release, Stop, vars
<1> QED
  BY <1>1, <1>2, <1>3, <1>4, <1>5, <1>6, <1>8, <1>9

\* A worker has decided how to settle its delivery exactly when it is about to.
Judged == \A w \in Workers : verdict[w] # "none" <=> pc[w] = "settle"

LEMMA JudgedStep ==
    ASSUME TypeOK, PoolInv, Judged, [Next]_vars
    PROVE  Judged'
<1> USE Domains DEF Judged
<1>1. ASSUME NEW w \in Workers, TakeJob(w) PROVE Judged'
  <2>1. \/ pc' = [pc EXCEPT ![w] = "acquire"] /\ verdict' = verdict
        \/ pc' = [pc EXCEPT ![w] = "settle"] /\ verdict' = [verdict EXCEPT ![w] = "nack"]
    BY <1>1 DEF TakeJob, Conclude, Goto
  <2>2. pc[w] = "idle"
    BY <1>1 DEF TakeJob
  <2> QED
    BY <2>1, <2>2 DEF Steps
<1>2. ASSUME NEW w \in Workers, ExitWorker(w) \/ Sleep(w) PROVE Judged'
  BY <1>2 DEF ExitWorker, Sleep, Goto, Steps
<1>3. ASSUME NEW w \in Workers, Acquire(w) PROVE Judged'
  <2>1. SendAgain(w) \/ FirstAttempt(w) \/ Conclude(w, "ack") \/ Conclude(w, "nack")
    BY <1>3 DEF Acquire
  <2> QED
    BY <1>3, <2>1 DEF Acquire, SendAgain, FirstAttempt, Conclude, Goto, Steps
<1>4. ASSUME NEW w \in Workers, Send(w) PROVE Judged'
  <2>1. Conclude(w, "ack") \/ (AttemptFailed(w) /\ UNCHANGED verdict)
    BY <1>4 DEF Send
  <2> QED
    BY <1>4, <2>1 DEF Send, AttemptFailed, Conclude, Goto, Steps
<1>5. ASSUME NEW w \in Workers, Release(w) PROVE Judged'
  BY <1>5 DEF Release, SendAgain, Conclude, Goto, Steps
<1>6. ASSUME NEW w \in Workers, Settle(w) PROVE Judged'
  BY <1>6 DEF Settle, Goto, Steps
<1>7. CASE Crash
  BY <1>7 DEF Crash
<1>8. CASE Restart
  BY <1>8 DEF Restart, PoolInv, Loaded
<1>9. CASE UNCHANGED <<pc, verdict>>
  BY <1>9
<1>10. \/ UNCHANGED <<pc, verdict>> \/ Crash \/ Restart
       \/ \E w \in Workers : Work(w)
  BY DEF Next, Dispatch, Deliver, Receive, Enqueue, Drain, Finish, Stop, LoseConnection, vars
<1> QED
  BY <1>1, <1>2, <1>3, <1>4, <1>5, <1>6, <1>7, <1>8, <1>9, <1>10 DEF Work

-----------------------------------------------------------------------------

Has(w, p) == job[w] # Nothing /\ Payment(w) = p

\* A worker that is at work on a payment, or is about to dead-letter an event of it.
Minds(w, p) == Has(w, p) /\ (AtWork(w) \/ verdict[w] = "nack")

\* What keeps a payment from being forgotten.
Reason(p) ==
    \/ \E m \in Messages : PaymentOf[m] = p /\ where[m] = "dlq"
    \/ \E w \in Workers : Minds(w, p)

\* What hides a payment from the workers to come: its key, or an event of it that
\* is acknowledged or about to be.
Taken(p) ==
    \/ idem[p]
    \/ \E w \in Workers : Has(w, p) /\ verdict[w] = "ack"
    \/ \E m \in Messages : PaymentOf[m] = p /\ where[m] = "acked"

Remembered == \A p \in Payments : Taken(p) => emails[p] # 0 \/ Reason(p)

\* A process that may only be stopped, whose SETNX is never sent twice, and whose
\* policy has an attempt to make.
NoCrash ==
    /\ "crash" \notin Environment /\ "connection" \notin Environment
    /\ "again" \notin SetOutcomes
    /\ MaxAttempts # 0

\* The connection lasts as long as the process.
Linked == link <=> Alive

Safe == TypeOK /\ PoolInv /\ HasPayment /\ Linked /\ (link => Unique) /\ Judged

\* Steps that hide no payment and take no reason away.
LEMMA Undisturbed ==
    ASSUME Remembered,
           \A p \in Payments : idem'[p] => idem[p],
           \A p \in Payments : emails[p] # 0 => emails'[p] # 0,
           \A m \in Messages : where[m] = "dlq" => where'[m] = "dlq",
           \A m \in Messages : where'[m] = "acked" => where[m] = "acked",
           \A w \in Workers, p \in Payments : Minds(w, p) => Minds(w, p)',
           \A w \in Workers, p \in Payments :
               (Has(w, p) /\ verdict[w] = "ack")' => Has(w, p) /\ verdict[w] = "ack"
    PROVE  Remembered'
BY DEF Remembered, Taken, Reason

\* What a step of w leaves alone: the others' jobs.
LEMMA OthersKeep ==
    ASSUME NEW w \in Workers,
           \A v \in Workers \ {w} : pc'[v] = pc[v] /\ job'[v] = job[v] /\ verdict'[v] = verdict[v]
    PROVE  \A v \in Workers \ {w}, p \in Payments :
               /\ Minds(v, p)' <=> Minds(v, p)
               /\ (Has(v, p) /\ verdict[v] = "ack")' <=> Has(v, p) /\ verdict[v] = "ack"
BY DEF Minds, Has, Payment, AtWork

\* SETNX hides a payment only from workers that come after one that has it.
LEMMA AcquireRemembers ==
    ASSUME NoCrash, Safe, Remembered, NEW w \in Workers, Acquire(w)
    PROVE  Remembered'
<1> USE Domains
<1>1. /\ TypeOK /\ pc[w] = "acquire" /\ Payment(w) \in Payments /\ verdict[w] = "none"
      /\ job[w] # Nothing /\ UNCHANGED <<job, emails, where>>
  BY DEF Safe, Acquire, HasPayment, PoolInv, Judged
<1>0. PICK p \in Payments : Payment(w) = p
  BY <1>1
<1>2. PICK outcome \in Redis(SetOutcomes) :
        /\ idem' = IF outcome = "lost" THEN idem ELSE [idem EXCEPT ![p] = TRUE]
        /\ \/ outcome = "again"
           \/ outcome = "ok" /\ ~idem[p] /\ FirstAttempt(w)
           \/ outcome = "ok" /\ idem[p] /\ Conclude(w, "ack")
           \/ outcome \in {"lost", "late"} /\ Conclude(w, "nack")
  BY <1>0 DEF Acquire
<1>3. outcome # "again"
  BY DEF NoCrash, Redis
<1>4. \A v \in Workers \ {w} : pc'[v] = pc[v] /\ job'[v] = job[v] /\ verdict'[v] = verdict[v]
  BY <1>1, <1>2, <1>3 DEF FirstAttempt, Conclude, Goto
<1>5. \A q \in Payments : Reason(q) => Reason(q)'
  <2> SUFFICES ASSUME NEW q \in Payments, Reason(q) PROVE Reason(q)'
    OBVIOUS
  <2>1. CASE \E m \in Messages : PaymentOf[m] = q /\ where[m] = "dlq"
    BY <1>1, <2>1 DEF Reason
  <2>2. CASE \E v \in Workers : Minds(v, q)
    <3>1. PICK v \in Workers : Minds(v, q)
      BY <2>2
    <3>2. v # w
      BY <1>1, <3>1 DEF Minds, AtWork
    <3> QED
      BY <1>4, <3>1, <3>2, OthersKeep DEF Reason
  <2> QED
    BY <2>1, <2>2 DEF Reason
<1>6. CASE (outcome = "ok" /\ ~idem[p]) \/ outcome \in {"lost", "late"}
  <2>1. (pc'[w] = "send" \/ verdict'[w] = "nack") /\ verdict'[w] # "ack"
    BY <1>1, <1>2, <1>6 DEF FirstAttempt, Conclude, Goto, NoCrash
  <2>2. Minds(w, p)'
    BY <1>0, <1>1, <2>1 DEF Minds, Has, AtWork, Payment
  <2>3. \A q \in Payments : q # p => ~Has(w, q)'
    BY <1>0, <1>1 DEF Has, Payment
  <2>4. \A q \in Payments : q # p => (idem'[q] <=> idem[q])
    BY <1>1, <1>2
  <2>5. \A q \in Payments : q # p => (Taken(q)' => Taken(q))
    <3> SUFFICES ASSUME NEW q \in Payments, q # p, Taken(q)' PROVE Taken(q)
      OBVIOUS
    <3>1. CASE idem'[q]
      BY <2>4, <3>1 DEF Taken
    <3>2. CASE \E v \in Workers : (Has(v, q) /\ verdict[v] = "ack")'
      BY <1>4, <2>3, <3>2, OthersKeep DEF Taken
    <3>3. CASE \E m \in Messages : PaymentOf[m] = q /\ where'[m] = "acked"
      BY <1>1, <3>3 DEF Taken
    <3> QED
      BY <3>1, <3>2, <3>3 DEF Taken
  <2>6. Reason(p)'
    BY <2>2 DEF Reason
  <2> QED
    BY <1>1, <1>5, <2>5, <2>6 DEF Remembered
<1>7. CASE outcome = "ok" /\ idem[p]
  <2>1. idem' = idem
    BY <1>1, <1>2, <1>7
  <2>2. \A q \in Payments : q # p => ~Has(w, q)'
    BY <1>0, <1>1 DEF Has, Payment
  <2>3. \A q \in Payments : Taken(q)' => Taken(q)
    <3> SUFFICES ASSUME NEW q \in Payments, q # p, Taken(q)' PROVE Taken(q)
      BY <1>7 DEF Taken
    <3>1. CASE idem'[q] \/ \E m \in Messages : PaymentOf[m] = q /\ where'[m] = "acked"
      BY <1>1, <2>1, <3>1 DEF Taken
    <3>2. CASE \E v \in Workers : (Has(v, q) /\ verdict[v] = "ack")'
      BY <1>4, <2>2, <3>2, OthersKeep DEF Taken
    <3> QED
      BY <3>1, <3>2 DEF Taken
  <2> QED
    BY <1>1, <1>5, <2>3 DEF Remembered
<1> QED
  BY <1>2, <1>3, <1>6, <1>7

\* An attempt that is acknowledged has sent the e-mail.
LEMMA SendRemembers ==
    ASSUME NoCrash, Safe, Remembered, NEW w \in Workers, Send(w)
    PROVE  Remembered'
<1> USE Domains
<1>1. /\ TypeOK /\ pc[w] = "send" /\ Payment(w) \in Payments /\ verdict[w] = "none"
      /\ job[w] # Nothing /\ UNCHANGED <<job, idem, where>>
  BY DEF Safe, Send, HasPayment, PoolInv, Judged, AtWork
<1> DEFINE p == Payment(w)
<1>2. PICK outcome \in Sender :
        /\ emails' = IF outcome = "fail" THEN emails
                     ELSE [emails EXCEPT ![p] = IF @ < Many THEN @ + 1 ELSE @]
        /\ IF outcome = "ok" THEN Conclude(w, "ack") ELSE AttemptFailed(w) /\ UNCHANGED verdict
  BY DEF Send
<1>3. \A q \in Payments : emails[q] \in Nat
  BY <1>1, EmailsCount
<1>4. \A q \in Payments : emails[q] # 0 => emails'[q] # 0
  BY <1>1, <1>2, <1>3 DEF Many
<1>5. \A v \in Workers \ {w} : pc'[v] = pc[v] /\ job'[v] = job[v] /\ verdict'[v] = verdict[v]
  BY <1>1, <1>2 DEF AttemptFailed, Conclude, Goto
<1>6. \A q \in Payments : q # p => ~Has(w, q) /\ ~Has(w, q)'
  BY <1>1 DEF Has, Payment
<1>7. CASE outcome = "ok"
  <2>1. emails'[p] # 0
    BY <1>1, <1>2, <1>3, <1>7 DEF Many
  <2>2. \A q \in Payments : q # p => (Taken(q)' => Taken(q)) /\ (Reason(q) => Reason(q)')
    BY <1>1, <1>5, <1>6, OthersKeep DEF Taken, Reason, Minds
  <2> QED
    BY <1>1, <1>4, <2>1, <2>2 DEF Remembered
<1>8. CASE outcome # "ok"
  <2>1. pc'[w] \in {"release", "sleep"} /\ verdict' = verdict
    BY <1>1, <1>2, <1>8 DEF AttemptFailed, Goto
  <2>2. \A q \in Payments : Minds(w, q) => Minds(w, q)'
    BY <1>1, <2>1 DEF Minds, Has, Payment, AtWork
  <2>3. \A q \in Payments : (Has(w, q) /\ verdict[w] = "ack")' => FALSE
    BY <1>1, <2>1
  <2>4. \A v \in Workers, q \in Payments :
           /\ Minds(v, q) => Minds(v, q)'
           /\ (Has(v, q) /\ verdict[v] = "ack")' => Has(v, q) /\ verdict[v] = "ack"
    <3> SUFFICES ASSUME NEW v \in Workers, NEW q \in Payments
                 PROVE  /\ Minds(v, q) => Minds(v, q)'
                        /\ (Has(v, q) /\ verdict[v] = "ack")' => Has(v, q) /\ verdict[v] = "ack"
      OBVIOUS
    <3>1. CASE v = w
      BY <2>2, <2>3, <3>1
    <3>2. CASE v # w
      BY <1>5, <3>2, OthersKeep
    <3> QED
      BY <3>1, <3>2
  <2> QED
    BY <1>1, <1>4, <2>4, Undisturbed
<1> QED
  BY <1>7, <1>8

\* A delivery that is settled leaves its payment as well known as before: the event
\* is in the DLQ, or it is acknowledged like the payment it was about.
LEMMA SettleRemembers ==
    ASSUME NoCrash, Safe, Remembered, NEW w \in Workers, Settle(w)
    PROVE  Remembered'
<1> USE Domains
<1>1. /\ TypeOK /\ pc[w] = "settle" /\ job[w] \in Messages /\ w \in Loaded
      /\ verdict[w] \in {"ack", "nack"} /\ UNCHANGED <<idem, emails>>
  BY DEF Safe, Settle, PoolInv, Judged, Loaded
<1>2. link /\ where[job[w]] = "unacked"
  BY <1>1 DEF Safe, Linked, PoolInv, Unique, InWork, Unacked
<1>3. \A v \in Workers \ {w} : pc'[v] = pc[v] /\ job'[v] = job[v] /\ verdict'[v] = verdict[v]
  BY <1>1 DEF Settle, Goto
<1>4. \A q \in Payments : ~Has(w, q)' /\ ~Minds(w, q)'
  BY <1>1 DEF Settle, Has, Minds
<1>5. /\ where'[job[w]] = IF verdict[w] = "ack" THEN "acked" ELSE "dlq"
      /\ \A m \in Messages : m # job[w] => where'[m] = where[m]
  BY <1>1, <1>2 DEF Settle, SettledAs
<1>6. \A q \in Payments : Taken(q)' => Taken(q)
  <2> SUFFICES ASSUME NEW q \in Payments, Taken(q)' PROVE Taken(q)
    OBVIOUS
  <2>1. CASE idem'[q]
    BY <1>1, <2>1 DEF Taken
  <2>2. CASE \E v \in Workers : (Has(v, q) /\ verdict[v] = "ack")'
    BY <1>3, <1>4, <2>2, OthersKeep DEF Taken
  <2>3. CASE \E m \in Messages : PaymentOf[m] = q /\ where'[m] = "acked"
    BY <1>1, <1>5, <2>3 DEF Taken, Has, Payment, Loaded
  <2> QED
    BY <2>1, <2>2, <2>3 DEF Taken
<1>7. \A q \in Payments : Reason(q) => Reason(q)'
  <2> SUFFICES ASSUME NEW q \in Payments, Reason(q) PROVE Reason(q)'
    OBVIOUS
  <2>1. CASE \E m \in Messages : PaymentOf[m] = q /\ where[m] = "dlq"
    BY <1>2, <1>5, <2>1 DEF Reason
  <2>2. CASE Minds(w, q)
    <3>1. PaymentOf[job[w]] = q /\ verdict[w] = "nack"
      BY <1>1, <2>2 DEF Minds, Has, AtWork, Payment
    <3> QED
      BY <1>1, <1>5, <3>1 DEF Reason
  <2>3. CASE \E v \in Workers \ {w} : Minds(v, q)
    BY <1>3, <2>3, OthersKeep DEF Reason
  <2> QED
    BY <2>1, <2>2, <2>3 DEF Reason
<1> QED
  BY <1>1, <1>6, <1>7 DEF Remembered

\* No step forgets a payment.
LEMMA RememberedStep ==
    ASSUME NoCrash, Safe, Remembered, [Next]_vars
    PROVE  Remembered'
<1> USE Domains
<1>0. TypeOK
  BY DEF Safe
<1>1. CASE UNCHANGED <<pc, job, verdict, idem, emails>>
           /\ \A m \in Messages : {where[m], where'[m]} \subseteq {"ready", "unacked"}
                                  \/ where'[m] = where[m]
  BY <1>1, Undisturbed DEF Minds, Has, Payment, AtWork
<1>2. ASSUME NEW m \in Messages, Deliver(m) PROVE Remembered'
  BY <1>0, <1>1, <1>2 DEF Deliver
<1>3. CASE Dispatch \/ Stop \/ UNCHANGED vars
  BY <1>1, <1>3 DEF Dispatch, Receive, Enqueue, Drain, Stop, vars
<1>4. CASE Finish
  BY <1>0, <1>1, <1>4 DEF Finish, Requeued
<1>5. ASSUME NEW w \in Workers, TakeJob(w) PROVE Remembered'
  <2>1. /\ pc[w] = "idle" /\ verdict[w] = "none" /\ job[w] = Nothing
        /\ UNCHANGED <<where, idem, emails>>
    BY <1>0, <1>5 DEF TakeJob, Safe, Judged, PoolInv
  <2>2. \A v \in Workers \ {w} : pc'[v] = pc[v] /\ job'[v] = job[v] /\ verdict'[v] = verdict[v]
    BY <1>0, <1>5 DEF TakeJob, Conclude, Goto
  <2>3. verdict'[w] \in {"none", "nack"}
    BY <1>0, <1>5, <2>1 DEF TakeJob, Conclude, Goto
  <2>4. \A p \in Payments : ~Minds(w, p) /\ ~(Has(w, p) /\ verdict[w] = "ack")'
    BY <2>1, <2>3 DEF Minds, Has
  <2> QED
    BY <2>1, <2>2, <2>4, OthersKeep, Undisturbed
<1>6. ASSUME NEW w \in Workers, ExitWorker(w) \/ Sleep(w) PROVE Remembered'
  <2>1. UNCHANGED <<job, verdict, where, idem, emails>>
    BY <1>6 DEF ExitWorker, Sleep
  <2>2. \A v \in Workers : AtWork(v) => AtWork(v)'
    BY <1>0, <1>6 DEF ExitWorker, Sleep, Goto, AtWork
  <2> QED
    BY <2>1, <2>2, Undisturbed DEF Minds, Has, Payment
<1>7. ASSUME NEW w \in Workers, Release(w) PROVE Remembered'
  <2>0. verdict[w] = "none" /\ (SendAgain(w) \/ Conclude(w, "nack"))
    BY <1>0, <1>7 DEF Release, Safe, Judged
  <2>1. /\ UNCHANGED <<job, where, emails>>
        /\ \/ verdict'[w] = "nack"
           \/ verdict'[w] = "none" /\ pc'[w] = pc[w]
        /\ \A v \in Workers \ {w} : pc'[v] = pc[v] /\ job'[v] = job[v] /\ verdict'[v] = verdict[v]
    BY <1>0, <1>7, <2>0 DEF Release, SendAgain, Conclude, Goto
  <2>2. \A p \in Payments : idem'[p] => idem[p]
    BY <1>0, <1>7 DEF Release
  <2>3. \A p \in Payments : (Minds(w, p) => Minds(w, p)')
                            /\ ~(Has(w, p) /\ verdict[w] = "ack")'
    BY <2>0, <2>1 DEF Minds, Has, Payment, AtWork
  <2> QED
    BY <2>1, <2>2, <2>3, OthersKeep, Undisturbed
<1>8. CASE Restart
  <2>1. \A w \in Workers : job[w] = Nothing /\ job'[w] = Nothing
    BY <1>8 DEF Restart, Safe, PoolInv, Loaded
  <2>2. UNCHANGED <<verdict, where, idem, emails>>
    BY <1>8 DEF Restart
  <2> QED
    BY <2>1, <2>2, Undisturbed DEF Minds, Has
<1>9. ~Crash /\ ~LoseConnection
  BY DEF NoCrash, Crash, LoseConnection
<1> QED
  BY <1>2, <1>3, <1>4, <1>5, <1>6, <1>7, <1>8, <1>9,
     AcquireRemembers, SendRemembers, SettleRemembers DEF Next, Work

\* Without crashes and lost connections, the connection is there until the process ends.
LEMMA LinkedStep ==
    ASSUME NoCrash, PoolInv, Linked, [Next]_vars
    PROVE  Linked'
<1>1. CASE UNCHANGED <<link, service>> \/ Drain \/ Finish \/ Restart
  BY <1>1 DEF Linked, Alive, Drain, Finish, Restart
<1>2. \/ UNCHANGED <<link, service>> \/ Drain \/ Finish \/ Restart
  BY DEF NoCrash, Next, Dispatch, Deliver, Receive, Enqueue, Work, TakeJob, ExitWorker, Acquire,
     Send, Sleep, Release, Settle, Stop, LoseConnection, Crash, vars
<1> QED
  BY <1>1, <1>2

\* Where a payment is taken there is an e-mail or a reason, and what is in the DLQ
\* or with a worker has not left the queue for good.
LEMMA RememberedIsNotLost ==
    ASSUME Safe, Remembered
    PROVE  NothingIsLost
<1> USE Domains
<1> SUFFICES ASSUME NEW p \in Payments, Taken(p) PROVE emails[p] > 0 \/ Pending(p)
  BY DEF NothingIsLost, Taken
<1>1. CASE emails[p] # 0
  <2>1. emails[p] \in Nat
    BY EmailsCount DEF Safe
  <2> QED
    BY <1>1, <2>1
<1>2. CASE \E m \in Messages : PaymentOf[m] = p /\ where[m] = "dlq"
  BY <1>2 DEF Pending
<1>3. ASSUME NEW w \in Workers, Minds(w, p) PROVE Pending(p)
  <2>1. w \in Loaded /\ job[w] \in Messages /\ PaymentOf[job[w]] = p
    BY <1>3 DEF Minds, Has, Payment, Loaded, Safe
  <2>2. where[job[w]] = "unacked"
    BY <2>1 DEF Safe, Linked, PoolInv, Unique, InWork, Unacked
  <2> QED
    BY <2>1, <2>2 DEF Pending
<1> QED
  BY <1>1, <1>2, <1>3 DEF Remembered, Reason

\* As long as the process may only be stopped (and started again), no SETNX is sent
\* twice, and the policy has an attempt to make, an event that has left the queue was
\* worth an e-mail, or is in the DLQ, or another event of its payment is still in work:
\* for any number of duplicates, whatever commands Redis loses and e-mails fail.
THEOREM NoEventIsLost ==
    ASSUME NoCrash
    PROVE  Spec => []NothingIsLost
<1> DEFINE IInv == Linked /\ (link => Unique) /\ Judged /\ Remembered
           Known == TypeOK /\ PoolInv /\ HasPayment
<1>1. Spec => []Known
  <2>1. Claims => TypeOK /\ HasPayment
    BY DEF Claims
  <2> QED
    BY <2>1, ClaimsInvariant, PoolInvariant, PTL
<1>2. Init => IInv
  <2> SUFFICES ASSUME Init PROVE IInv
    OBVIOUS
  <2>1. Linked /\ Judged
    BY DEF Init, Linked, Alive, Judged
  <2>2. Unique
    <3>1. Within(<<>>) = {} /\ NoRepeat(<<>>)
      BY EmptySeq DEF Within, NoRepeat
    <3>2. Loaded = {} /\ HeldSet = {} /\ InWork = {}
      BY DEF Init, Loaded, HeldSet, InWork
    <3> QED
      BY <3>1, <3>2 DEF Init, Unique
  <2>3. \A p \in Payments : ~Taken(p)
    BY DEF Init, Taken, Has
  <2> QED
    BY <2>1, <2>2, <2>3 DEF Remembered
<1>3. Known /\ IInv /\ [Next]_vars => IInv'
  <2> SUFFICES ASSUME Known, IInv, [Next]_vars PROVE IInv'
    OBVIOUS
  <2>1. Linked' /\ Judged'
    BY LinkedStep, JudgedStep
  <2>2. link' => Unique'
    BY UniqueStep
  <2>3. Remembered'
    BY RememberedStep DEF Safe
  <2> QED
    BY <2>1, <2>2, <2>3
<1>4. Known /\ IInv => NothingIsLost
  BY RememberedIsNotLost DEF Safe
<1> QED
  BY <1>1, <1>2, <1>3, <1>4, PTL DEF Spec

=============================================================================
