----------------------------- MODULE RateLimiter -----------------------------
(***************************************************************************)
(* The rate limiter in front of the order service's HTTP handlers          *)
(* (middleware/rate_limiter.go): fixed windows of a minute, one Redis       *)
(* counter for each identity and window, INCR and EXPIRE as two commands,  *)
(* and requests that pass when Redis does not answer.                      *)
(*                                                                         *)
(* Time goes in ticks, of which Window make a minute.  One request runs    *)
(* through the middleware for much less than a tick -- its commands share  *)
(* a context of 200 ms, after which none is sent, and the last one sent    *)
(* has the socket's timeouts, seconds each -- so it may see one tick begin *)
(* and not two.                                                            *)
(***************************************************************************)
EXTENDS Integers, FiniteSets

CONSTANTS
    Requests,
    Identities,      \* values of X-User-Id or of the client's address
    Limit,           \* requestsPerMinute
    Window,          \* ticks in a minute
    Horizon,         \* bound on the clock
    MaxRetries,      \* of the Redis client: it sends a command so often again; 3 by default
    RedisOutcomes,   \* how a Redis command may end
    Environment      \* whether "crash" may happen

(***************************************************************************)
(* What a try of a command may end in: "ok", "lost" (not applied, error),  *)
(* "late" (applied, error) and "again": applied, its connection broke, and *)
(* go-redis, whose MaxRetries redis.go leaves at its default, sends the    *)
(* command again.  (A try that was not applied and is sent again leaves no *)
(* trace.)                                                                 *)
(***************************************************************************)
ASSUME ConstantsAssumption ==
    /\ IsFiniteSet(Requests)
    /\ Limit \in Nat
    /\ Window \in Nat \ {0}
    /\ Horizon \in Nat
    /\ MaxRetries \in Nat
    /\ RedisOutcomes \subseteq {"ok", "lost", "late", "again"}
    /\ Environment \subseteq {"crash"}

VARIABLES
    who,        \* who[r]: the identity of request r
    pc,         \* pc[r]: "idle", "incr", "expire", "done" or "dead"
    arrived,    \* arrived[r]: the tick in which r read the clock
    bucket,     \* bucket[r]: the window r counts in
    resent,     \* resent[r]: how often the command at hand was sent again
    count,      \* count[r]: what INCR answered
    verdict,    \* verdict[r]: "passed", "refused" (429), "open" (no answer of Redis) or "None"
    applied,    \* applied[r]: the tick of r's last INCR at the server, or -1
    hits,       \* the INCRs the server has applied: <<r, n>> is the n-th one r sent
    failed,     \* requests whose INCR had no answer at once, or whose EXPIRE was lost
    counter,    \* counter[i, b]: value of rl:<i>:<b>, 0 if there is none
    deadline,   \* deadline[i, b]: the tick in which it expires, or Never
    clock

request == <<who, pc, arrived, bucket, resent, count, verdict, applied, hits, failed>>
redis == <<counter, deadline>>
vars == <<request, redis, clock>>

None == "None"
Never == -1
Counters == Identities \X (0 .. Horizon)

TypeOK ==
    /\ who \in [Requests -> Identities]
    /\ pc \in [Requests -> {"idle", "incr", "expire", "done", "dead"}]
    /\ arrived \in [Requests -> 0 .. Horizon]
    /\ bucket \in [Requests -> 0 .. Horizon \div Window]
    /\ resent \in [Requests -> 0 .. MaxRetries]
    /\ count \in [Requests -> Nat]
    /\ verdict \in [Requests -> {None, "passed", "refused", "open"}]
    /\ applied \in [Requests -> -1 .. Horizon]
    /\ hits \in SUBSET (Requests \X (1 .. MaxRetries + 1))
    /\ failed \in SUBSET Requests
    /\ counter \in [Counters -> Nat]
    /\ deadline \in [Counters -> {Never} \cup Nat]
    /\ clock \in 0 .. Horizon

Init ==
    /\ who \in [Requests -> Identities]
    /\ pc = [r \in Requests |-> "idle"]
    /\ arrived = [r \in Requests |-> 0]
    /\ bucket = [r \in Requests |-> 0]
    /\ resent = [r \in Requests |-> 0]
    /\ count = [r \in Requests |-> 0]
    /\ verdict = [r \in Requests |-> None]
    /\ applied = [r \in Requests |-> -1]
    /\ hits = {}
    /\ failed = {}
    /\ counter = [k \in Counters |-> 0]
    /\ deadline = [k \in Counters |-> Never]
    /\ clock = 0

-----------------------------------------------------------------------------
(* The middleware *)

Active(r) == pc[r] \in {"incr", "expire"}
Goto(r, step) == pc' = [pc EXCEPT ![r] = step]
Decide(r, v) == Goto(r, "done") /\ verdict' = [verdict EXCEPT ![r] = v]
Key(r) == <<who[r], bucket[r]>>

\* Mutant: the key without its minute.
OneBucket(t) == 0

Bucket(t) == t \div Window

\* The key is made from the time of arrival, before the command is sent.
Arrive(r) ==
    /\ pc[r] = "idle"
    /\ arrived' = [arrived EXCEPT ![r] = clock]
    /\ bucket' = [bucket EXCEPT ![r] = Bucket(clock)]
    /\ Goto(r, "incr")
    /\ UNCHANGED <<who, resent, count, verdict, applied, hits, failed, redis, clock>>

OverLimit(n) == n > Limit

Judge(r, n) == Decide(r, IF OverLimit(n) THEN "refused" ELSE "passed")

\* The command is sent again, from the same control point.
SendAgain(r) ==
    /\ resent[r] < MaxRetries
    /\ resent' = [resent EXCEPT ![r] = @ + 1]
    /\ UNCHANGED <<pc, verdict>>

\* A try of INCR, which makes the key if there is none, without a deadline.  An
\* error lets the request pass; the first of a window goes on to EXPIRE, the others
\* are judged.
Incr(r) ==
    /\ pc[r] = "incr"
    /\ \E outcome \in RedisOutcomes :
        LET n == counter[Key(r)] + 1 IN
        /\ IF outcome = "lost"
             THEN UNCHANGED <<counter, applied, hits>>
             ELSE /\ counter' = [counter EXCEPT ![Key(r)] = n]
                  /\ applied' = [applied EXCEPT ![r] = clock]
                  /\ hits' = hits \cup {<<r, resent[r] + 1>>}
        /\ failed' = IF outcome = "ok" THEN failed ELSE failed \cup {r}
        /\ count' = IF outcome = "ok" THEN [count EXCEPT ![r] = n] ELSE count
        /\ \/ outcome = "again" /\ SendAgain(r)
           \/ /\ outcome \in {"lost", "late"}
              /\ Decide(r, "open") /\ UNCHANGED resent
           \/ /\ outcome = "ok" /\ n = 1
              /\ Goto(r, "expire") /\ resent' = [resent EXCEPT ![r] = 0] /\ UNCHANGED verdict
           \/ /\ outcome = "ok" /\ n # 1
              /\ Judge(r, n) /\ UNCHANGED resent
    /\ UNCHANGED <<who, arrived, bucket, deadline, clock>>

\* Mutant: half a minute.
HalfWindow == Window \div 2

\* time.Minute
TimeToLive == Window

\* Mutant: the request is judged and EXPIRE left for later.
ExpireForgotten(r) ==
    /\ pc[r] = "expire"
    /\ Judge(r, count[r])
    /\ UNCHANGED <<who, arrived, bucket, resent, count, applied, hits, failed, redis, clock>>

\* A try of EXPIRE, whose result is ignored.  It finds no key if that has gone
\* meanwhile.
Expire(r) ==
    /\ pc[r] = "expire"
    /\ \E outcome \in RedisOutcomes :
        /\ deadline' = IF outcome # "lost" /\ counter[Key(r)] > 0
                         THEN [deadline EXCEPT ![Key(r)] = clock + TimeToLive]
                         ELSE deadline
        /\ failed' = IF outcome = "lost" THEN failed \cup {r} ELSE failed
        /\ IF outcome = "again" THEN SendAgain(r)
                               ELSE Judge(r, count[r]) /\ UNCHANGED resent
    /\ UNCHANGED <<who, arrived, bucket, count, applied, hits, counter, clock>>

-----------------------------------------------------------------------------
(* Redis, time and the process *)

\* A key goes some time in the tick of its deadline.
KeyExpires(k) ==
    /\ deadline[k] # Never /\ deadline[k] <= clock
    /\ counter' = [counter EXCEPT ![k] = 0]
    /\ deadline' = [deadline EXCEPT ![k] = Never]
    /\ UNCHANGED <<request, clock>>

Tick ==
    /\ clock < Horizon
    /\ \A r \in Requests : Active(r) => arrived[r] = clock
    /\ \A k \in Counters : deadline[k] # Never => deadline[k] > clock
    /\ clock' = clock + 1
    /\ UNCHANGED <<request, redis>>

Crash ==
    /\ "crash" \in Environment
    /\ \E r \in Requests : Active(r)
    /\ pc' = [r \in Requests |-> IF Active(r) THEN "dead" ELSE pc[r]]
    /\ UNCHANGED <<who, arrived, bucket, resent, count, verdict, applied, hits, failed, redis, clock>>

-----------------------------------------------------------------------------

Next ==
    \/ \E r \in Requests : Arrive(r) \/ Incr(r) \/ Expire(r)
    \/ \E k \in Counters : KeyExpires(k)
    \/ Tick
    \/ Crash

Spec == Init /\ [][Next]_vars

-----------------------------------------------------------------------------
(* Properties *)

\* The requests of an identity in a minute, and those of them that INCR reached
\* before the minute was over.
Minute(t) == t \div Window
Asked(i, w) == {r \in Requests : who[r] = i /\ pc[r] # "idle" /\ Minute(arrived[r]) = w}
Counted(i, w) == {r \in Asked(i, w) : applied[r] >= 0 /\ Minute(applied[r]) = w}

\* No more than Limit of the requests Redis answered pass in one minute: the
\* counter outlives it, however late EXPIRE is sent.  (Of the requests counted in
\* time: one that arrives as a minute ends and is counted after it may find the
\* counter expired, and passes as the first of a new one.)
LimitPerWindow ==
    \A i \in Identities, w \in 0 .. Horizon :
        Cardinality({r \in Counted(i, w) : verdict[r] = "passed"}) <= Limit

\* Nobody is refused for the requests of others or of another minute: the server has
\* applied more than Limit INCRs of one's own.  They need not be as many requests:
\* an INCR that go-redis sends again counts each time it arrives.
RefusedForOwnRequests ==
    \A r \in Requests : verdict[r] = "refused" =>
        Cardinality({h \in hits : h[1] \in Asked(who[r], Minute(arrived[r]))}) > Limit

\* Counters do not pile up in Redis: one without a deadline is about to get it, or
\* an INCR of one of its requests had no answer at its first try -- the answer to
\* the next is not 1, and nobody sends EXPIRE -- or its EXPIRE was lost, or the
\* process died over it.
CountersExpire ==
    \A k \in Counters : counter[k] > 0 /\ deadline[k] = Never =>
        \E r \in Requests : Key(r) = k /\ (pc[r] \in {"expire", "dead"} \/ r \in failed)

=============================================================================
