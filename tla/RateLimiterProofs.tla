-------------------------- MODULE RateLimiterProofs --------------------------
(***************************************************************************)
(* Proofs about RateLimiter for every limit, length of the window, number  *)
(* of requests and identities, number of retries, and mixture of failing   *)
(* and repeated Redis commands.                                            *)
(***************************************************************************)
EXTENDS RateLimiter, FiniteSetTheorems, TLAPS

USE DEF request, redis, None, Never

-----------------------------------------------------------------------------
(* Minutes *)

\* What the quotient of a tick by the length of the window is.
LEMMA Quotient ==
    ASSUME NEW t \in Nat
    PROVE  /\ Minute(t) \in Nat
           /\ Window * Minute(t) <= t /\ t < Window * Minute(t) + Window
BY ConstantsAssumption DEF Minute

\* Time does not go back to an earlier minute.
LEMMA MinutesPass ==
    ASSUME NEW s \in Nat, NEW t \in Nat, s <= t
    PROVE  Minute(s) <= Minute(t)
<1> DEFINE a == Minute(s)
           b == Minute(t)
<1>1. a \in Nat /\ b \in Nat /\ Window * a <= s /\ t < Window * b + Window
  BY Quotient
<1>2. SUFFICES ASSUME a >= b + 1 PROVE FALSE
  BY <1>1
<1>3. Window * a >= Window * (b + 1)
  BY <1>1, <1>2, ConstantsAssumption
<1>4. Window * (b + 1) = Window * b + Window
  BY <1>1, ConstantsAssumption
<1> QED
  BY <1>1, <1>3, <1>4, ConstantsAssumption

\* A window later it is another minute.
LEMMA MinuteLater ==
    ASSUME NEW t \in Nat
    PROVE  Minute(t) < Minute(t + Window)
<1> DEFINE a == Minute(t)
           b == Minute(t + Window)
<1>1. /\ a \in Nat /\ b \in Nat /\ Window * a <= t
      /\ t + Window < Window * b + Window
  BY Quotient, ConstantsAssumption
<1>2. SUFFICES ASSUME b <= a PROVE FALSE
  BY <1>1
<1>3. Window * b <= Window * a
  BY <1>1, <1>2, ConstantsAssumption
<1> QED
  BY <1>1, <1>3, ConstantsAssumption

\* The minutes up to the horizon have their counters.
LEMMA MinuteRange ==
    ASSUME NEW t \in 0 .. Horizon
    PROVE  Minute(t) \in 0 .. Horizon \div Window /\ Minute(t) \in 0 .. Horizon
<1>1. t \in Nat /\ t <= Horizon /\ Minute(t) \in Nat /\ Minute(Horizon) = Horizon \div Window
  BY ConstantsAssumption, Quotient DEF Minute
<1>2. Minute(t) <= Minute(Horizon)
  BY <1>1, MinutesPass, ConstantsAssumption
<1>3. Window * Minute(t) >= Minute(t)
  BY <1>1, ConstantsAssumption
<1>4. Minute(t) <= t
  BY <1>1, <1>3, Quotient, ConstantsAssumption
<1> QED
  BY <1>1, <1>2, <1>4, ConstantsAssumption

-----------------------------------------------------------------------------
(* Types *)

PcValues == {"idle", "incr", "expire", "done", "dead"}
Verdicts == {"None", "passed", "refused", "open"}

LEMMA Domains ==
    ASSUME TypeOK
    PROVE  /\ who \in [Requests -> Identities]
           /\ pc \in [Requests -> PcValues]
           /\ arrived \in [Requests -> 0 .. Horizon]
           /\ bucket \in [Requests -> 0 .. Horizon \div Window]
           /\ resent \in [Requests -> 0 .. MaxRetries]
           /\ count \in [Requests -> Nat]
           /\ hits \in SUBSET (Requests \X (1 .. MaxRetries + 1))
           /\ verdict \in [Requests -> Verdicts]
           /\ applied \in [Requests -> -1 .. Horizon]
           /\ counter \in [Counters -> Nat]
           /\ deadline \in [Counters -> {-1} \cup Nat]
           /\ clock \in 0 .. Horizon
BY DEF TypeOK, PcValues, Verdicts

\* Every request has a counter to count in.
LEMMA KeyInCounters ==
    ASSUME TypeOK, NEW r \in Requests
    PROVE  Key(r) \in Counters
<1>1. Minute(Horizon) \in 0 .. Horizon
  BY MinuteRange, ConstantsAssumption
<1>2. bucket[r] \in 0 .. Horizon /\ who[r] \in Identities
  BY <1>1, Domains, ConstantsAssumption DEF Minute
<1> QED
  BY <1>2 DEF Key, Counters

\* The tries of INCR, with what each outcome does to its counter.
LEMMA IncrCases ==
    ASSUME TypeOK, NEW r \in Requests, Incr(r)
    PROVE  \E outcome \in RedisOutcomes, n \in Nat :
             /\ n = counter[Key(r)] + 1
             /\ \/ outcome = "lost" /\ UNCHANGED <<counter, applied, hits>>
                \/ /\ outcome # "lost"
                   /\ counter' = [counter EXCEPT ![Key(r)] = n]
                   /\ applied' = [applied EXCEPT ![r] = clock]
                   /\ hits' = hits \cup {<<r, resent[r] + 1>>}
             /\ failed' = IF outcome = "ok" THEN failed ELSE failed \cup {r}
             /\ count' = IF outcome = "ok" THEN [count EXCEPT ![r] = n] ELSE count
             /\ \/ outcome = "again" /\ SendAgain(r)
                \/ outcome \in {"lost", "late"} /\ Decide(r, "open") /\ resent' = resent
                \/ /\ outcome = "ok" /\ n = 1 /\ Goto(r, "expire") /\ verdict' = verdict
                   /\ resent' = [resent EXCEPT ![r] = 0]
                \/ outcome = "ok" /\ n # 1 /\ Judge(r, n) /\ resent' = resent
<1>1. counter[Key(r)] + 1 \in Nat
  BY KeyInCounters, Domains
<1> QED
  BY <1>1 DEF Incr

LEMMA TypeStep ==
    ASSUME TypeOK, [Next]_vars
    PROVE  TypeOK'
<1> USE Domains, ConstantsAssumption
<1>1. ASSUME NEW r \in Requests, Arrive(r) PROVE TypeOK'
  <2>1. Minute(clock) \in 0 .. Horizon \div Window
    BY MinuteRange
  <2>2. arrived' \in [Requests -> 0 .. Horizon] /\ bucket' \in [Requests -> 0 .. Horizon \div Window]
    BY <1>1, <2>1 DEF Arrive, Bucket, Minute
  <2> QED
    BY <1>1, <2>2 DEF TypeOK, Arrive, Goto
<1>2. ASSUME NEW r \in Requests, Incr(r) PROVE TypeOK'
  <2>1. PICK outcome \in RedisOutcomes, n \in Nat :
             /\ \/ UNCHANGED <<counter, applied, hits>>
                \/ /\ counter' = [counter EXCEPT ![Key(r)] = n]
                   /\ applied' = [applied EXCEPT ![r] = clock]
                   /\ hits' = hits \cup {<<r, resent[r] + 1>>}
             /\ failed' = IF outcome = "ok" THEN failed ELSE failed \cup {r}
             /\ count' = IF outcome = "ok" THEN [count EXCEPT ![r] = n] ELSE count
             /\ \/ SendAgain(r)
                \/ Decide(r, "open") /\ resent' = resent
                \/ Goto(r, "expire") /\ verdict' = verdict /\ resent' = [resent EXCEPT ![r] = 0]
                \/ Judge(r, n) /\ resent' = resent
    BY <1>2, IncrCases
  <2>2. counter' \in [Counters -> Nat] /\ count' \in [Requests -> Nat]
    BY <2>1
  <2>3. applied' \in [Requests -> -1 .. Horizon]
    BY <2>1
  <2>4. pc' \in [Requests -> PcValues] /\ verdict' \in [Requests -> Verdicts]
    BY <2>1 DEF SendAgain, Judge, Decide, Goto, PcValues, Verdicts
  <2>5. failed' \in SUBSET Requests
    BY <2>1 DEF TypeOK
  <2>6. resent' \in [Requests -> 0 .. MaxRetries]
    BY <2>1 DEF SendAgain
  <2>7. hits' \in SUBSET (Requests \X (1 .. MaxRetries + 1))
    <3>1. resent[r] + 1 \in 1 .. MaxRetries + 1
      OBVIOUS
    <3> QED
      BY <2>1, <3>1
  <2> QED
    BY <1>2, <2>2, <2>3, <2>4, <2>5, <2>6, <2>7 DEF TypeOK, Incr, PcValues, Verdicts
<1>3. ASSUME NEW r \in Requests, Expire(r) PROVE TypeOK'
  <2>1. clock + TimeToLive \in Nat
    BY DEF TimeToLive
  <2>2. deadline' \in [Counters -> {-1} \cup Nat]
    BY <1>3, <2>1 DEF Expire
  <2>3. failed' \in SUBSET Requests
    BY <1>3 DEF TypeOK, Expire
  <2>4. pc' \in [Requests -> PcValues] /\ verdict' \in [Requests -> Verdicts]
    BY <1>3 DEF Expire, SendAgain, Judge, Decide, Goto, PcValues, Verdicts
  <2>5. resent' \in [Requests -> 0 .. MaxRetries]
    BY <1>3 DEF Expire, SendAgain
  <2> QED
    BY <1>3, <2>2, <2>3, <2>4, <2>5 DEF TypeOK, Expire, PcValues, Verdicts
<1>4. ASSUME NEW k \in Counters, KeyExpires(k) PROVE TypeOK'
  <2>1. counter' \in [Counters -> Nat] /\ deadline' \in [Counters -> {-1} \cup Nat]
    BY <1>4 DEF KeyExpires
  <2> QED
    BY <1>4, <2>1 DEF TypeOK, KeyExpires
<1>5. CASE Tick
  <2>1. clock' \in 0 .. Horizon
    BY <1>5 DEF Tick
  <2> QED
    BY <1>5, <2>1 DEF TypeOK, Tick
<1>6. CASE Crash
  BY <1>6 DEF TypeOK, Crash
<1>7. CASE UNCHANGED vars
  BY <1>7 DEF TypeOK, vars
<1> QED
  BY <1>1, <1>2, <1>3, <1>4, <1>5, <1>6, <1>7 DEF Next

LEMMA TypeInit == Init => TypeOK
<1>1. 0 \in 0 .. Horizon
  BY ConstantsAssumption
<1>2. Minute(Horizon) \in Nat
  BY Quotient, ConstantsAssumption
<1>3. 0 \in 0 .. Horizon \div Window /\ -1 \in -1 .. Horizon
  BY <1>2, ConstantsAssumption DEF Minute
<1> QED
  BY <1>1, <1>3, ConstantsAssumption DEF Init, TypeOK

\* Types, for every horizon: in particular every request counts in one of the
\* counters there are.
THEOREM TypeInvariant == Spec => []TypeOK
BY TypeInit, TypeStep, PTL DEF Spec

-----------------------------------------------------------------------------
(* Requests and deadlines *)

RequestState(r) ==
    /\ pc[r] = "idle" => applied[r] = -1 /\ r \notin failed
    /\ pc[r] \in {"idle", "incr"} => count[r] = 0 /\ verdict[r] = None
    /\ \A m : <<r, m>> \in hits => pc[r] # "idle" /\ (pc[r] = "incr" => m <= resent[r])
    /\ pc[r] # "idle" => arrived[r] <= clock /\ bucket[r] = Minute(arrived[r])
    /\ applied[r] <= clock
    /\ pc[r] = "expire" => count[r] = 1
    /\ verdict[r] = "passed" => count[r] \in 1 .. Limit
    /\ verdict[r] = "refused" => count[r] > Limit

\* A counter expires after its minute.
DeadlineState ==
    \A i \in Identities, b \in 0 .. Horizon :
        deadline[<<i, b>>] # -1 => b < Minute(deadline[<<i, b>>])

RequestsState == \A r \in Requests : RequestState(r)

\* What a request holds, at its control points and after its verdict.
LEMMA RequestStep ==
    ASSUME TypeOK, RequestsState, [Next]_vars
    PROVE  RequestsState'
<1> USE Domains, ConstantsAssumption
<1> SUFFICES ASSUME NEW q \in Requests PROVE RequestState(q)'
  BY DEF RequestsState
<1>0. RequestState(q)
  BY DEF RequestsState
<1>1. ASSUME NEW r \in Requests, Arrive(r) PROVE RequestState(q)'
  BY <1>0, <1>1 DEF Arrive, Goto, Bucket, Minute, RequestState
<1>2. ASSUME NEW r \in Requests, Incr(r) PROVE RequestState(q)'
  <2>0. UNCHANGED <<arrived, bucket, clock>> /\ pc[r] = "incr"
    BY <1>2 DEF Incr
  <2>1. PICK outcome \in RedisOutcomes, n \in Nat :
             /\ n = counter[Key(r)] + 1
             /\ \/ UNCHANGED <<applied, hits>>
                \/ /\ applied' = [applied EXCEPT ![r] = clock]
                   /\ hits' = hits \cup {<<r, resent[r] + 1>>}
             /\ failed' = IF outcome = "ok" THEN failed ELSE failed \cup {r}
             /\ count' = IF outcome = "ok" THEN [count EXCEPT ![r] = n] ELSE count
             /\ \/ outcome = "again" /\ SendAgain(r)
                \/ outcome \in {"lost", "late"} /\ Decide(r, "open") /\ resent' = resent
                \/ /\ outcome = "ok" /\ n = 1 /\ Goto(r, "expire") /\ verdict' = verdict
                   /\ resent' = [resent EXCEPT ![r] = 0]
                \/ outcome = "ok" /\ n # 1 /\ Judge(r, n) /\ resent' = resent
    BY <1>2, IncrCases
  <2>2. CASE q # r
    <3>1. /\ pc'[q] = pc[q] /\ count'[q] = count[q] /\ verdict'[q] = verdict[q]
          /\ applied'[q] = applied[q] /\ resent'[q] = resent[q]
          /\ (q \in failed') = (q \in failed)
      BY <2>1, <2>2 DEF SendAgain, Judge, Decide, Goto
    <3>2. \A m : <<q, m>> \in hits' <=> <<q, m>> \in hits
      BY <2>1, <2>2
    <3> QED
      BY <1>0, <2>0, <3>1, <3>2 DEF RequestState, Minute
  <2>3. CASE q = r
    <3>1. applied'[r] <= clock
      BY <1>0, <2>1, <2>3 DEF RequestState
    <3>2. /\ pc'[r] \in {"incr", "expire", "done"}
          /\ pc'[r] = "incr" => outcome = "again" /\ resent'[r] = resent[r] + 1
                                 /\ count' = count /\ verdict' = verdict
          /\ pc'[r] = "expire" => count'[r] = 1
          /\ verdict'[r] = "passed" => count'[r] \in 1 .. Limit
          /\ verdict'[r] = "refused" => count'[r] > Limit
      <4>1. CASE outcome = "again" /\ SendAgain(r)
        BY <1>0, <2>0, <2>1, <2>3, <4>1 DEF SendAgain, RequestState
      <4>2. CASE outcome \in {"lost", "late"} /\ Decide(r, "open")
        BY <4>2 DEF Decide, Goto
      <4>3. CASE outcome = "ok" /\ n = 1 /\ Goto(r, "expire") /\ verdict' = verdict
        BY <1>0, <2>0, <2>1, <2>3, <4>3 DEF RequestState, Goto
      <4>4. CASE outcome = "ok" /\ Judge(r, n)
        <5>1. n >= 1
          BY <2>1, KeyInCounters
        <5> QED
          BY <2>1, <4>4, <5>1 DEF Judge, OverLimit, Decide, Goto
      <4> QED
        BY <2>1, <4>1, <4>2, <4>3, <4>4
    <3>3. \A m : <<r, m>> \in hits' => <<r, m>> \in hits \/ m = resent[r] + 1
      BY <2>1
    <3>4. \A m : <<r, m>> \in hits => m <= resent[r] /\ m \in Nat
      BY <1>0, <2>0, <2>3 DEF RequestState
    <3>5. \A m : <<r, m>> \in hits' => pc'[r] # "idle" /\ (pc'[r] = "incr" => m <= resent'[r])
      BY <3>2, <3>3, <3>4
    <3>6. pc'[r] \in {"idle", "incr"} => count'[r] = 0 /\ verdict'[r] = "None"
      BY <1>0, <2>0, <2>3, <3>2 DEF RequestState
    <3> QED
      BY <1>0, <2>0, <2>3, <3>1, <3>2, <3>5, <3>6 DEF RequestState, Minute
  <2> QED
    BY <2>2, <2>3
<1>3. ASSUME NEW r \in Requests, Expire(r) PROVE RequestState(q)'
  <2>1. UNCHANGED <<arrived, bucket, applied, count, hits, clock>> /\ pc[r] = "expire"
    BY <1>3 DEF Expire
  <2>2. \/ UNCHANGED <<pc, verdict>>
        \/ /\ pc' = [pc EXCEPT ![r] = "done"]
           /\ verdict' = [verdict EXCEPT ![r] = IF count[r] > Limit THEN "refused" ELSE "passed"]
    BY <1>3 DEF Expire, SendAgain, Judge, OverLimit, Decide, Goto
  <2>3. q # r => (q \in failed') = (q \in failed) /\ resent'[q] = resent[q]
    BY <1>3 DEF Expire, SendAgain
  <2>4. CASE q # r
    BY <1>0, <2>1, <2>2, <2>3, <2>4 DEF RequestState, Minute
  <2>5. CASE q = r
    BY <1>0, <2>1, <2>2, <2>5 DEF RequestState, Minute
  <2> QED
    BY <2>4, <2>5
<1>4. ASSUME NEW k \in Counters, KeyExpires(k) PROVE RequestState(q)'
  BY <1>0, <1>4 DEF KeyExpires, RequestState, Minute
<1>5. CASE Tick
  BY <1>0, <1>5 DEF Tick, RequestState, Minute
<1>6. CASE Crash
  BY <1>0, <1>6 DEF Crash, Active, RequestState, Minute
<1>7. CASE UNCHANGED vars
  BY <1>0, <1>7 DEF vars, RequestState, Minute
<1> QED
  BY <1>1, <1>2, <1>3, <1>4, <1>5, <1>6, <1>7 DEF Next

LEMMA DeadlineStep ==
    ASSUME TypeOK, RequestsState, DeadlineState, [Next]_vars
    PROVE  DeadlineState'
<1> USE Domains, ConstantsAssumption
<1>1. ASSUME NEW r \in Requests, Expire(r) PROVE DeadlineState'
  <2>1. pc[r] = "expire" /\ RequestState(r)
    BY <1>1 DEF Expire, RequestsState
  <2>2. bucket[r] <= Minute(clock) /\ bucket[r] \in Nat
    BY <2>1, MinutesPass, Quotient DEF RequestState
  <2>3. Minute(clock) \in Nat /\ Minute(clock) < Minute(clock + Window) /\ Minute(clock + Window) \in Nat
    BY MinuteLater, Quotient
  <2>4. bucket[r] < Minute(clock + Window)
    BY <2>2, <2>3
  <2>5. deadline' = deadline \/ deadline' = [deadline EXCEPT ![Key(r)] = clock + Window]
    BY <1>1 DEF Expire, TimeToLive
  <2>6. ASSUME NEW i \in Identities, NEW b \in 0 .. Horizon, deadline'[<<i, b>>] # -1
        PROVE  b < Minute(deadline'[<<i, b>>])
    <3>1. <<i, b>> \in Counters
      BY DEF Counters
    <3>2. CASE deadline'[<<i, b>>] = deadline[<<i, b>>]
      BY <2>6, <3>2 DEF DeadlineState
    <3>3. CASE deadline'[<<i, b>>] # deadline[<<i, b>>]
      <4>1. Key(r) = <<i, b>> /\ deadline'[<<i, b>>] = clock + Window
        BY <2>5, <3>1, <3>3
      <4> QED
        BY <2>4, <4>1 DEF Key
    <3> QED
      BY <3>2, <3>3
  <2> QED
    BY <2>6 DEF DeadlineState, Minute
<1>2. ASSUME NEW k \in Counters, KeyExpires(k) PROVE DeadlineState'
  <2>1. \A j \in Counters : deadline'[j] # -1 => deadline'[j] = deadline[j]
    BY <1>2 DEF KeyExpires
  <2> QED
    BY <2>1 DEF DeadlineState, Counters, Minute
<1>3. ASSUME deadline' = deadline PROVE DeadlineState'
  BY <1>3 DEF DeadlineState, Minute
<1>4. (\E r \in Requests : Expire(r)) \/ (\E k \in Counters : KeyExpires(k)) \/ deadline' = deadline
  BY DEF Next, Arrive, Incr, Tick, Crash, vars
<1> QED
  BY <1>1, <1>2, <1>3, <1>4

-----------------------------------------------------------------------------
(* Counters that stay *)

\* A counter without a deadline waits for it, or a command of its requests failed.
LEMMA ExpireStep ==
    ASSUME TypeOK, RequestsState, CountersExpire, [Next]_vars
    PROVE  CountersExpire'
<1> USE Domains, ConstantsAssumption
<1> DEFINE Excuse(r) == pc[r] \in {"expire", "dead"} \/ r \in failed
<1> SUFFICES ASSUME NEW k \in Counters, counter'[k] > 0, deadline'[k] = -1
             PROVE  \E q \in Requests : Key(q)' = k /\ Excuse(q)'
  BY DEF CountersExpire
<1>1. ASSUME counter[k] > 0, deadline[k] = -1,
             \A q \in Requests : Excuse(q) => Excuse(q)' /\ Key(q)' = Key(q)
      PROVE  \E q \in Requests : Key(q)' = k /\ Excuse(q)'
  BY <1>1 DEF CountersExpire
<1>2. ASSUME NEW r \in Requests, Arrive(r) PROVE \E q \in Requests : Key(q)' = k /\ Excuse(q)'
  <2>1. pc[r] = "idle" /\ r \notin failed /\ UNCHANGED <<counter, deadline, failed, who>>
    BY <1>2 DEF Arrive, RequestsState, RequestState
  <2>2. \A q \in Requests : Excuse(q) => Excuse(q)' /\ Key(q)' = Key(q)
    BY <1>2, <2>1 DEF Arrive, Goto, Key
  <2> QED
    BY <1>1, <2>1, <2>2
<1>3. ASSUME NEW r \in Requests, Incr(r) PROVE \E q \in Requests : Key(q)' = k /\ Excuse(q)'
  <2>1. PICK outcome \in RedisOutcomes, n \in Nat :
             /\ n = counter[Key(r)] + 1
             /\ counter' \in {counter, [counter EXCEPT ![Key(r)] = n]}
             /\ failed' = IF outcome = "ok" THEN failed ELSE failed \cup {r}
             /\ n = 1 /\ outcome = "ok" => Goto(r, "expire")
             /\ pc' = pc \/ Goto(r, "expire") \/ Goto(r, "done")
    <3>1. PICK outcome \in RedisOutcomes, n \in Nat :
             /\ n = counter[Key(r)] + 1
             /\ counter' \in {counter, [counter EXCEPT ![Key(r)] = n]}
             /\ failed' = IF outcome = "ok" THEN failed ELSE failed \cup {r}
             /\ \/ outcome = "again" /\ SendAgain(r)
                \/ outcome \in {"lost", "late"} /\ Decide(r, "open")
                \/ outcome = "ok" /\ n = 1 /\ Goto(r, "expire")
                \/ outcome = "ok" /\ n # 1 /\ Judge(r, n)
      BY <1>3, IncrCases
    <3> QED
      BY <3>1 DEF SendAgain, Decide, Judge
  <2>2. pc[r] = "incr" /\ UNCHANGED <<who, bucket, deadline>> /\ deadline[k] = -1
    BY <1>3 DEF Incr
  <2>3. \A q \in Requests : Key(q)' = Key(q)
    BY <2>2 DEF Key
  <2>4. \A q \in Requests : Excuse(q) => Excuse(q)'
    BY <2>1, <2>2 DEF Goto
  <2>5. CASE counter[k] > 0
    BY <1>1, <2>2, <2>3, <2>4, <2>5
  <2>6. CASE ~(counter[k] > 0)
    <3>1. k = Key(r) /\ counter[k] = 0 /\ counter'[k] = n
      BY <2>1, <2>6
    <3>2. n = 1
      BY <2>1, <3>1
    <3>4. Excuse(r)'
      BY <2>1, <3>2 DEF Goto
    <3> QED
      BY <2>3, <3>1, <3>4
  <2> QED
    BY <2>5, <2>6
<1>4. ASSUME NEW r \in Requests, Expire(r) PROVE \E q \in Requests : Key(q)' = k /\ Excuse(q)'
  <2>1. /\ pc[r] = "expire" /\ pc' \in {pc, [pc EXCEPT ![r] = "done"]}
        /\ UNCHANGED <<who, bucket, counter>>
    BY <1>4 DEF Expire, SendAgain, Judge, Decide, Goto
  <2>2. PICK outcome \in RedisOutcomes :
        /\ deadline' = IF outcome # "lost" /\ counter[Key(r)] > 0
                         THEN [deadline EXCEPT ![Key(r)] = clock + TimeToLive]
                         ELSE deadline
        /\ failed' = IF outcome = "lost" THEN failed \cup {r} ELSE failed
    BY <1>4 DEF Expire
  <2>3. clock + TimeToLive # -1
    BY DEF TimeToLive
  <2>4. deadline[k] = -1 /\ counter[k] > 0
    BY <2>1, <2>2, <2>3
  <2>5. PICK q \in Requests : Key(q) = k /\ Excuse(q)
    BY <2>4 DEF CountersExpire
  <2>6. Key(q)' = k
    BY <2>1, <2>5 DEF Key
  <2>7. q = r => outcome = "lost"
    BY <2>1, <2>2, <2>3, <2>4, <2>5
  <2>8. Excuse(q)'
    BY <2>1, <2>2, <2>5, <2>7
  <2> QED
    BY <2>6, <2>8
<1>5. ASSUME NEW j \in Counters, KeyExpires(j) PROVE \E q \in Requests : Key(q)' = k /\ Excuse(q)'
  <2>1. j # k /\ counter[k] > 0 /\ deadline[k] = -1
    BY <1>5 DEF KeyExpires
  <2>2. \A q \in Requests : Excuse(q) => Excuse(q)' /\ Key(q)' = Key(q)
    BY <1>5 DEF KeyExpires, Key
  <2> QED
    BY <1>1, <2>1, <2>2
<1>6. CASE Tick \/ UNCHANGED vars
  <2>1. UNCHANGED <<counter, deadline, pc, failed, who, bucket>>
    BY <1>6 DEF Tick, vars
  <2> QED
    BY <1>1, <2>1 DEF Key
<1>7. CASE Crash
  <2>1. UNCHANGED <<counter, deadline, failed, who, bucket>>
    BY <1>7 DEF Crash
  <2>2. \A q \in Requests : Excuse(q) => Excuse(q)' /\ Key(q)' = Key(q)
    BY <1>7, <2>1 DEF Crash, Active, Key
  <2> QED
    BY <1>1, <2>1, <2>2
<1> QED
  BY <1>2, <1>3, <1>4, <1>5, <1>6, <1>7 DEF Next

-----------------------------------------------------------------------------
(* Who is refused *)

\* The INCRs that have counted in a counter.
Own(i, b) == {h \in hits : who[h[1]] = i /\ bucket[h[1]] = b}
Weight(i, b) == Cardinality(Own(i, b))

\* No counter shows more than its requests account for, nor has shown it to one.
CountState ==
    /\ \A i \in Identities, b \in 0 .. Horizon : counter[<<i, b>>] <= Weight(i, b)
    /\ \A r \in Requests, i \in Identities, b \in 0 .. Horizon :
            pc[r] # "idle" /\ Key(r) = <<i, b>> => count[r] <= Weight(i, b)

\* Sets of requests are finite, and grow with their members.
LEMMA Subsets ==
    ASSUME NEW S \in SUBSET Requests, NEW T \in SUBSET S
    PROVE  /\ IsFiniteSet(S) /\ IsFiniteSet(T)
           /\ Cardinality(S) \in Nat /\ Cardinality(T) \in Nat
           /\ Cardinality(T) <= Cardinality(S)
BY ConstantsAssumption, FS_Subset, FS_CardinalityType

\* So are sets of the INCRs they can send.
LEMMA HitsFinite ==
    ASSUME NEW S \in SUBSET (Requests \X (1 .. MaxRetries + 1))
    PROVE  IsFiniteSet(S) /\ Cardinality(S) \in Nat
<1>1. 1 \in Int /\ MaxRetries + 1 \in Int
  BY ConstantsAssumption
<1>2. IsFiniteSet(1 .. MaxRetries + 1)
  BY <1>1, FS_Interval
<1>3. IsFiniteSet(Requests \X (1 .. MaxRetries + 1))
  BY <1>2, ConstantsAssumption, FS_Product
<1> QED
  BY <1>3, FS_Subset, FS_CardinalityType

LEMMA WeightType ==
    ASSUME TypeOK, TypeOK', NEW i, NEW b
    PROVE  /\ IsFiniteSet(Own(i, b)) /\ IsFiniteSet(Own(i, b)')
           /\ Weight(i, b) \in Nat /\ Weight(i, b)' \in Nat
<1>1. Own(i, b) \in SUBSET (Requests \X (1 .. MaxRetries + 1))
  BY DEF Own, TypeOK
<1>2. Own(i, b)' \in SUBSET (Requests \X (1 .. MaxRetries + 1))
  BY DEF Own, TypeOK
<1> QED
  BY <1>1, <1>2, HitsFinite DEF Weight

\* Nothing that was counted is forgotten.
LEMMA WeightGrows ==
    ASSUME TypeOK, TypeOK', NEW i, NEW b, Own(i, b) \subseteq Own(i, b)'
    PROVE  Weight(i, b) <= Weight(i, b)'
BY WeightType, FS_Subset DEF Weight

\* Every step but INCR leaves what has been counted alone; no counter grows, no
\* request is told a number.
LEMMA OtherStep ==
    ASSUME TypeOK, RequestsState, [Next]_vars, \A r \in Requests : ~Incr(r)
    PROVE  /\ \A i, b : Own(i, b)' = Own(i, b)
           /\ applied' = applied /\ count' = count
           /\ \A k \in Counters : counter'[k] <= counter[k]
           /\ \A r \in Requests : pc[r] # "idle" =>
                pc'[r] # "idle" /\ arrived'[r] = arrived[r] /\ bucket'[r] = bucket[r]
           /\ who' = who
           /\ \A r \in Requests : pc[r] = "idle" /\ pc'[r] # "idle" => count[r] = 0
<1> USE Domains, ConstantsAssumption
<1>1. ASSUME NEW r \in Requests, Arrive(r)
      PROVE  /\ \A q \in Requests \ {r} :
                    pc'[q] = pc[q] /\ arrived'[q] = arrived[q] /\ bucket'[q] = bucket[q]
             /\ pc[r] = "idle" /\ count[r] = 0
             /\ UNCHANGED <<who, applied, count, hits, counter>>
  BY <1>1 DEF Arrive, Goto, RequestsState, RequestState
<1>2. ASSUME NEW r \in Requests, Expire(r)
      PROVE  /\ pc[r] = "expire" /\ pc' \in {pc, [pc EXCEPT ![r] = "done"]}
             /\ UNCHANGED <<who, arrived, bucket, applied, count, hits, counter>>
  BY <1>2 DEF Expire, SendAgain, Judge, Decide, Goto
<1>3. ASSUME NEW k \in Counters, KeyExpires(k)
      PROVE  /\ UNCHANGED <<who, pc, arrived, bucket, applied, count, hits>>
             /\ \A j \in Counters : counter'[j] <= counter[j]
  BY <1>3 DEF KeyExpires
<1>4. CASE Tick \/ Crash \/ UNCHANGED vars
  <2>1. /\ \A q \in Requests : (pc[q] = "idle") = (pc'[q] = "idle")
        /\ UNCHANGED <<who, arrived, bucket, applied, count, hits, counter>>
    BY <1>4 DEF Tick, Crash, Active, vars
  <2> QED
    BY <2>1 DEF Own
<1>5. ASSUME NEW r \in Requests, Arrive(r)
      PROVE  \A i, b : Own(i, b)' = Own(i, b)
  <2>1. \A h \in hits : h[1] \in Requests /\ h = <<h[1], h[2]>>
    OBVIOUS
  <2>2. \A h \in hits : h[1] # r
    BY <1>1, <1>5, <2>1 DEF RequestsState, RequestState
  <2> QED
    BY <1>1, <1>5, <2>1, <2>2 DEF Own
<1>6. ASSUME UNCHANGED <<who, bucket, hits>>
      PROVE  \A i, b : Own(i, b)' = Own(i, b)
  BY <1>6 DEF Own
<1>7. \A i, b : Own(i, b)' = Own(i, b)
  BY <1>2, <1>3, <1>4, <1>5, <1>6 DEF Next, Tick, Crash, vars
<1>8. \/ \E r \in Requests : Arrive(r) \/ Expire(r)
      \/ \E k \in Counters : KeyExpires(k)
      \/ Tick \/ Crash \/ UNCHANGED vars
  BY DEF Next
<1> QED
  BY <1>1, <1>2, <1>3, <1>4, <1>7, <1>8

\* An INCR that the server applies counts, and counts once.
LEMMA IncrWeight ==
    ASSUME TypeOK, TypeOK', RequestsState, NEW r \in Requests, pc[r] = "incr",
           UNCHANGED <<who, bucket>>, hits' = hits \cup {<<r, resent[r] + 1>>},
           NEW i \in Identities, NEW b \in 0 .. Horizon
    PROVE  /\ Weight(i, b) <= Weight(i, b)'
           /\ Key(r) = <<i, b>> => Weight(i, b)' = Weight(i, b) + 1
<1> USE Domains, ConstantsAssumption
<1> DEFINE x == <<r, resent[r] + 1>>
<1>1. Own(i, b) \subseteq Own(i, b)'
  BY DEF Own
<1>2. x \notin hits
  BY DEF RequestsState, RequestState
<1>3. ASSUME Key(r) = <<i, b>> PROVE Weight(i, b)' = Weight(i, b) + 1
  <2>1. who[r] = i /\ bucket[r] = b
    BY <1>3 DEF Key
  <2>2. Own(i, b)' = Own(i, b) \cup {x} /\ x \notin Own(i, b)
    BY <1>2, <2>1 DEF Own
  <2> QED
    BY <2>2, WeightType, FS_AddElement DEF Weight
<1> QED
  BY <1>1, <1>3, WeightGrows

LEMMA CountStep ==
    ASSUME TypeOK, RequestsState, CountState, TypeOK', [Next]_vars
    PROVE  CountState'
<1> USE Domains, ConstantsAssumption
<1>1. \A i \in Identities, b \in 0 .. Horizon : <<i, b>> \in Counters
  BY DEF Counters
<1>2. \A i, b : Weight(i, b) \in Nat /\ Weight(i, b)' \in Nat
  BY WeightType
<1>3. CASE \A r \in Requests : ~Incr(r)
  <2>1. \A i, b : Weight(i, b) <= Weight(i, b)'
    BY <1>3, OtherStep, WeightGrows
  <2>2. ASSUME NEW i \in Identities, NEW b \in 0 .. Horizon
        PROVE  counter'[<<i, b>>] <= Weight(i, b)'
    <3>1. counter[<<i, b>>] <= Weight(i, b) /\ counter[<<i, b>>] \in Nat
      BY <1>1 DEF CountState
    <3>2. counter'[<<i, b>>] <= counter[<<i, b>>] /\ counter'[<<i, b>>] \in Nat
      BY <1>1, <1>3, OtherStep DEF TypeOK
    <3> QED
      BY <1>2, <2>1, <3>1, <3>2
  <2>3. ASSUME NEW q \in Requests, NEW i \in Identities, NEW b \in 0 .. Horizon,
               pc'[q] # "idle", Key(q)' = <<i, b>>
        PROVE  count'[q] <= Weight(i, b)'
    <3>1. CASE pc[q] = "idle"
      <4>1. count'[q] = 0
        BY <1>3, <2>3, <3>1, OtherStep
      <4> QED
        BY <1>2, <4>1
    <3>2. CASE pc[q] # "idle"
      <4>1. count'[q] = count[q] /\ who'[q] = who[q] /\ bucket'[q] = bucket[q]
        BY <1>3, <3>2, OtherStep
      <4>2. count[q] <= Weight(i, b) /\ count[q] \in Nat
        BY <2>3, <3>2, <4>1 DEF CountState, Key
      <4> QED
        BY <1>2, <2>1, <4>1, <4>2
    <3> QED
      BY <3>1, <3>2
  <2> QED
    BY <2>2, <2>3 DEF CountState
<1>4. ASSUME NEW r \in Requests, Incr(r) PROVE CountState'
  <2>1. PICK outcome \in RedisOutcomes, n \in Nat :
             /\ n = counter[Key(r)] + 1
             /\ \/ outcome = "lost" /\ UNCHANGED <<counter, applied, hits>>
                \/ /\ outcome # "lost"
                   /\ counter' = [counter EXCEPT ![Key(r)] = n]
                   /\ applied' = [applied EXCEPT ![r] = clock]
                   /\ hits' = hits \cup {<<r, resent[r] + 1>>}
             /\ count' = IF outcome = "ok" THEN [count EXCEPT ![r] = n] ELSE count
    BY <1>4, IncrCases
  <2>3. Key(r) \in Counters
    BY KeyInCounters
  <2>5. UNCHANGED <<who, bucket>> /\ pc[r] = "incr" /\ \A q \in Requests \ {r} : pc'[q] = pc[q]
    BY <1>4 DEF Incr, SendAgain, Judge, Decide, Goto
  <2>2. \A i \in Identities, b \in 0 .. Horizon :
            /\ Weight(i, b) <= Weight(i, b)'
            /\ Key(r) = <<i, b>> /\ outcome # "lost" => Weight(i, b)' = Weight(i, b) + 1
    <3>1. CASE outcome # "lost"
      BY <2>1, <2>5, <3>1, IncrWeight
    <3>2. CASE outcome = "lost"
      <4>1. \A i, b : Own(i, b)' = Own(i, b)
        BY <2>1, <2>5, <3>2 DEF Own
      <4> QED
        BY <3>2, <4>1, WeightGrows
    <3> QED
      BY <3>1, <3>2
  <2>4. ASSUME NEW i \in Identities, NEW b \in 0 .. Horizon, Key(r) = <<i, b>>, outcome # "lost"
        PROVE  n <= Weight(i, b)'
    <3>1. counter[<<i, b>>] <= Weight(i, b) /\ counter[<<i, b>>] \in Nat
      BY <1>1 DEF CountState
    <3> QED
      BY <1>2, <2>1, <2>2, <2>4, <3>1
  <2>6. ASSUME NEW i \in Identities, NEW b \in 0 .. Horizon
        PROVE  counter'[<<i, b>>] <= Weight(i, b)'
    <3>1. counter[<<i, b>>] <= Weight(i, b) /\ counter[<<i, b>>] \in Nat
      BY <1>1 DEF CountState
    <3>2. CASE <<i, b>> = Key(r) /\ outcome # "lost"
      <4>1. counter'[<<i, b>>] = n
        BY <1>1, <2>1, <3>2
      <4> QED
        BY <2>4, <3>2, <4>1
    <3>3. CASE <<i, b>> # Key(r) \/ outcome = "lost"
      <4>1. counter'[<<i, b>>] = counter[<<i, b>>]
        BY <1>1, <2>1, <3>3
      <4> QED
        BY <1>2, <2>2, <3>1, <4>1
    <3> QED
      BY <3>2, <3>3
  <2>7. ASSUME NEW q \in Requests, NEW i \in Identities, NEW b \in 0 .. Horizon,
               pc'[q] # "idle", Key(q)' = <<i, b>>
        PROVE  count'[q] <= Weight(i, b)'
    <3>1. pc[q] # "idle" /\ Key(q) = <<i, b>>
      BY <2>5, <2>7 DEF Key
    <3>2. count[q] <= Weight(i, b) /\ count[q] \in Nat
      BY <3>1 DEF CountState
    <3>3. count[q] <= Weight(i, b)'
      BY <1>2, <2>2, <3>2
    <3>4. count'[q] = count[q] \/ (q = r /\ outcome # "lost" /\ count'[q] = n)
      BY <2>1
    <3> QED
      BY <2>4, <3>1, <3>3, <3>4
  <2> QED
    BY <2>6, <2>7 DEF CountState
<1> QED
  BY <1>3, <1>4

-----------------------------------------------------------------------------
(* Who passes *)

\* The requests told a number within the limit, of those counted in their minute.
Winners(i, w) == {r \in Counted(i, w) : count[r] \in 1 .. Limit}

\* They fit under the limit, and in the current minute the counter knows of them.
WindowState ==
    \A i \in Identities, w \in 0 .. Horizon :
        /\ Cardinality(Winners(i, w)) <= Limit
        /\ Minute(clock) = w => Cardinality(Winners(i, w)) <= counter[<<i, w>>]

LEMMA WinnersFinite ==
    ASSUME NEW i, NEW w
    PROVE  /\ IsFiniteSet(Winners(i, w)) /\ Cardinality(Winners(i, w)) \in Nat
           /\ Cardinality(Winners(i, w)') \in Nat
<1>1. Winners(i, w) \in SUBSET Requests /\ Winners(i, w)' \in SUBSET Requests
  BY DEF Winners, Counted, Asked
<1> QED
  BY <1>1, Subsets

\* A step that counts nobody leaves the winners alone: those who had not asked yet
\* have not been counted.
LEMMA WinnersStay ==
    ASSUME TypeOK, RequestsState, [Next]_vars, \A r \in Requests : ~Incr(r), NEW i, NEW w
    PROVE  Winners(i, w)' = Winners(i, w)
<1>1. /\ applied' = applied /\ count' = count /\ who' = who
      /\ \A r \in Requests : pc[r] # "idle" => pc'[r] # "idle" /\ arrived'[r] = arrived[r]
  BY OtherStep
<1>2. \A r \in Requests : pc[r] = "idle" => applied[r] = -1
  BY DEF RequestsState, RequestState
<1> QED
  BY <1>1, <1>2 DEF Winners, Counted, Asked, Minute

LEMMA WindowStep ==
    ASSUME TypeOK, RequestsState, DeadlineState, WindowState, TypeOK', [Next]_vars
    PROVE  WindowState'
<1> USE Domains, ConstantsAssumption
<1> SUFFICES ASSUME NEW i \in Identities, NEW w \in 0 .. Horizon
             PROVE  /\ Cardinality(Winners(i, w)') <= Limit
                    /\ Minute(clock)' = w => Cardinality(Winners(i, w)') <= counter'[<<i, w>>]
  BY DEF WindowState
<1>1. /\ <<i, w>> \in Counters
      /\ counter[<<i, w>>] \in Nat
      /\ Cardinality(Winners(i, w)) <= Limit
      /\ Minute(clock) = w => Cardinality(Winners(i, w)) <= counter[<<i, w>>]
  BY DEF Counters, WindowState
<1>2. ASSUME NEW r \in Requests, Incr(r)
      PROVE  /\ Cardinality(Winners(i, w)') <= Limit
             /\ Minute(clock)' = w => Cardinality(Winners(i, w)') <= counter'[<<i, w>>]
  <2>1. PICK outcome \in RedisOutcomes, n \in Nat :
             /\ n = counter[Key(r)] + 1
             /\ \/ outcome = "lost" /\ UNCHANGED <<counter, applied>>
                \/ /\ counter' = [counter EXCEPT ![Key(r)] = n]
                   /\ applied' = [applied EXCEPT ![r] = clock]
                   /\ outcome # "lost"
             /\ count' = IF outcome = "ok" THEN [count EXCEPT ![r] = n] ELSE count
    BY <1>2, IncrCases
  <2>2. /\ pc[r] = "incr" /\ UNCHANGED <<who, arrived, bucket, clock>>
        /\ count[r] = 0 /\ bucket[r] = Minute(arrived[r])
    BY <1>2 DEF Incr, RequestsState, RequestState
  <2>3. \A q \in Requests : (pc'[q] = "idle") = (pc[q] = "idle")
    BY <1>2, <2>2 DEF Incr, SendAgain, Judge, Decide, Goto
  <2>4. Minute(clock)' = Minute(clock)
    BY <2>2 DEF Minute
  <2>5. Key(r) \in Counters
    BY KeyInCounters
  <2>6. \A q \in Requests \ {r} : q \in Winners(i, w)' <=> q \in Winners(i, w)
    BY <2>1, <2>2, <2>3 DEF Winners, Counted, Asked, Minute
  <2>7. r \notin Winners(i, w)
    BY <2>2 DEF Winners
  <2>8. Winners(i, w) \subseteq Requests /\ Winners(i, w)' \subseteq Requests
    BY DEF Winners, Counted, Asked
  <2>9. CASE r \in Winners(i, w)'
    <3>1. /\ Key(r) = <<i, w>> /\ Minute(clock) = w
          /\ n \in 1 .. Limit /\ outcome = "ok"
      <4>1. /\ who'[r] = i /\ Minute(arrived'[r]) = w /\ applied'[r] >= 0
            /\ Minute(applied'[r]) = w /\ count'[r] \in 1 .. Limit
        BY <2>9 DEF Winners, Counted, Asked, Minute
      <4> QED
        BY <2>1, <2>2, <4>1 DEF Key
    <3>2. Cardinality(Winners(i, w)') = Cardinality(Winners(i, w)) + 1
      <4>1. Winners(i, w)' = Winners(i, w) \cup {r}
        BY <2>6, <2>8, <2>9
      <4> QED
        BY <2>7, <4>1, WinnersFinite, FS_AddElement
    <3>4. Cardinality(Winners(i, w)') <= n
      BY <1>1, <2>1, <2>5, <3>1, <3>2, WinnersFinite
    <3>5. counter'[<<i, w>>] = n
      BY <2>1, <2>5, <3>1
    <3> QED
      BY <3>1, <3>4, <3>5, WinnersFinite
  <2>10. CASE r \notin Winners(i, w)'
    <3>1. Winners(i, w)' = Winners(i, w)
      <4>1. \A q \in Requests : q \in Winners(i, w)' <=> q \in Winners(i, w)
        BY <2>6, <2>7, <2>10
      <4>2. \A q : q \in Winners(i, w)' <=> q \in Winners(i, w)
        BY <2>8, <4>1
      <4> QED
        BY <4>2
    <3>2. counter'[<<i, w>>] >= counter[<<i, w>>]
      BY <1>1, <2>1, <2>5
    <3>3. counter'[<<i, w>>] \in Nat
      BY <1>1 DEF TypeOK
    <3> QED
      BY <1>1, <2>4, <3>1, <3>2, <3>3, WinnersFinite
  <2> QED
    BY <2>9, <2>10
<1>3. CASE \A r \in Requests : ~Incr(r)
  <2>1. Winners(i, w)' = Winners(i, w)
    BY <1>3, WinnersStay
  <2>2. CASE \E k \in Counters : KeyExpires(k)
    <3>1. PICK k \in Counters : KeyExpires(k)
      BY <2>2
    <3>2. clock' = clock /\ deadline[k] # -1 /\ deadline[k] <= clock /\ deadline[k] \in Nat
      BY <3>1 DEF KeyExpires
    <3>3. CASE k = <<i, w>>
      <4>1. w < Minute(deadline[k]) /\ Minute(deadline[k]) \in Nat
        BY <3>2, <3>3, Quotient DEF DeadlineState
      <4>2. Minute(deadline[k]) <= Minute(clock) /\ Minute(clock) \in Nat
        BY <3>2, MinutesPass, Quotient
      <4>3. Minute(clock)' # w
        BY <3>2, <4>1, <4>2 DEF Minute
      <4> QED
        BY <1>1, <2>1, <4>3
    <3>4. CASE k # <<i, w>>
      <4>1. counter'[<<i, w>>] = counter[<<i, w>>]
        BY <1>1, <3>1, <3>4 DEF KeyExpires
      <4> QED
        BY <1>1, <2>1, <3>2, <4>1 DEF Minute
    <3> QED
      BY <3>3, <3>4
  <2>3. CASE Tick
    <3>1. clock \in Nat /\ clock' = clock + 1 /\ counter' = counter
      BY <2>3 DEF Tick
    <3>2. CASE Minute(clock) = w
      BY <1>1, <2>1, <3>1, <3>2
    <3>3. CASE Minute(clock) # w
      <4>1. SUFFICES ASSUME Minute(clock') = w PROVE Cardinality(Winners(i, w)) <= counter[<<i, w>>]
        BY <1>1, <2>1, <3>1 DEF Minute
      <4>2. Minute(clock) <= Minute(clock') /\ Minute(clock) \in Nat
        BY <3>1, MinutesPass, Quotient
      <4>3. ASSUME NEW r \in Winners(i, w) PROVE FALSE
        <5>1. r \in Requests /\ applied[r] >= 0 /\ Minute(applied[r]) = w
          BY DEF Winners, Counted, Asked
        <5>2. applied[r] \in Nat /\ applied[r] <= clock
          BY <5>1 DEF RequestsState, RequestState
        <5>3. Minute(applied[r]) <= Minute(clock)
          BY <3>1, <5>2, MinutesPass
        <5> QED
          BY <3>3, <4>1, <4>2, <5>1, <5>3
      <4>4. Cardinality(Winners(i, w)) = 0
        BY <4>3, FS_EmptySet
      <4> QED
        BY <1>1, <4>4
    <3> QED
      BY <3>2, <3>3
  <2>4. CASE UNCHANGED <<counter, clock>>
    BY <1>1, <2>1, <2>4 DEF Minute
  <2>5. (\E k \in Counters : KeyExpires(k)) \/ Tick \/ UNCHANGED <<counter, clock>>
    BY <1>3 DEF Next, Arrive, Expire, Crash, vars
  <2> QED
    BY <2>2, <2>3, <2>4, <2>5
<1> QED
  BY <1>2, <1>3

-----------------------------------------------------------------------------
(* The theorems *)

IInv == TypeOK /\ RequestsState /\ DeadlineState /\ CountersExpire /\ CountState /\ WindowState

LEMMA InitiallyNothing == Init => IInv
<1> SUFFICES ASSUME Init PROVE IInv
  OBVIOUS
<1> USE ConstantsAssumption
<1>1. TypeOK
  BY TypeInit
<1>2. RequestsState
  BY DEF Init, RequestsState, RequestState
<1>3. DeadlineState /\ CountersExpire
  BY DEF Init, DeadlineState, Counters, CountersExpire
<1>4. CountState
  <2>1. \A i, b : Weight(i, b) \in Nat
    <3>1. \A i, b : Own(i, b) \in SUBSET (Requests \X (1 .. MaxRetries + 1))
      BY <1>1 DEF Own, TypeOK
    <3> QED
      BY <3>1, HitsFinite DEF Weight
  <2>2. \A i \in Identities, b \in 0 .. Horizon : counter[<<i, b>>] = 0
    BY DEF Init, Counters
  <2> QED
    BY <2>1, <2>2 DEF Init, CountState
<1>5. WindowState
  <2>1. ASSUME NEW i \in Identities, NEW w \in 0 .. Horizon
        PROVE  /\ Cardinality(Winners(i, w)) <= Limit
               /\ Cardinality(Winners(i, w)) <= counter[<<i, w>>]
    <3>1. Winners(i, w) = {}
      BY DEF Init, Winners, Counted, Asked
    <3>2. Cardinality(Winners(i, w)) = 0
      BY <3>1, FS_EmptySet
    <3>3. counter[<<i, w>>] = 0
      BY DEF Init, Counters
    <3> QED
      BY <3>2, <3>3
  <2> QED
    BY <2>1 DEF WindowState
<1> QED
  BY <1>1, <1>2, <1>3, <1>4, <1>5 DEF IInv

LEMMA Invariance == Spec => []IInv
<1>1. IInv /\ [Next]_vars => IInv'
  <2> SUFFICES ASSUME IInv, [Next]_vars PROVE IInv'
    OBVIOUS
  <2>1. TypeOK /\ RequestsState /\ DeadlineState /\ CountersExpire /\ CountState /\ WindowState
    BY DEF IInv
  <2>2. TypeOK'
    BY <2>1, TypeStep
  <2>3. RequestsState'
    BY <2>1, RequestStep
  <2>4. DeadlineState'
    BY <2>1, DeadlineStep
  <2>5. CountersExpire'
    BY <2>1, ExpireStep
  <2>6. CountState'
    BY <2>1, <2>2, CountStep
  <2>7. WindowState'
    BY <2>1, <2>2, WindowStep
  <2> QED
    BY <2>2, <2>3, <2>4, <2>5, <2>6, <2>7 DEF IInv
<1> QED
  BY <1>1, InitiallyNothing, PTL DEF Spec

\* For every limit and every length of the minute: of the requests of one identity
\* that Redis counted in their minute no more than Limit pass, whatever commands
\* fail or are repeated, and whenever EXPIRE comes.
THEOREM LimitHolds == Spec => []LimitPerWindow
<1>1. IInv => LimitPerWindow
  <2> SUFFICES ASSUME IInv, NEW i \in Identities, NEW w \in 0 .. Horizon
               PROVE  Cardinality({r \in Counted(i, w) : verdict[r] = "passed"}) <= Limit
    BY DEF LimitPerWindow
  <2> DEFINE P == {r \in Counted(i, w) : verdict[r] = "passed"}
  <2>1. Cardinality(Winners(i, w)) <= Limit
    BY DEF IInv, WindowState
  <2>2. P \in SUBSET Winners(i, w) /\ Winners(i, w) \in SUBSET Requests
    BY DEF IInv, RequestsState, RequestState, Winners, Counted, Asked
  <2>3. Cardinality(P) \in Nat /\ Cardinality(P) <= Cardinality(Winners(i, w))
        /\ Cardinality(Winners(i, w)) \in Nat
    BY <2>2, Subsets
  <2> QED
    BY <2>1, <2>3, ConstantsAssumption
<1> QED
  BY <1>1, Invariance, PTL

\* Whoever is refused has had more than Limit INCRs of its own identity and minute
\* applied, however often the client library sends one again.
THEOREM RefusalsJustified == Spec => []RefusedForOwnRequests
<1>1. IInv => RefusedForOwnRequests
  <2> SUFFICES ASSUME IInv, NEW r \in Requests, verdict[r] = "refused"
               PROVE  Cardinality({h \in hits : h[1] \in Asked(who[r], Minute(arrived[r]))}) > Limit
    BY DEF RefusedForOwnRequests
  <2>1. TypeOK /\ CountState /\ \A q \in Requests : RequestState(q)
    BY DEF IInv, RequestsState
  <2>2. pc[r] # "idle" /\ count[r] > Limit /\ bucket[r] = Minute(arrived[r])
    BY <2>1 DEF RequestState
  <2>3. {h \in hits : h[1] \in Asked(who[r], Minute(arrived[r]))} = Own(who[r], bucket[r])
    <3>1. \A h \in hits : h[1] \in Requests /\ h = <<h[1], h[2]>>
      BY <2>1, Domains
    <3>2. \A h \in hits : pc[h[1]] # "idle" /\ bucket[h[1]] = Minute(arrived[h[1]])
      BY <2>1, <3>1 DEF RequestState
    <3> QED
      BY <2>2, <3>1, <3>2 DEF Asked, Own
  <2>4. who[r] \in Identities /\ bucket[r] \in 0 .. Horizon
    BY <2>1, KeyInCounters DEF Key, Counters
  <2>5. count[r] <= Weight(who[r], bucket[r])
    BY <2>1, <2>2, <2>4 DEF CountState, Key
  <2>6. Weight(who[r], bucket[r]) \in Nat /\ count[r] \in Nat
    <3>1. Own(who[r], bucket[r]) \in SUBSET (Requests \X (1 .. MaxRetries + 1))
      BY <2>1 DEF Own, TypeOK
    <3> QED
      BY <2>1, <3>1, HitsFinite, Domains DEF Weight
  <2>7. Weight(who[r], bucket[r]) > Limit
    BY <2>2, <2>5, <2>6, ConstantsAssumption
  <2> QED
    BY <2>3, <2>7 DEF Weight
<1> QED
  BY <1>1, Invariance, PTL

\* A counter without a deadline is one whose EXPIRE is on its way, or one that a
\* failed command or the end of the process left behind.
THEOREM CountersGo == Spec => []CountersExpire
<1>1. IInv => CountersExpire
  BY DEF IInv
<1> QED
  BY <1>1, Invariance, PTL

=============================================================================
