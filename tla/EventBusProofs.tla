--------------------------- MODULE EventBusProofs ---------------------------
(***************************************************************************)
(* Proofs about EventBus for any number of streams, orders and updates,    *)
(* every capacity of the subscribers' channels, and every loss of the      *)
(* LISTEN connection.                                                      *)
(***************************************************************************)
EXTENDS EventBus, SequenceTheorems, WellFoundedInduction, TLAPS

USE DEF stream, postgres, listen

-----------------------------------------------------------------------------
(* Naturals, updates and sequences of them *)

\* A set of naturals that is not empty has a least member.
LEMMA Least ==
    ASSUME NEW S \in SUBSET Nat, S # {}
    PROVE  \E m \in S : \A k \in S : m <= k
<1> DEFINE R == OpToRel(<, Nat)
<1>1. \A x, y \in Nat : <<y, x>> \in R <=> y < x
  BY DEF OpToRel
<1>2. IsWellFoundedOn(R, Nat)
  BY NatLessThanWellFounded, Zenon
<1> HIDE DEF R
<1>3. PICK m \in S : \A k \in S : ~(<<k, m>> \in R)
  BY <1>2, WFMin
<1>4. m \in Nat /\ \A k \in S : k \in Nat
  OBVIOUS
<1>5. \A k \in S : ~(k < m)
  BY <1>1, <1>3, <1>4
<1> QED
  BY <1>4, <1>5

\* The fields of an update.
LEMMA UpdateType ==
    ASSUME NEW u \in Updates
    PROVE  /\ u.order \in Orders /\ u.n \in Nat /\ 1 <= u.n /\ u.n <= MaxUpdates[u.order]
           /\ u = [order |-> u.order, n |-> u.n]
           /\ u # Nothing /\ u # Reconnected
BY ConstantsAssumption, NotUpdates DEF Updates

LEMMA NewUpdate ==
    ASSUME NEW o \in Orders, NEW k \in Nat, 1 <= k, k <= MaxUpdates[o]
    PROVE  [order |-> o, n |-> k] \in Updates
BY ConstantsAssumption DEF Updates

\* The updates of one order come in ascending order in s.
InOrder(s) ==
    \A i, j \in DOMAIN s :
        i < j /\ s[i] \in Updates /\ s[j] \in Updates /\ s[i].order = s[j].order => s[i].n < s[j].n

\* The updates of U come before those of V.
Before(U, V) ==
    \A u \in U \cap Updates, v \in V \cap Updates : u.order = v.order => u.n < v.n

LEMMA EmptyInOrder == InOrder(<<>>) /\ Range(<<>>) = {}
BY DEF InOrder, Range

LEMMA RangeType ==
    ASSUME NEW S, NEW s \in Seq(S)
    PROVE  Range(s) \subseteq S
BY LenProperties, ElementOfSeq DEF Range

LEMMA RangeAppend ==
    ASSUME NEW S, NEW s \in Seq(S), NEW x \in S
    PROVE  /\ Append(s, x) \in Seq(S) /\ Len(Append(s, x)) = Len(s) + 1
           /\ Range(Append(s, x)) = Range(s) \cup {x}
           /\ InOrder(s) /\ Before(Range(s), {x}) => InOrder(Append(s, x))
<1> DEFINE t == Append(s, x)
<1>1. /\ t \in Seq(S) /\ Len(t) = Len(s) + 1 /\ Len(s) \in Nat
      /\ DOMAIN s = 1 .. Len(s) /\ DOMAIN t = 1 .. Len(s) + 1
      /\ \A i \in 1 .. Len(s) : t[i] = s[i]
      /\ t[Len(s) + 1] = x
  BY AppendProperties, LenProperties
<1> HIDE DEF t
<1>2. \A i \in 1 .. Len(s) + 1 : i \in 1 .. Len(s) \/ i = Len(s) + 1
  BY <1>1
<1>3. Range(t) = Range(s) \cup {x}
  BY <1>1, <1>2 DEF Range
<1>4. ASSUME InOrder(s), Before(Range(s), {x}) PROVE InOrder(t)
  <2> SUFFICES ASSUME NEW i \in DOMAIN t, NEW j \in DOMAIN t, i < j,
                      t[i] \in Updates, t[j] \in Updates, t[i].order = t[j].order
               PROVE  t[i].n < t[j].n
    BY DEF InOrder
  <2>1. i \in 1 .. Len(s) /\ t[i] = s[i] /\ s[i] \in Range(s)
    BY <1>1 DEF Range
  <2>2. CASE j \in 1 .. Len(s)
    BY <1>1, <1>4, <2>1, <2>2 DEF InOrder
  <2>3. CASE j = Len(s) + 1
    BY <1>1, <1>4, <2>1, <2>3 DEF Before
  <2> QED
    BY <1>1, <1>2, <2>2, <2>3
<1> QED
  BY <1>1, <1>3, <1>4 DEF t

LEMMA RangeTail ==
    ASSUME NEW S, NEW s \in Seq(S), s # <<>>
    PROVE  /\ Head(s) \in S /\ Tail(s) \in Seq(S)
           /\ Len(s) \in Nat /\ Len(Tail(s)) = Len(s) - 1
           /\ Range(s) = {Head(s)} \cup Range(Tail(s))
           /\ InOrder(s) => InOrder(Tail(s)) /\ Before({Head(s)}, Range(Tail(s)))
<1> DEFINE h == Head(s)
           t == Tail(s)
<1>1. /\ h \in S /\ t \in Seq(S) /\ Len(s) \in Nat /\ Len(s) >= 1 /\ Len(t) = Len(s) - 1
      /\ DOMAIN s = 1 .. Len(s) /\ DOMAIN t = 1 .. Len(s) - 1
      /\ \A i \in 1 .. Len(s) - 1 : t[i] = s[i + 1]
      /\ h = s[1]
  BY HeadTailProperties, LenProperties, EmptySeq
<1> HIDE DEF h, t
<1>2. \A i \in 1 .. Len(s) : i = 1 \/ (i - 1 \in 1 .. Len(s) - 1 /\ s[i] = t[i - 1])
  BY <1>1
<1>3. \A i \in 1 .. Len(s) - 1 : i + 1 \in 1 .. Len(s)
  BY <1>1
<1>4. Range(s) = {h} \cup Range(t)
  <2>1. \A x : x \in Range(s) => x \in {h} \cup Range(t)
    BY <1>1, <1>2 DEF Range
  <2>2. \A x : x \in {h} \cup Range(t) => x \in Range(s)
    BY <1>1, <1>3 DEF Range
  <2> QED
    BY <2>1, <2>2
<1>5. ASSUME InOrder(s) PROVE InOrder(t)
  <2> SUFFICES ASSUME NEW i \in 1 .. Len(s) - 1, NEW j \in 1 .. Len(s) - 1, i < j,
                      t[i] \in Updates, t[j] \in Updates, t[i].order = t[j].order
               PROVE  t[i].n < t[j].n
    BY <1>1 DEF InOrder
  <2>1. i + 1 \in DOMAIN s /\ j + 1 \in DOMAIN s /\ i + 1 < j + 1 /\ t[i] = s[i + 1] /\ t[j] = s[j + 1]
    BY <1>1, <1>3
  <2> QED
    BY <1>5, <2>1 DEF InOrder
<1>6. ASSUME InOrder(s) PROVE Before({h}, Range(t))
  <2> SUFFICES ASSUME NEW i \in 1 .. Len(s) - 1, h \in Updates, t[i] \in Updates, h.order = t[i].order
               PROVE  h.n < t[i].n
    BY <1>1 DEF Before, Range
  <2> QED
    BY <1>1, <1>3, <1>6 DEF InOrder
<1> QED
  BY <1>1, <1>4, <1>5, <1>6 DEF h, t

\* Where a sequence is cut, all of its updates are on one side or the other.
LEMMA RangeCut ==
    ASSUME NEW S, NEW s \in Seq(S), NEW k \in 0 .. Len(s)
    PROVE  LET a == SubSeq(s, 1, k)
               b == SubSeq(s, k + 1, Len(s)) IN
           /\ a \in Seq(S) /\ b \in Seq(S)
           /\ Range(s) = Range(a) \cup Range(b)
           /\ InOrder(s) => InOrder(a) /\ Before(Range(a), Range(b))
<1> DEFINE a == SubSeq(s, 1, k)
           b == SubSeq(s, k + 1, Len(s))
<1>1. Len(s) \in Nat /\ k \in Nat /\ k <= Len(s) /\ DOMAIN s = 1 .. Len(s)
      /\ \A i \in 1 .. Len(s) : s[i] \in S
  BY LenProperties, ElementOfSeq
<1>2. /\ a \in Seq(S) /\ Len(a) = k /\ DOMAIN a = 1 .. k
      /\ \A i \in 1 .. k : a[i] = s[i]
  <2>1. \A i \in 1 .. k : s[i] \in S
    BY <1>1
  <2>2. a \in Seq(S) /\ Len(a) = (IF 1 <= k THEN k - 1 + 1 ELSE 0)
        /\ \A i \in 1 .. k - 1 + 1 : a[i] = s[1 + i - 1]
    BY <1>1, <2>1, SubSeqProperties
  <2> QED
    BY <1>1, <2>2, LenProperties
<1>3. /\ b \in Seq(S) /\ Len(b) = Len(s) - k /\ DOMAIN b = 1 .. Len(s) - k
      /\ \A i \in 1 .. Len(s) - k : b[i] = s[k + i]
  <2>1. \A i \in k + 1 .. Len(s) : s[i] \in S
    BY <1>1
  <2>2. b \in Seq(S) /\ Len(b) = (IF k + 1 <= Len(s) THEN Len(s) - (k + 1) + 1 ELSE 0)
        /\ \A i \in 1 .. Len(s) - (k + 1) + 1 : b[i] = s[(k + 1) + i - 1]
    BY <1>1, <2>1, SubSeqProperties
  <2> QED
    BY <1>1, <2>2, LenProperties
<1> HIDE DEF a, b
<1>4. \A i \in 1 .. Len(s) : i \in 1 .. k \/ (i - k \in 1 .. Len(s) - k /\ s[i] = b[i - k])
  BY <1>1, <1>3
<1>5. (\A i \in 1 .. k : i \in 1 .. Len(s)) /\ (\A i \in 1 .. Len(s) - k : k + i \in 1 .. Len(s))
  BY <1>1
<1>6. Range(s) = Range(a) \cup Range(b)
  <2>1. ASSUME NEW x \in Range(s) PROVE x \in Range(a) \cup Range(b)
    <3>1. PICK i \in 1 .. Len(s) : x = s[i]
      BY <1>1 DEF Range
    <3>2. CASE i \in 1 .. k
      BY <1>2, <3>1, <3>2 DEF Range
    <3>3. CASE i - k \in 1 .. Len(s) - k /\ s[i] = b[i - k]
      BY <1>3, <3>1, <3>3 DEF Range
    <3> QED
      BY <1>4, <3>2, <3>3
  <2>2. ASSUME NEW x \in Range(a) PROVE x \in Range(s)
    BY <1>1, <1>2, <1>5 DEF Range
  <2>3. ASSUME NEW x \in Range(b) PROVE x \in Range(s)
    BY <1>1, <1>3, <1>5 DEF Range
  <2> QED
    BY <2>1, <2>2, <2>3
<1>7. ASSUME InOrder(s) PROVE InOrder(a)
  BY <1>1, <1>2, <1>5, <1>7 DEF InOrder
<1>8. ASSUME InOrder(s) PROVE Before(Range(a), Range(b))
  <2> SUFFICES ASSUME NEW i \in 1 .. k, NEW j \in 1 .. Len(s) - k,
                      a[i] \in Updates, b[j] \in Updates, a[i].order = b[j].order
               PROVE  a[i].n < b[j].n
    <3>1. \A u \in Range(a) : \E i \in 1 .. k : u = a[i]
      BY <1>2 DEF Range
    <3>2. \A v \in Range(b) : \E j \in 1 .. Len(s) - k : v = b[j]
      BY <1>3 DEF Range
    <3> QED
      BY <3>1, <3>2 DEF Before
  <2>1. i \in DOMAIN s /\ k + j \in DOMAIN s /\ i < k + j /\ a[i] = s[i] /\ b[j] = s[k + j]
    BY <1>1, <1>2, <1>3, <1>5
  <2> QED
    BY <1>8, <2>1 DEF InOrder
<1> QED
  BY <1>2, <1>3, <1>6, <1>7, <1>8 DEF a, b

-----------------------------------------------------------------------------
(* The subscribers and the lock *)

Steps == {"idle", "subscribe", "select", "send", "unsubscribe", "ended"}
Phases == {"running", "draining", "closing", "exited"}

LEMMA Domains ==
    ASSUME TypeOK
    PROVE  /\ topic \in [Streams -> Orders \cup {NoOrder}]
           /\ pc \in [Streams -> Steps]
           /\ gone \in [Streams -> BOOLEAN]
           /\ buffer \in [Streams -> Seq(Updates)]
           /\ inHand \in [Streams -> Updates \cup {Nothing}]
           /\ received \in [Streams -> Seq(Updates)]
           /\ since \in [Streams -> Nat]
           /\ subscribers \in [Orders -> SUBSET Streams]
           /\ sent \in [Orders -> Nat]
           /\ wire \in Seq(Updates \cup {Reconnected})
           /\ lost \in SUBSET Updates
           /\ listener \in {"idle", "rlock", "deliver", "exited"}
           /\ current \in Updates \cup {Nothing}
           /\ todo \in SUBSET Streams
           /\ overflowed \in [Streams -> SUBSET Updates]
           /\ service \in Phases
BY DEF TypeOK, Steps, Phases

\* What a stream holds at its control points.
HandlerState(c) ==
    /\ pc[c] \notin {"idle", "ended"} => topic[c] \in Orders
    /\ inHand[c] # Nothing <=> pc[c] = "send"
    /\ pc[c] \in {"idle", "subscribe"} => received[c] = <<>>
    /\ ~Subscribed(c) => buffer[c] = <<>>

\* The listener holds an update while it handles one, and has somebody to serve
\* only under the lock; the bus stops after the streams.
BusState ==
    /\ \A c \in Streams : HandlerState(c)
    /\ current # Nothing <=> listener \in {"rlock", "deliver"}
    /\ listener # "deliver" => todo = {}
    /\ service \in {"closing", "exited"} => \A c \in Streams : pc[c] \in {"idle", "ended"}
    /\ NoSendOnClosed
    /\ NoLeakedSubscriber

LEMMA HandlerStep ==
    ASSUME TypeOK, BusState, [Next]_vars, NEW q \in Streams
    PROVE  HandlerState(q)'
<1> USE Domains DEF Goto, Subscribed
<1>0. HandlerState(q)
  BY DEF BusState
<1>1. ASSUME NEW c \in Streams, q # c,
             Open(c) \/ Subscribe(c) \/ TakeEvent(c) \/ Send(c) \/ Leave(c) \/ Unsubscribe(c)
               \/ Disconnect(c) \/ DeliverTo(c)
      PROVE  HandlerState(q)'
  <2>1. /\ pc'[q] = pc[q] /\ topic' = topic /\ inHand'[q] = inHand[q]
        /\ received'[q] = received[q] /\ buffer'[q] = buffer[q]
    BY <1>1 DEF Open, Subscribe, TakeEvent, Send, Leave, Unsubscribe, Disconnect, DeliverTo
  <2> QED
    BY <1>0, <2>1 DEF HandlerState
<1>2. CASE Open(q) \/ Subscribe(q) \/ Disconnect(q)
  BY <1>0, <1>2 DEF Open, Subscribe, Disconnect, HandlerState
<1>3. CASE TakeEvent(q)
  <2>1. Head(buffer[q]) \in Updates
    BY <1>3, RangeTail DEF TakeEvent
  <2>2. Head(buffer[q]) # Nothing
    BY <2>1, UpdateType
  <2> QED
    BY <1>0, <1>3, <2>2 DEF TakeEvent, HandlerState
<1>4. CASE Send(q) \/ Leave(q) \/ Unsubscribe(q)
  BY <1>0, <1>4 DEF Send, Leave, Unsubscribe, HandlerState
<1>5. CASE DeliverTo(q)
  <2>1. Subscribed(q)
    BY <1>5 DEF BusState, NoSendOnClosed, DeliverTo
  <2> QED
    BY <1>0, <1>5, <2>1 DEF DeliverTo, HandlerState
<1>6. CASE UNCHANGED <<topic, pc, inHand, received, buffer>>
  BY <1>0, <1>6 DEF HandlerState
<1>7. \/ UNCHANGED <<topic, pc, inHand, received, buffer>>
      \/ \E c \in Streams : Open(c) \/ Subscribe(c) \/ TakeEvent(c) \/ Send(c) \/ Leave(c)
                              \/ Unsubscribe(c) \/ Disconnect(c) \/ DeliverTo(c)
  BY DEF Next, Listening, Publish, LoseConnection, Reconnect, Take, RLock, RUnlock, Done,
         Stop, StopBus, Exit, vars
<1> QED
  BY <1>1, <1>2, <1>3, <1>4, <1>5, <1>6, <1>7

\* Streams come and go only while nobody is being served.
LEMMA BusStep ==
    ASSUME TypeOK, BusState, [Next]_vars
    PROVE  BusState'
<1> USE Domains DEF Goto, Subscribed
<1>1. \A c \in Streams : HandlerState(c)'
  BY HandlerStep
<1>2. (current # Nothing <=> listener \in {"rlock", "deliver"})'
  <2>1. CASE Take
    <3>1. Head(wire) # Reconnected => Head(wire) \in Updates
      BY <2>1, RangeTail DEF Take
    <3>2. Head(wire) # Reconnected => Head(wire) # Nothing
      BY <3>1, UpdateType
    <3> QED
      BY <2>1, <3>2 DEF Take, BusState
  <2>2. CASE RLock \/ RUnlock \/ Done \/ Exit
    BY <2>2 DEF RLock, RUnlock, Done, Exit, BusState
  <2>3. CASE UNCHANGED <<current, listener>>
    BY <2>3 DEF BusState
  <2>4. Take \/ RLock \/ RUnlock \/ Done \/ Exit \/ UNCHANGED <<current, listener>>
    BY DEF Next, Listening, Publish, LoseConnection, Reconnect, Open, Subscribe, TakeEvent, Send,
           Leave, Unsubscribe, Disconnect, DeliverTo, Stop, StopBus, vars
  <2> QED
    BY <2>1, <2>2, <2>3, <2>4
<1>3. (listener # "deliver" => todo = {})'
  BY DEF BusState, Next, Listening, Take, RLock, RUnlock, Done, Publish, LoseConnection, Reconnect,
         Open, Subscribe, TakeEvent, Send, Leave, Unsubscribe, Disconnect, DeliverTo, Stop, StopBus,
         Exit, vars
<1>4. (service \in {"closing", "exited"} => \A c \in Streams : pc[c] \in {"idle", "ended"})'
  <2>1. CASE StopBus \/ Stop \/ Exit
    BY <2>1 DEF BusState, StopBus, Stop, Exit
  <2>2. ASSUME NEW c \in Streams,
               Open(c) \/ Subscribe(c) \/ TakeEvent(c) \/ Send(c) \/ Leave(c) \/ Unsubscribe(c)
        PROVE  service' \notin {"closing", "exited"}
    BY <2>2 DEF BusState, Open, Subscribe, TakeEvent, Send, Leave, Unsubscribe, Phases
  <2>3. CASE UNCHANGED <<service, pc>>
    BY <2>3 DEF BusState
  <2>4. \/ StopBus \/ Stop \/ Exit \/ UNCHANGED <<service, pc>>
        \/ \E c \in Streams : Open(c) \/ Subscribe(c) \/ TakeEvent(c) \/ Send(c) \/ Leave(c) \/ Unsubscribe(c)
    BY DEF Next, Listening, Publish, LoseConnection, Reconnect, Take, RLock, RUnlock, Done, DeliverTo,
           Disconnect, vars
  <2> QED
    BY <2>1, <2>2, <2>3, <2>4
<1>5. NoLeakedSubscriber'
  <2> SUFFICES ASSUME NEW o \in Orders
               PROVE  subscribers'[o] = {c \in Streams : Subscribed(c)' /\ topic'[c] = o}
    BY DEF NoLeakedSubscriber
  <2>0. subscribers[o] = {c \in Streams : Subscribed(c) /\ topic[c] = o}
    BY DEF BusState, NoLeakedSubscriber
  <2>1. ASSUME NEW c \in Streams, Subscribe(c)
        PROVE  subscribers'[o] = {d \in Streams : Subscribed(d)' /\ topic'[d] = o}
    <3>1. /\ topic[c] \in Orders /\ topic' = topic /\ pc' = [pc EXCEPT ![c] = "select"]
          /\ subscribers' = [subscribers EXCEPT ![topic[c]] = @ \cup {c}]
      BY <2>1 DEF BusState, HandlerState, Subscribe
    <3>2. subscribers'[o] = IF topic[c] = o THEN subscribers[o] \cup {c} ELSE subscribers[o]
      BY <3>1
    <3> QED
      BY <2>0, <3>1, <3>2
  <2>2. ASSUME NEW c \in Streams, Unsubscribe(c)
        PROVE  subscribers'[o] = {d \in Streams : Subscribed(d)' /\ topic'[d] = o}
    <3>1. /\ topic[c] \in Orders /\ topic' = topic /\ pc' = [pc EXCEPT ![c] = "ended"]
          /\ subscribers' = [subscribers EXCEPT ![topic[c]] = @ \ {c}]
      BY <2>2 DEF BusState, HandlerState, Unsubscribe
    <3>2. subscribers'[o] = IF topic[c] = o THEN subscribers[o] \ {c} ELSE subscribers[o]
      BY <3>1
    <3> QED
      BY <2>0, <3>1, <3>2
  <2>3. ASSUME UNCHANGED <<subscribers, topic>>, \A c \in Streams : Subscribed(c)' = Subscribed(c)
        PROVE  subscribers'[o] = {d \in Streams : Subscribed(d)' /\ topic'[d] = o}
    BY <2>0, <2>3
  <2>4. ASSUME NEW c \in Streams, Open(c) \/ TakeEvent(c) \/ Send(c) \/ Leave(c)
        PROVE  /\ UNCHANGED <<subscribers, topic>>
               /\ \A d \in Streams : Subscribed(d)' = Subscribed(d)
    BY <2>4 DEF Open, TakeEvent, Send, Leave
  <2>5. \/ \E c \in Streams : Subscribe(c) \/ Unsubscribe(c) \/ Open(c) \/ TakeEvent(c) \/ Send(c) \/ Leave(c)
        \/ UNCHANGED <<subscribers, topic, pc>>
    BY DEF Next, Listening, Publish, LoseConnection, Reconnect, Take, RLock, RUnlock, Done, DeliverTo,
           Disconnect, Stop, StopBus, Exit, vars
  <2> QED
    BY <2>1, <2>2, <2>3, <2>4, <2>5
<1>6. NoSendOnClosed'
  <2> SUFFICES ASSUME listener' = "deliver", NEW c \in todo'
               PROVE  c \in Streams /\ Subscribed(c)' /\ topic'[c] = current'.order
    BY DEF NoSendOnClosed
  <2>1. CASE RLock
    <3>1. current \in Updates
      BY <2>1 DEF RLock, BusState
    <3>2. current.order \in Orders
      BY <3>1, UpdateType
    <3> QED
      BY <2>1, <3>2 DEF RLock, BusState, NoLeakedSubscriber
  <2>2. CASE listener = "deliver" /\ c \in todo
    <3>1. c \in Streams /\ Subscribed(c) /\ topic[c] = current.order
      BY <2>2 DEF BusState, NoSendOnClosed
    <3>2. topic' = topic /\ current' = current
      BY <2>2 DEF Next, Listening, Take, RLock, RUnlock, Done, Publish, LoseConnection, Reconnect, Open,
                Subscribe, TakeEvent, Send, Leave, Unsubscribe, Disconnect, DeliverTo, Stop, StopBus,
                Exit, vars
    <3>3. \A d \in Streams : Subscribed(d) => Subscribed(d)'
      BY <2>2 DEF Next, Listening, Take, RLock, RUnlock, Done, Publish, LoseConnection, Reconnect, Open,
                Subscribe, CanLock, TakeEvent, Send, Leave, Unsubscribe, Disconnect, DeliverTo, Stop,
                StopBus, Exit, vars
    <3> QED
      BY <3>1, <3>2, <3>3
  <2>3. RLock \/ (listener = "deliver" /\ c \in todo)
    BY DEF Next, Listening, Take, RUnlock, Done, Publish, LoseConnection, Reconnect, Open,
           Subscribe, TakeEvent, Send, Leave, Unsubscribe, Disconnect, DeliverTo, Stop, StopBus,
           Exit, vars
  <2> QED
    BY <2>1, <2>2, <2>3
<1> QED
  BY <1>1, <1>2, <1>3, <1>4, <1>5, <1>6 DEF BusState

-----------------------------------------------------------------------------
(* The updates on their way *)

\* They come in order, were all sent, and follow the one in hand.
WireState ==
    /\ InOrder(wire)
    /\ \A u \in Range(wire) \cap Updates : u.n <= sent[u.order]
    /\ current # Nothing => current.n <= sent[current.order]
    /\ Before({current}, Range(wire))

\* What was sent, has not been lost and is not due any more was sent before what is.
NoGaps ==
    \A u \in Updates :
        u.n <= sent[u.order] /\ u \notin lost /\ u \notin Due(u.order) =>
            \A v \in Due(u.order) : u.n < v.n

LEMMA DueMembers ==
    TypeOK /\ BusState =>
        \A o, u : u \in Due(o) <=>
            /\ u \in Updates /\ u.order = o
            /\ u \in Range(wire) \/ (listener = "rlock" /\ u = current)
<1> SUFFICES ASSUME TypeOK, BusState, NEW o, NEW u
             PROVE  u \in Due(o) <=>
                      /\ u \in Updates /\ u.order = o
                      /\ u \in Range(wire) \/ (listener = "rlock" /\ u = current)
  OBVIOUS
<1>1. Range(wire) \subseteq Updates \cup {Reconnected}
  BY Domains, RangeType
<1>2. listener = "rlock" => current \in Updates
  BY Domains DEF BusState
<1>3. \A v \in Updates : v # Reconnected
  BY UpdateType
<1> QED
  BY <1>1, <1>2, <1>3 DEF Due

LEMMA DueMembersNext ==
    TypeOK' /\ BusState' =>
        (\A o, u : u \in Due(o) <=>
            /\ u \in Updates /\ u.order = o
            /\ u \in Range(wire) \/ (listener = "rlock" /\ u = current))'
BY DueMembers, PTL

\* HandledUpTo stops short of the first update that is due.
LEMMA Handled ==
    ASSUME TypeOK, BusState, WireState, NEW o \in Orders
    PROVE  /\ HandledUpTo(o) \in 0 .. sent[o]
           /\ Due(o) = {} => HandledUpTo(o) = sent[o]
           /\ Due(o) # {} => [order |-> o, n |-> HandledUpTo(o) + 1] \in Due(o)
<1> USE Domains
<1> DEFINE P(k) == IF Due(o) = {} THEN k = sent[o]
                   ELSE [order |-> o, n |-> k + 1] \in Due(o) /\ \A u \in Due(o) : k < u.n
<1>1. \E k \in 0 .. sent[o] : P(k)
  <2>1. CASE Due(o) = {}
    BY <2>1
  <2>2. CASE Due(o) # {}
    <3>1. \A u \in Due(o) : u \in Updates /\ u.order = o /\ u.n \in Nat /\ 1 <= u.n /\ u.n <= sent[o]
                            /\ u = [order |-> o, n |-> u.n]
      <4> SUFFICES ASSUME NEW u \in Due(o)
                   PROVE  u \in Updates /\ u.order = o /\ u.n \in Nat /\ 1 <= u.n /\ u.n <= sent[o]
                          /\ u = [order |-> o, n |-> u.n]
        OBVIOUS
      <4>1. u \in Updates /\ u.order = o /\ (u \in Range(wire) \/ u = current)
        BY DueMembers
      <4> QED
        BY <4>1, UpdateType DEF WireState
    <3> DEFINE N == {u.n : u \in Due(o)}
    <3>2. PICK m \in N : \A k \in N : m <= k
      <4>1. N \in SUBSET Nat /\ N # {}
        BY <2>2, <3>1
      <4> QED
        BY <4>1, Least
    <3>3. PICK u \in Due(o) : m = u.n
      OBVIOUS
    <3>4. m \in Nat /\ m - 1 \in 0 .. sent[o] /\ (m - 1) + 1 = m
      BY <3>1, <3>3
    <3>5. [order |-> o, n |-> (m - 1) + 1] \in Due(o)
      BY <3>1, <3>3, <3>4
    <3>6. \A v \in Due(o) : m - 1 < v.n
      <4> SUFFICES ASSUME NEW v \in Due(o) PROVE m - 1 < v.n
        OBVIOUS
      <4>1. v.n \in Nat /\ v.n \in N
        BY <3>1
      <4>2. m <= v.n
        BY <3>2, <4>1
      <4> QED
        BY <3>4, <4>1, <4>2
    <3> QED
      BY <2>2, <3>4, <3>5, <3>6
  <2> QED
    BY <2>1, <2>2
<1>2. HandledUpTo(o) = CHOOSE k \in 0 .. sent[o] : P(k)
  BY DEF HandledUpTo
<1> HIDE DEF P
<1>3. HandledUpTo(o) \in 0 .. sent[o] /\ P(HandledUpTo(o))
  BY <1>1, <1>2
<1> QED
  BY <1>3 DEF P

\* What a NOTIFY adds, to the wire or to what is lost.
LEMMA Published ==
    ASSUME TypeOK, NEW o \in Orders, Publish(o)
    PROVE  LET x == [order |-> o, n |-> sent[o] + 1] IN
           /\ x \in Updates
           /\ sent' = [sent EXCEPT ![o] = @ + 1] /\ UNCHANGED <<listener, current>>
           /\ \/ wire' = Append(wire, x) /\ lost' = lost
              \/ wire' = wire /\ lost' = lost \cup {x}
<1> USE Domains, ConstantsAssumption
<1>1. sent[o] \in Nat /\ MaxUpdates[o] \in Nat /\ sent[o] < MaxUpdates[o]
  BY DEF Publish
<1>2. sent[o] + 1 \in Nat /\ 1 <= sent[o] + 1 /\ sent[o] + 1 <= MaxUpdates[o]
  BY <1>1
<1>3. [order |-> o, n |-> sent[o] + 1] \in Updates
  BY <1>2, NewUpdate
<1> QED
  BY <1>3 DEF Publish

\* One event more on the wire.
LEMMA WireAppend ==
    ASSUME TypeOK, NEW x \in Updates \cup {Reconnected}
    PROVE  /\ Append(wire, x) \in Seq(Updates \cup {Reconnected})
           /\ Range(Append(wire, x)) = Range(wire) \cup {x}
<1> DEFINE Items == Updates \cup {Reconnected}
<1>1. wire \in Seq(Items) /\ x \in Items
  BY Domains
<1> HIDE DEF Items
<1>2. Append(wire, x) \in Seq(Items)
  BY <1>1, AppendProperties
<1>3. ASSUME NEW s \in Seq(Items), NEW y \in Items, NEW t, t = Append(s, y)
      PROVE  Range(t) = Range(s) \cup {y}
  BY <1>3, RangeAppend, ZenonT(60)
<1>4. ASSUME NEW t, t = Append(wire, x) PROVE Range(t) = Range(wire) \cup {x}
  BY <1>1, <1>3, <1>4, Zenon
<1>5. Range(Append(wire, x)) = Range(wire) \cup {x}
  BY <1>4, Zenon
<1> QED
  BY <1>2, <1>5 DEF Items

LEMMA TypeInit == Init => TypeOK
BY EmptySeq, ConstantsAssumption DEF Init, TypeOK

LEMMA TypeStep ==
    ASSUME TypeOK, BusState, WireState, [Next]_vars
    PROVE  TypeOK'
<1> USE Domains, ConstantsAssumption DEF Goto
<1>0. \A c \in Streams : Len(buffer[c]) <= Capacity
  BY DEF TypeOK
<1>1. ASSUME NEW o \in Orders, Publish(o) PROVE TypeOK'
  <2>1. PICK x \in Updates : \/ wire' = Append(wire, x) /\ lost' = lost
                             \/ wire' = wire /\ lost' = lost \cup {x}
    BY <1>1, Published
  <2>2. wire' \in Seq(Updates \cup {Reconnected}) /\ lost' \in SUBSET Updates
    <3>1. Append(wire, x) \in Seq(Updates \cup {Reconnected})
      BY WireAppend
    <3> QED
      BY <2>1, <3>1
  <2>3. sent' \in [Orders -> Nat] /\ \A p \in Orders : sent'[p] <= MaxUpdates[p]
    BY <1>1 DEF TypeOK, Publish
  <2> QED
    BY <1>1, <2>2, <2>3 DEF TypeOK, Publish
<1>2. CASE LoseConnection
  <2>1. PICK k \in 0 .. Len(wire) :
          /\ wire' = SubSeq(wire, 1, k)
          /\ lost' = lost \cup (Range(SubSeq(wire, k + 1, Len(wire))) \ {Reconnected})
    BY <1>2 DEF LoseConnection
  <2>2. /\ wire' \in Seq(Updates \cup {Reconnected})
        /\ Range(SubSeq(wire, k + 1, Len(wire))) \subseteq Range(wire)
    BY <2>1, RangeCut
  <2>3. Range(wire) \subseteq Updates \cup {Reconnected}
    BY RangeType
  <2> QED
    BY <1>2, <2>1, <2>2, <2>3 DEF TypeOK, LoseConnection
<1>3. CASE Reconnect
  <2>1. wire' \in Seq(Updates \cup {Reconnected})
    BY <1>3, AppendProperties DEF Reconnect
  <2> QED
    BY <1>3, <2>1 DEF TypeOK, Reconnect
<1>4. CASE Take
  <2>1. wire' \in Seq(Updates \cup {Reconnected}) /\ Head(wire) \in Updates \cup {Reconnected}
    BY <1>4, RangeTail DEF Take
  <2> QED
    BY <1>4, <2>1 DEF TypeOK, Take
<1>5. CASE RLock
  <2>1. current.order \in Orders
    BY <1>5, UpdateType DEF RLock, BusState
  <2> QED
    BY <1>5, <2>1 DEF TypeOK, RLock
<1>6. ASSUME NEW c \in Streams, DeliverTo(c) PROVE TypeOK'
  <2>1. current \in Updates
    BY <1>6 DEF DeliverTo, BusState
  <2>2. buffer' \in [Streams -> Seq(Updates)] /\ \A d \in Streams : Len(buffer'[d]) <= Capacity
    <3>1. CASE Len(buffer[c]) < Capacity
      <4>1. /\ Append(buffer[c], current) \in Seq(Updates)
            /\ Len(Append(buffer[c], current)) = Len(buffer[c]) + 1
            /\ Len(buffer[c]) \in Nat
        BY <2>1, AppendProperties, LenProperties
      <4>2. buffer' = [buffer EXCEPT ![c] = Append(buffer[c], current)]
        BY <1>6, <3>1 DEF DeliverTo
      <4> QED
        BY <1>0, <3>1, <4>1, <4>2
    <3>2. CASE ~(Len(buffer[c]) < Capacity)
      BY <1>0, <1>6, <3>2 DEF DeliverTo
    <3> QED
      BY <3>1, <3>2
  <2>3. overflowed' \in [Streams -> SUBSET Updates]
    BY <1>6, <2>1 DEF DeliverTo, MeetsFull
  <2> QED
    BY <1>6, <2>2, <2>3 DEF TypeOK, DeliverTo
<1>7. CASE RUnlock \/ Done \/ Exit
  BY <1>7 DEF TypeOK, RUnlock, Done, Exit
<1>8. ASSUME NEW c \in Streams, Open(c) \/ Disconnect(c) \/ Leave(c) PROVE TypeOK'
  <2>1. pc' \in [Streams -> Steps] /\ gone' \in [Streams -> BOOLEAN]
        /\ inHand' \in [Streams -> Updates \cup {Nothing}]
    <3>1. CASE Open(c)
      BY <3>1 DEF Open, Steps
    <3>2. CASE Disconnect(c)
      BY <3>2 DEF Disconnect
    <3>3. CASE Leave(c)
      BY <3>3 DEF Leave, Steps
    <3> QED
      BY <1>8, <3>1, <3>2, <3>3
  <2>2. UNCHANGED <<topic, buffer, received, since, subscribers, postgres, listen, service>>
    BY <1>8 DEF Open, Disconnect, Leave
  <2> QED
    BY <2>1, <2>2 DEF TypeOK, Steps
<1>9. ASSUME NEW c \in Streams, Subscribe(c) PROVE TypeOK'
  <2>1. topic[c] \in Orders
    <3>1. HandlerState(c) /\ pc[c] = "subscribe"
      BY <1>9 DEF Subscribe, BusState
    <3> QED
      BY <3>1 DEF HandlerState
  <2>2. sent[topic[c]] \in Nat /\ HandledUpTo(topic[c]) \in 0 .. sent[topic[c]]
    BY <2>1, Handled
  <2> QED
    BY <1>9, <2>1, <2>2 DEF TypeOK, Subscribe
<1>10. ASSUME NEW c \in Streams, TakeEvent(c) PROVE TypeOK'
  <2>1. /\ Head(buffer[c]) \in Updates /\ Tail(buffer[c]) \in Seq(Updates)
        /\ Len(buffer[c]) \in Nat /\ Len(Tail(buffer[c])) = Len(buffer[c]) - 1
    BY <1>10, RangeTail DEF TakeEvent
  <2>2. buffer' \in [Streams -> Seq(Updates)] /\ \A d \in Streams : Len(buffer'[d]) <= Capacity
    BY <1>0, <1>10, <2>1 DEF TakeEvent
  <2> QED
    BY <1>10, <2>1, <2>2 DEF TypeOK, TakeEvent
<1>11. ASSUME NEW c \in Streams, Send(c) PROVE TypeOK'
  <2>1. inHand[c] \in Updates
    BY <1>11 DEF Send, BusState, HandlerState
  <2>2. received' \in [Streams -> Seq(Updates)]
    BY <1>11, <2>1, AppendProperties DEF Send
  <2> QED
    BY <1>11, <2>2 DEF TypeOK, Send
<1>12. ASSUME NEW c \in Streams, Unsubscribe(c) PROVE TypeOK'
  <2>1. topic[c] \in Orders
    BY <1>12 DEF Unsubscribe, BusState, HandlerState
  <2>2. <<>> \in Seq(Updates) /\ Len(<<>>) = 0
    BY EmptySeq
  <2>3. buffer' \in [Streams -> Seq(Updates)] /\ \A d \in Streams : Len(buffer'[d]) <= Capacity
    BY <1>0, <1>12, <2>2 DEF Unsubscribe
  <2> QED
    BY <1>12, <2>1, <2>3 DEF TypeOK, Unsubscribe
<1>13. CASE Stop \/ StopBus \/ UNCHANGED vars
  BY <1>13 DEF TypeOK, Stop, StopBus, vars
<1> QED
  BY <1>1, <1>2, <1>3, <1>4, <1>5, <1>6, <1>7, <1>8, <1>9, <1>10, <1>11, <1>12, <1>13 DEF Next, Listening

LEMMA Reconnection ==
    ASSUME TypeOK, WireState, Reconnect
    PROVE  InOrder(wire') /\ Range(wire') = Range(wire) \cup {Reconnected}
<1> DEFINE Items == Updates \cup {Reconnected}
<1>1. wire \in Seq(Items) /\ Reconnected \in Items /\ Reconnected \notin Updates
  BY Domains, UpdateType
<1> HIDE DEF Items
<1>2. Before(Range(wire), {Reconnected})
  BY <1>1 DEF Before
<1>3. wire' = Append(wire, Reconnected)
  BY DEF Reconnect
<1> QED
  BY <1>1, <1>2, <1>3, RangeAppend DEF WireState

\* The wire is only touched by these steps.
LEMMA WireKept ==
    ASSUME [Next]_vars,
           ~(\E o \in Orders : Publish(o)), ~LoseConnection, ~Reconnect, ~Take,
           ~RLock, ~RUnlock, ~Done, ~Exit
    PROVE  UNCHANGED <<wire, sent, lost, listener, current>>
BY DEF Next, Listening, DeliverTo, Open, Subscribe, TakeEvent, Send, Leave, Unsubscribe, Disconnect,
       Stop, StopBus, vars

LEMMA WireStep ==
    ASSUME TypeOK, BusState, WireState, [Next]_vars
    PROVE  WireState'
<1> USE Domains
<1>0. Range(wire) \subseteq Updates \cup {Reconnected}
  BY RangeType
<1>1. ASSUME NEW o \in Orders, Publish(o) PROVE WireState'
  <2> DEFINE x == [order |-> o, n |-> sent[o] + 1]
             Items == Updates \cup {Reconnected}
  <2>1. x \in Updates /\ x.order = o /\ x.n = sent[o] + 1 /\ x \in Items /\ wire \in Seq(Items)
    BY <1>1, Published
  <2>2. /\ sent' = [sent EXCEPT ![o] = @ + 1] /\ UNCHANGED <<listener, current>>
        /\ wire' = Append(wire, x) \/ wire' = wire
    BY <1>1, Published
  <2>3. \A u \in Updates : u.n <= sent[u.order] => u.n <= sent'[u.order]
    BY <2>2, UpdateType
  <2> HIDE DEF x, Items
  <2>4. Before(Range(wire), {x}) /\ Before({current}, {x})
    <3>1. ASSUME NEW u \in Updates, u.n <= sent[u.order], u.order = x.order PROVE u.n < x.n
      BY <2>1, <3>1, UpdateType
    <3>2. \A u \in Range(wire) \cap Updates : u.n <= sent[u.order]
      BY DEF WireState
    <3>3. current \in Updates => current.n <= sent[current.order]
      BY UpdateType DEF WireState
    <3> QED
      BY <3>1, <3>2, <3>3 DEF Before
  <2>5. CASE wire' = Append(wire, x)
    <3>2. InOrder(wire') /\ Range(wire') = Range(wire) \cup {x}
      BY <2>1, <2>4, <2>5, RangeAppend DEF WireState
    <3>3. x.n <= sent'[x.order]
      BY <2>1, <2>2
    <3>4. \A u \in Range(wire') \cap Updates : u.n <= sent'[u.order]
      BY <2>3, <3>2, <3>3 DEF WireState
    <3>5. current' # Nothing => current'.n <= sent'[current'.order]
      BY <2>2, <2>3 DEF WireState
    <3>6. Before({current'}, Range(wire'))
      BY <2>2, <2>4, <3>2 DEF WireState, Before
    <3> QED
      BY <3>2, <3>4, <3>5, <3>6 DEF WireState
  <2>6. CASE wire' = wire
    <3>2. current' # Nothing => current'.n <= sent'[current'.order]
      BY <2>2, <2>3 DEF WireState
    <3> QED
      BY <2>2, <2>3, <2>6, <3>2 DEF WireState
  <2> QED
    BY <2>2, <2>5, <2>6
<1>2. CASE LoseConnection
  <2>1. PICK k \in 0 .. Len(wire) : wire' = SubSeq(wire, 1, k)
    BY <1>2 DEF LoseConnection
  <2>2. InOrder(wire') /\ Range(wire') \subseteq Range(wire)
    BY <2>1, RangeCut DEF WireState
  <2> QED
    BY <1>2, <2>2 DEF LoseConnection, WireState, Before
<1>3. CASE Reconnect
  <2>1. Reconnected \notin Updates
    BY UpdateType
  <2>3. InOrder(wire') /\ Range(wire') = Range(wire) \cup {Reconnected}
    BY <1>3, Reconnection
  <2>4. Before({current}, Range(wire) \cup {Reconnected})
    BY <2>1 DEF WireState, Before
  <2> QED
    BY <1>3, <2>1, <2>3, <2>4 DEF Reconnect, WireState
<1>4. CASE Take
  <2>1. /\ InOrder(wire') /\ Before({Head(wire)}, Range(wire'))
        /\ Range(wire) = {Head(wire)} \cup Range(wire')
        /\ Head(wire) \in Updates \cup {Reconnected}
    BY <1>4, RangeTail DEF Take, WireState
  <2>2. sent' = sent /\ current' \in {current, Head(wire)}
    BY <1>4 DEF Take
  <2>3. current' = Head(wire) => Head(wire) # Reconnected \/ current = Head(wire)
    BY <1>4 DEF Take
  <2>4. Before({current'}, Range(wire'))
    BY <2>1, <2>2 DEF WireState, Before
  <2>5. current' # Nothing => current'.n <= sent'[current'.order]
    BY <2>1, <2>2, <2>3 DEF WireState
  <2> QED
    BY <2>1, <2>2, <2>4, <2>5 DEF WireState
<1>5. CASE RLock \/ RUnlock \/ Done \/ Exit
  <2>1. UNCHANGED <<wire, sent>> /\ current' \in {current, Nothing}
    BY <1>5 DEF RLock, RUnlock, Done, Exit
  <2>2. Nothing \notin Updates
    BY UpdateType
  <2> QED
    BY <2>1, <2>2 DEF WireState, Before
<1>6. CASE UNCHANGED <<wire, sent, lost, listener, current>>
  BY <1>6 DEF WireState
<1> QED
  BY <1>1, <1>2, <1>3, <1>4, <1>5, <1>6, WireKept

LEMMA GapStep ==
    ASSUME TypeOK, BusState, WireState, NoGaps, [Next]_vars, TypeOK', BusState'
    PROVE  NoGaps'
<1> USE Domains
<1> SUFFICES ASSUME NEW u \in Updates, u.n <= sent'[u.order], u \notin lost',
                    NEW o, o = u.order, ~(u \in Due(o))', NEW v, (v \in Due(o))'
             PROVE  u.n < v.n
  BY DEF NoGaps
<1>0. /\ o \in Orders /\ v \in Updates /\ v.order = o
      /\ v \in Range(wire)' \/ (listener' = "rlock" /\ v = current')
      /\ u \notin Range(wire)' /\ ~(listener' = "rlock" /\ u = current')
  BY DueMembersNext, UpdateType
<1>1. /\ v \in Due(o) <=> v \in Range(wire) \/ (listener = "rlock" /\ v = current)
      /\ u \in Due(o) <=> u \in Range(wire) \/ (listener = "rlock" /\ u = current)
  BY <1>0, DueMembers
<1>2. ASSUME u.n <= sent[o], u \notin lost, u \notin Due(o), v \in Due(o) PROVE u.n < v.n
  BY <1>2 DEF NoGaps
<1>3. ASSUME NEW p \in Orders, Publish(p) PROVE u.n < v.n
  <2>1. PICK x \in Updates :
          /\ x = [order |-> p, n |-> sent[p] + 1]
          /\ sent' = [sent EXCEPT ![p] = @ + 1] /\ UNCHANGED <<listener, current>>
          /\ (wire' = Append(wire, x) /\ lost' = lost) \/ (wire' = wire /\ lost' = lost \cup {x})
    BY <1>3, Published
  <2>2. /\ Range(wire) \subseteq Range(wire') /\ Range(wire') \subseteq Range(wire) \cup {x}
        /\ x \in lost' \/ x \in Range(wire')
    <3>1. Range(Append(wire, x)) = Range(wire) \cup {x}
      BY WireAppend
    <3> QED
      BY <2>1, <3>1
  <2>4. u # x
    BY <1>0, <2>2
  <2>5. u = [order |-> o, n |-> u.n] /\ u.n \in Nat
    BY UpdateType
  <2>6. u.n <= sent[o]
    <3>1. o = p => u.n # sent[p] + 1
      BY <2>1, <2>4, <2>5
    <3> QED
      BY <1>0, <2>1, <2>5, <3>1
  <2>7. u \notin lost /\ u \notin Due(o)
    BY <1>0, <1>1, <2>1, <2>2
  <2>8. CASE v = x
    <3>1. v.n = sent[o] + 1
      BY <1>0, <2>1, <2>8
    <3> QED
      BY <1>0, <2>5, <2>6, <3>1
  <2>9. CASE v # x
    BY <1>0, <1>1, <1>2, <2>1, <2>2, <2>6, <2>7, <2>9
  <2> QED
    BY <2>8, <2>9
<1>4. CASE LoseConnection
  <2>1. PICK k \in 0 .. Len(wire) :
          /\ wire' = SubSeq(wire, 1, k)
          /\ lost' = lost \cup (Range(SubSeq(wire, k + 1, Len(wire))) \ {Reconnected})
    BY <1>4 DEF LoseConnection
  <2>2. Range(wire) = Range(wire') \cup Range(SubSeq(wire, k + 1, Len(wire)))
    BY <2>1, RangeCut
  <2>3. UNCHANGED <<sent, listener, current>>
    BY <1>4 DEF LoseConnection, listen
  <2>5. u # Reconnected
    BY UpdateType
  <2>4. u \notin lost /\ u \notin Due(o) /\ v \in Due(o) /\ u.n <= sent[o]
    BY <1>0, <1>1, <2>1, <2>2, <2>3, <2>5
  <2> QED
    BY <1>2, <2>4
<1>5. CASE Reconnect
  <2>1. Range(wire') = Range(wire) \cup {Reconnected}
    BY <1>5, Reconnection
  <2>2. v # Reconnected /\ UNCHANGED <<sent, lost, listener, current>>
    BY <1>0, <1>5, UpdateType DEF Reconnect, listen
  <2>3. u \notin lost /\ u \notin Due(o) /\ v \in Due(o) /\ u.n <= sent[o]
    BY <1>0, <1>1, <2>1, <2>2
  <2> QED
    BY <1>2, <2>3
<1>6. CASE Take
  <2>1. Range(wire) = {Head(wire)} \cup Range(wire')
    BY <1>6, RangeTail DEF Take
  <2>2. /\ UNCHANGED <<sent, lost>> /\ listener = "idle"
        /\ Head(wire) = Reconnected \/ (listener' = "rlock" /\ current' = Head(wire))
        /\ listener' = "rlock" => current' = Head(wire)
    BY <1>6 DEF Take
  <2>3. u # Reconnected
    BY UpdateType
  <2>4. u \notin lost /\ u \notin Due(o) /\ v \in Due(o) /\ u.n <= sent[o]
    BY <1>0, <1>1, <2>1, <2>2, <2>3
  <2> QED
    BY <1>2, <2>4
<1>7. CASE RLock \/ RUnlock \/ Done \/ Exit
  <2>1. UNCHANGED <<wire, sent, lost>> /\ listener' # "rlock"
    BY <1>7 DEF RLock, RUnlock, Done, Exit
  <2>2. v \in Range(wire)
    BY <1>0, <2>1
  <2>3. CASE u = current
    BY <1>0, <2>2, <2>3 DEF WireState, Before
  <2>4. CASE u # current
    <3>1. u \notin lost /\ u \notin Due(o) /\ v \in Due(o) /\ u.n <= sent[o]
      BY <1>0, <1>1, <2>1, <2>2, <2>4
    <3> QED
      BY <1>2, <3>1
  <2> QED
    BY <2>3, <2>4
<1>8. CASE UNCHANGED <<wire, sent, lost, listener, current>>
  <2>1. u \notin lost /\ u \notin Due(o) /\ v \in Due(o) /\ u.n <= sent[o]
    BY <1>0, <1>1, <1>8
  <2> QED
    BY <1>2, <2>1
<1> QED
  BY <1>3, <1>4, <1>5, <1>6, <1>7, <1>8, WireKept

-----------------------------------------------------------------------------
(* What a stream has got, holds and will find *)

\* The updates of c, and those it held before the step.
Seen(c) == (Range(received[c]) \cup {inHand[c]} \cup Range(buffer[c])) \cap Updates

\* The oldest have been received, then comes the one in hand, then the buffer; and
\* they are all of the order the stream asked for.
Ordered(c) ==
    /\ InOrder(received[c]) /\ InOrder(buffer[c])
    /\ Before(Range(received[c]), {inHand[c]})
    /\ Before(Range(received[c]), Range(buffer[c]))
    /\ Before({inHand[c]}, Range(buffer[c]))
    /\ \A u \in Seen(c) : u.order = topic[c]

\* What is to come is newer.
Fresh(c) ==
    /\ \A u \in Seen(c) : u.n <= sent[u.order]
    /\ Before(Seen(c), Range(wire))
    /\ listener = "rlock" \/ c \in todo => Before(Seen(c), {current})

StreamState == \A c \in Streams : Ordered(c) /\ Fresh(c)

\* The six steps that move an update of a stream.
LEMMA Movers ==
    ASSUME TypeOK, [Next]_vars, NEW q \in Streams
    PROVE  /\ topic' = topic
           /\ \/ UNCHANGED <<received[q], inHand[q], buffer[q]>>
              \/ DeliverTo(q) \/ TakeEvent(q) \/ Send(q) \/ Leave(q) \/ Unsubscribe(q)
<1> USE Domains
<1>1. ASSUME NEW c \in Streams, c # q,
             DeliverTo(c) \/ TakeEvent(c) \/ Send(c) \/ Leave(c) \/ Unsubscribe(c)
      PROVE  topic' = topic /\ UNCHANGED <<received[q], inHand[q], buffer[q]>>
  BY <1>1 DEF DeliverTo, TakeEvent, Send, Leave, Unsubscribe
<1>2. topic' = topic
  BY DEF Next, Listening, Take, RLock, RUnlock, Done, Publish, LoseConnection, Reconnect, Open,
         Subscribe, TakeEvent, Send, Leave, Unsubscribe, Disconnect, DeliverTo, Stop, StopBus, Exit, vars
<1>3. \/ UNCHANGED <<received, inHand, buffer>>
      \/ \E c \in Streams : DeliverTo(c) \/ TakeEvent(c) \/ Send(c) \/ Leave(c) \/ Unsubscribe(c)
  BY DEF Next, Listening, Take, RLock, RUnlock, Done, Publish, LoseConnection, Reconnect, Open,
         Subscribe, Disconnect, Stop, StopBus, Exit, vars
<1> QED
  BY <1>1, <1>2, <1>3

\* What those steps do to the three places.
LEMMA DeliverEffect ==
    ASSUME TypeOK, BusState, StreamState, NEW q \in Streams, DeliverTo(q)
    PROVE  /\ current \in Updates /\ current.order = topic[q] /\ Before(Seen(q), {current})
           /\ UNCHANGED <<received, inHand>>
           /\ \/ current \in overflowed'[q] /\ buffer'[q] = buffer[q]
              \/ /\ Range(buffer'[q]) = Range(buffer[q]) \cup {current}
                 /\ InOrder(buffer'[q])
<1> USE Domains, ConstantsAssumption
<1>1. current \in Updates /\ q \in todo /\ current.order = topic[q]
  BY DEF BusState, NoSendOnClosed, DeliverTo
<1>2. Before(Seen(q), {current}) /\ InOrder(buffer[q])
  BY <1>1 DEF StreamState, Ordered, Fresh
<1>3. buffer[q] \in Seq(Updates) /\ Range(buffer[q]) \subseteq Updates /\ Len(buffer[q]) \in Nat
  BY RangeType, LenProperties
<1>4. Before(Range(buffer[q]), {current})
  BY <1>2, <1>3 DEF Before, Seen
<1>5. CASE Len(buffer[q]) < Capacity
  <2>1. buffer'[q] = Append(buffer[q], current)
    BY <1>5 DEF DeliverTo
  <2>2. Range(buffer'[q]) = Range(buffer[q]) \cup {current} /\ InOrder(buffer'[q])
    BY <1>1, <1>2, <1>3, <1>4, <2>1, RangeAppend
  <2> QED
    BY <1>1, <1>2, <2>2 DEF DeliverTo
<1>6. CASE ~(Len(buffer[q]) < Capacity)
  BY <1>1, <1>2, <1>3, <1>6 DEF DeliverTo, MeetsFull
<1> QED
  BY <1>5, <1>6

LEMMA TakeEffect ==
    ASSUME TypeOK, BusState, StreamState, NEW q \in Streams, TakeEvent(q)
    PROVE  /\ inHand[q] = Nothing /\ inHand'[q] \in Updates /\ received' = received
           /\ Range(buffer[q]) = {inHand'[q]} \cup Range(buffer'[q])
           /\ InOrder(buffer'[q]) /\ Before({inHand'[q]}, Range(buffer'[q]))
<1> USE Domains
<1>1. inHand[q] = Nothing /\ received' = received
  BY DEF TakeEvent, BusState, HandlerState
<1>2. inHand'[q] = Head(buffer[q]) /\ buffer'[q] = Tail(buffer[q]) /\ buffer[q] # <<>>
  BY DEF TakeEvent
<1>3. InOrder(buffer[q]) /\ buffer[q] \in Seq(Updates)
  BY DEF StreamState, Ordered
<1> QED
  BY <1>1, <1>2, <1>3, RangeTail

LEMMA SendEffect ==
    ASSUME TypeOK, BusState, StreamState, NEW q \in Streams, Send(q)
    PROVE  /\ inHand[q] \in Updates /\ inHand'[q] = Nothing /\ buffer' = buffer
           /\ Range(received'[q]) = Range(received[q]) \cup {inHand[q]}
           /\ InOrder(received'[q])
<1> USE Domains
<1>1. inHand[q] \in Updates
  BY DEF Send, BusState, HandlerState
<1>2. inHand'[q] = Nothing /\ received'[q] = Append(received[q], inHand[q]) /\ buffer' = buffer
  BY DEF Send
<1>3. InOrder(received[q]) /\ received[q] \in Seq(Updates) /\ Before(Range(received[q]), {inHand[q]})
  BY DEF StreamState, Ordered
<1> QED
  BY <1>1, <1>2, <1>3, RangeAppend

\* Only DeliverTo brings a stream something new.
LEMMA SeenStep ==
    ASSUME TypeOK, BusState, StreamState, [Next]_vars, NEW q \in Streams
    PROVE  /\ ~DeliverTo(q) => Seen(q)' \subseteq Seen(q)
           /\ DeliverTo(q) => Seen(q)' \subseteq Seen(q) \cup {current}
           /\ ~Leave(q) /\ ~Unsubscribe(q) => Seen(q) \subseteq Seen(q)'
<1> USE Domains DEF Seen
<1>0. Nothing \notin Updates
  BY UpdateType
<1>1. CASE DeliverTo(q)
  BY <1>1, DeliverEffect
<1>2. CASE TakeEvent(q)
  <2>1. Seen(q)' = Seen(q)
    BY <1>0, <1>2, TakeEffect
  <2> QED
    BY <1>1, <1>2, <2>1, DeliverEffect
<1>3. CASE Send(q)
  <2>1. Seen(q)' = Seen(q)
    BY <1>0, <1>3, SendEffect
  <2> QED
    BY <1>1, <2>1
<1>4. CASE Leave(q)
  <2>1. received' = received /\ buffer' = buffer /\ inHand'[q] = Nothing
    BY <1>4 DEF Leave
  <2> QED
    BY <1>0, <1>1, <1>4, <2>1
<1>5. CASE Unsubscribe(q)
  <2>1. received' = received /\ inHand' = inHand /\ buffer'[q] = <<>>
    BY <1>5 DEF Unsubscribe
  <2> QED
    BY <1>1, <1>5, <2>1, EmptyInOrder
<1>6. CASE UNCHANGED <<received[q], inHand[q], buffer[q]>>
  BY <1>6
<1> QED
  BY <1>1, <1>2, <1>3, <1>4, <1>5, <1>6, Movers

LEMMA OrderedStep ==
    ASSUME TypeOK, BusState, StreamState, [Next]_vars, NEW q \in Streams
    PROVE  Ordered(q)'
<1> USE Domains
<1>0. Ordered(q) /\ Nothing \notin Updates /\ topic' = topic
  BY UpdateType, Movers DEF StreamState
<1>1. CASE DeliverTo(q)
  <2>1. /\ current \in Updates /\ current.order = topic[q] /\ Before(Seen(q), {current})
        /\ UNCHANGED <<received, inHand>>
        /\ InOrder(buffer'[q]) /\ Range(buffer'[q]) \subseteq Range(buffer[q]) \cup {current}
    BY <1>0, <1>1, DeliverEffect DEF Ordered
  <2>2. Before(Range(received[q]), Range(buffer'[q])) /\ Before({inHand[q]}, Range(buffer'[q]))
    BY <1>0, <2>1 DEF Ordered, Before, Seen
  <2>3. \A u \in Seen(q)' : u.order = topic[q]
    BY <1>0, <2>1 DEF Ordered, Seen
  <2> QED
    BY <1>0, <2>1, <2>2, <2>3 DEF Ordered
<1>2. CASE TakeEvent(q)
  <2>1. Before(Range(received[q]), {inHand'[q]} \cup Range(buffer'[q]))
    BY <1>0, <1>2, TakeEffect DEF Ordered
  <2>2. Seen(q)' \subseteq Seen(q)
    BY <1>0, <1>2, TakeEffect DEF Seen
  <2> QED
    BY <1>0, <1>2, <2>1, <2>2, TakeEffect DEF Ordered, Before
<1>3. CASE Send(q)
  <2>1. Before(Range(received[q]) \cup {inHand[q]}, Range(buffer[q]))
    BY <1>0, <1>3 DEF Ordered, Before
  <2>2. Seen(q)' \subseteq Seen(q)
    BY <1>0, <1>3, SendEffect DEF Seen
  <2> QED
    BY <1>0, <1>3, <2>1, <2>2, SendEffect DEF Ordered, Before
<1>4. CASE Leave(q)
  <2>1. received' = received /\ buffer' = buffer /\ inHand'[q] = Nothing
    BY <1>4 DEF Leave
  <2> QED
    BY <1>0, <2>1 DEF Ordered, Before, Seen
<1>5. CASE Unsubscribe(q)
  <2>1. received' = received /\ inHand' = inHand /\ buffer'[q] = <<>>
    BY <1>5 DEF Unsubscribe
  <2> QED
    BY <1>0, <2>1, EmptyInOrder DEF Ordered, Before, Seen
<1>6. CASE UNCHANGED <<received[q], inHand[q], buffer[q]>>
  BY <1>0, <1>6 DEF Ordered, Seen
<1> QED
  BY <1>1, <1>2, <1>3, <1>4, <1>5, <1>6, Movers

LEMMA FreshStep ==
    ASSUME TypeOK, BusState, WireState, StreamState, [Next]_vars, NEW q \in Streams
    PROVE  Fresh(q)'
<1> USE Domains
<1>0. Ordered(q) /\ Fresh(q) /\ Nothing \notin Updates /\ Reconnected \notin Updates
  BY UpdateType DEF StreamState
<1>1. CASE DeliverTo(q)
  <2>1. /\ current \in Updates /\ Seen(q)' \subseteq Seen(q) \cup {current}
        /\ UNCHANGED <<sent, wire>> /\ listener' # "rlock" /\ q \notin todo'
    BY <1>1, DeliverEffect, SeenStep DEF DeliverTo
  <2>2. current.n <= sent[current.order] /\ Before({current}, Range(wire))
    BY <1>0, <2>1 DEF WireState
  <2> QED
    BY <1>0, <2>1, <2>2 DEF Fresh, Before
<1>2. ASSUME ~DeliverTo(q) PROVE Seen(q)' \subseteq Seen(q)
  BY <1>2, SeenStep
<1>3. ASSUME Seen(q)' \subseteq Seen(q), sent' = sent, Range(wire') \subseteq Range(wire),
             listener' = "rlock" \/ q \in todo' =>
                 current' \in Range(wire) \/ (current' = current /\ (listener = "rlock" \/ q \in todo))
      PROVE  Fresh(q)'
  BY <1>0, <1>3 DEF Fresh, Before
<1>4. ASSUME NEW o \in Orders, Publish(o) PROVE Fresh(q)'
  <2>1. PICK x \in Updates :
          /\ x = [order |-> o, n |-> sent[o] + 1]
          /\ sent' = [sent EXCEPT ![o] = @ + 1] /\ UNCHANGED <<listener, current>>
          /\ wire' = Append(wire, x) \/ wire' = wire
    BY <1>4, Published
  <2>2. Seen(q)' \subseteq Seen(q) /\ todo' = todo
    <3>1. todo' = todo /\ UNCHANGED <<received, inHand, buffer>>
      BY <1>4 DEF Publish
    <3> QED
      BY <3>1 DEF Seen
  <2>3. Range(wire') \subseteq Range(wire) \cup {x}
    <3>1. Range(Append(wire, x)) = Range(wire) \cup {x}
      BY WireAppend
    <3> QED
      BY <2>1, <3>1
  <2>4. \A u \in Updates : u.order \in Orders /\ u.n \in Nat
    BY UpdateType
  <2>5. \A u \in Seen(q) : u \in Updates /\ u.n <= sent[u.order]
    BY <1>0 DEF Fresh, Seen
  <2>6. \A u \in Seen(q) : u.n <= sent'[u.order]
    BY <2>1, <2>4, <2>5
  <2>7. Before(Seen(q), {x})
    <3>1. ASSUME NEW u \in Seen(q), u.order = o PROVE u.n < sent[o] + 1
      BY <2>4, <2>5, <3>1
    <3> QED
      BY <2>1, <3>1 DEF Before
  <2> QED
    BY <1>0, <2>1, <2>2, <2>3, <2>6, <2>7 DEF Fresh, Before
<1>5. CASE LoseConnection
  <2>1. PICK k \in 0 .. Len(wire) : wire' = SubSeq(wire, 1, k)
    BY <1>5 DEF LoseConnection
  <2>2. Range(wire') \subseteq Range(wire)
    BY <2>1, RangeCut
  <2>3. UNCHANGED <<sent, listener, current, todo, received, inHand, buffer>>
    BY <1>5 DEF LoseConnection
  <2> QED
    BY <1>3, <2>2, <2>3 DEF Seen
<1>6. CASE Reconnect
  <2>1. Range(wire') = Range(wire) \cup {Reconnected}
    BY <1>6, Reconnection
  <2>2. UNCHANGED <<sent, listener, current, todo, received, inHand, buffer>>
    BY <1>6 DEF Reconnect
  <2>3. Seen(q)' = Seen(q)
    BY <2>2 DEF Seen
  <2> QED
    BY <1>0, <2>1, <2>2, <2>3 DEF Fresh, Before
<1>7. CASE Take
  <2>1. Range(wire) = {Head(wire)} \cup Range(wire')
    BY <1>7, RangeTail DEF Take
  <2>2. /\ UNCHANGED <<sent, todo, received, inHand, buffer>> /\ todo = {}
        /\ listener' = "rlock" => current' = Head(wire)
    BY <1>7 DEF Take, BusState
  <2> QED
    BY <1>3, <2>1, <2>2 DEF Seen
<1>8. CASE RLock
  <2>1. UNCHANGED <<sent, wire, current, received, inHand, buffer>> /\ listener = "rlock"
    BY <1>8 DEF RLock
  <2> QED
    BY <1>3, <2>1 DEF Seen
<1>9. CASE RUnlock \/ Done \/ Exit
  <2>1. UNCHANGED <<sent, wire, received, inHand, buffer>> /\ listener' # "rlock" /\ todo' = {}
    BY <1>9 DEF RUnlock, Done, Exit, BusState
  <2> QED
    BY <1>3, <2>1 DEF Seen
<1>10. ASSUME NEW c \in Streams, DeliverTo(c), ~DeliverTo(q) PROVE Fresh(q)'
  <2>1. UNCHANGED <<sent, wire, current, listener>> /\ todo' \subseteq todo
    BY <1>10 DEF DeliverTo
  <2> QED
    BY <1>2, <1>3, <1>10, <2>1
<1>11. ASSUME UNCHANGED <<sent, wire, listen>>, ~DeliverTo(q) PROVE Fresh(q)'
  BY <1>2, <1>3, <1>11
<1>12. \/ \E o \in Orders : Publish(o)
       \/ LoseConnection \/ Reconnect \/ Take \/ RLock \/ RUnlock \/ Done \/ Exit
       \/ \E c \in Streams : DeliverTo(c)
       \/ UNCHANGED <<sent, wire, listen>>
  BY DEF Next, Listening, Open, Subscribe, TakeEvent, Send, Leave, Unsubscribe, Disconnect,
         Stop, StopBus, vars
<1> QED
  BY <1>1, <1>4, <1>5, <1>6, <1>7, <1>8, <1>9, <1>10, <1>11, <1>12

LEMMA StreamStep ==
    ASSUME TypeOK, BusState, WireState, StreamState, [Next]_vars
    PROVE  StreamState'
<1>1. topic' = topic
  BY DEF Next, Listening, Take, RLock, RUnlock, Done, Publish, LoseConnection, Reconnect, Open,
         Subscribe, TakeEvent, Send, Leave, Unsubscribe, Disconnect, DeliverTo, Stop, StopBus, Exit, vars
<1> QED
  BY OrderedStep, FreshStep DEF StreamState

-----------------------------------------------------------------------------
(* What a client gets is a sequence *)

Joined(u, s, t) == u = s \o t

LEMMA InOrderConcat ==
    ASSUME NEW s \in Seq(Updates), NEW t \in Seq(Updates), NEW u, Joined(u, s, t)
    PROVE  /\ u \in Seq(Updates) /\ Range(u) = Range(s) \cup Range(t)
           /\ InOrder(s) /\ InOrder(t) /\ Before(Range(s), Range(t)) => InOrder(u)
<1>0. u = s \o t
  BY DEF Joined
<1>1. u \in Seq(Updates) /\ Range(u) = Range(s) \cup Range(t)
  BY <1>0, ConcatProperties, RangeConcatenation
<1>2. /\ Len(s) \in Nat /\ Len(t) \in Nat /\ Len(u) = Len(s) + Len(t)
      /\ DOMAIN s = 1 .. Len(s) /\ DOMAIN t = 1 .. Len(t) /\ DOMAIN u = 1 .. Len(s) + Len(t)
      /\ \A i \in 1 .. Len(s) + Len(t) : u[i] = IF i <= Len(s) THEN s[i] ELSE t[i - Len(s)]
  BY <1>0, <1>1, ConcatProperties, LenProperties
<1>3. ASSUME InOrder(s), InOrder(t), Before(Range(s), Range(t)) PROVE InOrder(u)
  <2> SUFFICES ASSUME NEW i \in 1 .. Len(s) + Len(t), NEW j \in 1 .. Len(s) + Len(t), i < j,
                      u[i] \in Updates, u[j] \in Updates, u[i].order = u[j].order
               PROVE  u[i].n < u[j].n
    BY <1>2 DEF InOrder
  <2>1. CASE j <= Len(s)
    <3>1. i \in DOMAIN s /\ j \in DOMAIN s /\ u[i] = s[i] /\ u[j] = s[j]
      BY <1>2, <2>1
    <3> QED
      BY <1>3, <3>1 DEF InOrder
  <2>2. CASE i <= Len(s) /\ ~(j <= Len(s))
    <3>1. i \in DOMAIN s /\ j - Len(s) \in DOMAIN t /\ u[i] = s[i] /\ u[j] = t[j - Len(s)]
      BY <1>2, <2>2
    <3>2. u[i] \in Range(s) /\ u[j] \in Range(t)
      BY <3>1 DEF Range
    <3> QED
      BY <1>3, <3>2 DEF Before
  <2>3. CASE ~(i <= Len(s))
    <3>1. /\ i - Len(s) \in DOMAIN t /\ j - Len(s) \in DOMAIN t /\ i - Len(s) < j - Len(s)
          /\ u[i] = t[i - Len(s)] /\ u[j] = t[j - Len(s)]
      BY <1>2, <2>3
    <3> QED
      BY <1>3, <3>1 DEF InOrder
  <2> QED
    BY <1>2, <2>1, <2>2, <2>3
<1> QED
  BY <1>1, <1>3

LEMMA ViewInOrder ==
    ASSUME TypeOK, StreamState, NEW c \in Streams
    PROVE  View(c) \in Seq(Updates) /\ Range(View(c)) = Seen(c) /\ InOrder(View(c))
<1> USE Domains
<1> DEFINE m == IF inHand[c] = Nothing THEN <<>> ELSE <<inHand[c]>>
<1>0. Ordered(c) /\ Nothing \notin Updates
  BY UpdateType DEF StreamState
<1>1. m \in Seq(Updates) /\ Range(m) = {inHand[c]} \cap Updates /\ InOrder(m)
  <2>1. CASE inHand[c] = Nothing
    BY <1>0, <2>1, EmptyInOrder, EmptySeq
  <2>2. CASE inHand[c] # Nothing
    <3>1. inHand[c] \in Updates
      BY <2>2
    <3>2. Append(<<>>, inHand[c]) = m
      BY <2>2
    <3>3. <<>> \in Seq(Updates) /\ Before({}, {inHand[c]})
      BY EmptySeq DEF Before
    <3>4. Append(<<>>, inHand[c]) \in Seq(Updates)
      BY <3>1, <3>3, AppendProperties
    <3>5. Range(m) = {inHand[c]} /\ InOrder(m)
      BY <2>2 DEF Range, InOrder
    <3> QED
      BY <3>1, <3>2, <3>4, <3>5
  <2> QED
    BY <2>1, <2>2
<1> HIDE DEF m
<1>2. /\ received[c] \in Seq(Updates) /\ Range(received[c]) \subseteq Updates /\ InOrder(received[c])
      /\ buffer[c] \in Seq(Updates) /\ Range(buffer[c]) \subseteq Updates /\ InOrder(buffer[c])
  BY <1>0, RangeType DEF Ordered
<1>3. Before(Range(received[c]), Range(m))
  BY <1>0, <1>1 DEF Ordered, Before
<1> PICK r : Joined(r, received[c], m)
  BY DEF Joined
<1>4. r \in Seq(Updates) /\ Range(r) = Range(received[c]) \cup Range(m) /\ InOrder(r)
  <2>1. received[c] \in Seq(Updates) /\ m \in Seq(Updates)
    BY <1>1, <1>2
  <2>2. /\ r \in Seq(Updates) /\ Range(r) = Range(received[c]) \cup Range(m)
        /\ InOrder(received[c]) /\ InOrder(m) /\ Before(Range(received[c]), Range(m)) => InOrder(r)
    BY <2>1, InOrderConcat
  <2> QED
    BY <1>1, <1>2, <1>3, <2>2
<1>5. Joined(View(c), r, buffer[c])
  BY DEF View, Joined, m
<1>6. Before(Range(r), Range(buffer[c]))
  BY <1>0, <1>1, <1>4 DEF Ordered, Before
<1>7. View(c) \in Seq(Updates) /\ Range(View(c)) = Range(r) \cup Range(buffer[c]) /\ InOrder(View(c))
  <2>1. r \in Seq(Updates) /\ buffer[c] \in Seq(Updates)
    BY <1>2, <1>4
  <2>2. /\ View(c) \in Seq(Updates) /\ Range(View(c)) = Range(r) \cup Range(buffer[c])
        /\ InOrder(r) /\ InOrder(buffer[c]) /\ Before(Range(r), Range(buffer[c])) => InOrder(View(c))
    BY <1>5, <2>1, InOrderConcat
  <2> QED
    BY <1>2, <1>4, <1>6, <2>2
<1>8. Range(r) \cup Range(buffer[c]) = Seen(c)
  BY <1>1, <1>2, <1>4 DEF Seen
<1> QED
  BY <1>7, <1>8

LEMMA InOrderSeen ==
    ASSUME TypeOK, StreamState
    PROVE  UpdatesInOrder
<1> SUFFICES ASSUME NEW c \in Streams
             PROVE  /\ \A i \in DOMAIN View(c) : View(c)[i].order = topic[c]
                    /\ \A i, j \in DOMAIN View(c) : i < j => View(c)[i].n < View(c)[j].n
  BY DEF UpdatesInOrder
<1>1. Range(View(c)) = Seen(c) /\ InOrder(View(c)) /\ Ordered(c)
  BY ViewInOrder DEF StreamState
<1> DEFINE v == View(c)
<1> HIDE DEF v
<1>2. \A i \in DOMAIN v : v[i] \in Seen(c)
  BY <1>1 DEF Range, v
<1>3. \A i \in DOMAIN v : v[i] \in Updates /\ v[i].order = topic[c]
  BY <1>1, <1>2 DEF Ordered, Seen
<1> QED
  BY <1>1, <1>3 DEF InOrder, v

-----------------------------------------------------------------------------
(* What a client misses *)

MissedState ==
    \A c \in Streams : pc[c] \in {"select", "send"} =>
        \A u \in Served(c) : u \notin lost /\ u \notin Seen(c) => u \in overflowed[c]

\* A new subscriber is owed nothing yet: what is not lost and came before its
\* subscription has been handled, the rest is due.
LEMMA NewSubscriber ==
    ASSUME TypeOK, BusState, WireState, NoGaps, NEW o \in Orders, NEW u \in Updates,
           u.order = o, HandledUpTo(o) < u.n, u.n <= sent[o], u \notin lost
    PROVE  u \in Due(o)
<1> USE Domains
<1> SUFFICES ASSUME u \notin Due(o) PROVE FALSE
  OBVIOUS
<1>1. sent[o] \in Nat /\ u.n \in Nat /\ HandledUpTo(o) \in 0 .. sent[o]
  BY UpdateType, Handled
<1>2. CASE Due(o) = {}
  <2>1. HandledUpTo(o) = sent[o]
    BY <1>2, Handled
  <2> QED
    BY <1>1, <2>1
<1>3. CASE Due(o) # {}
  <2>1. [order |-> o, n |-> HandledUpTo(o) + 1] \in Due(o)
    BY <1>3, Handled
  <2>2. u.n < HandledUpTo(o) + 1
    BY <2>1 DEF NoGaps
  <2> QED
    BY <1>1, <2>2
<1> QED
  BY <1>2, <1>3

\* Steps that take nothing off what a stream may be owed.
Kept(c, u) ==
    /\ pc[c] \in {"select", "send"} /\ since[c] < u.n /\ u.n <= sent[topic[c]]
    /\ u \notin lost /\ u \notin Due(topic[c]) /\ ~(u = current /\ c \in todo)

LEMMA MissedStep ==
    ASSUME TypeOK, BusState, WireState, NoGaps, StreamState, MissedState, [Next]_vars, TypeOK', BusState'
    PROVE  MissedState'
<1> USE Domains, ConstantsAssumption
<1> SUFFICES ASSUME NEW c \in Streams, pc'[c] \in {"select", "send"}, NEW u, (u \in Served(c))',
                    u \notin lost', ~(u \in Seen(c))'
             PROVE  u \in overflowed'[c]
  BY DEF MissedState
<1>0. topic' = topic
  BY Movers
<1>1. /\ u \in Updates /\ u.order = topic[c] /\ topic[c] \in Orders
      /\ since'[c] < u.n /\ u.n <= sent'[topic[c]]
      /\ ~(u \in Due(topic[c]))' /\ ~(u = current' /\ c \in todo')
  <2>1. /\ u \in Updates /\ u.order = topic[c] /\ since'[c] < u.n /\ u.n <= sent'[topic[c]]
        /\ ~(u \in Due(topic[c]))' /\ ~(u = current' /\ c \in todo')
    BY <1>0 DEF Served
  <2> QED
    BY <2>1, UpdateType
<1>2. u \notin Range(wire)' /\ ~(listener' = "rlock" /\ u = current')
  BY <1>0, <1>1, DueMembersNext
<1>3. u \in Due(topic[c]) <=> u \in Range(wire) \/ (listener = "rlock" /\ u = current)
  BY <1>1, DueMembers
<1>4. Seen(c) \subseteq Seen(c)'
  <2>1. ~Leave(c) /\ ~Unsubscribe(c)
    BY DEF Leave, Unsubscribe, Goto
  <2> QED
    BY <2>1, SeenStep
<1>5. overflowed[c] \subseteq overflowed'[c]
  <2>1. ASSUME NEW d \in Streams, DeliverTo(d) PROVE overflowed[c] \subseteq overflowed'[c]
    BY <2>1 DEF DeliverTo, MeetsFull
  <2>2. (\E d \in Streams : DeliverTo(d)) \/ overflowed' = overflowed
    BY DEF Next, Listening, Take, RLock, RUnlock, Done, Publish, LoseConnection, Reconnect, Open,
         Subscribe, TakeEvent, Send, Leave, Unsubscribe, Disconnect, Stop, StopBus, Exit, vars
  <2> QED
    BY <2>1, <2>2
<1>6. ASSUME Kept(c, u) PROVE u \in overflowed'[c]
  <2>1. u \in Served(c) /\ pc[c] \in {"select", "send"} /\ u \notin lost
    BY <1>1, <1>6 DEF Served, Kept
  <2>2. u \notin Seen(c)
    BY <1>4
  <2> QED
    BY <1>5, <2>1, <2>2 DEF MissedState
<1>7. CASE Subscribe(c)
  <2>1. /\ since'[c] = HandledUpTo(topic[c]) /\ UNCHANGED <<sent, lost, wire, listener, current>>
    BY <1>7 DEF Subscribe
  <2>2. u \in Due(topic[c])
    BY <1>1, <2>1, NewSubscriber
  <2> QED
    BY <1>2, <1>3, <2>1, <2>2
<1>8. ASSUME ~Subscribe(c) PROVE pc[c] \in {"select", "send"} /\ since'[c] = since[c]
  BY <1>8 DEF Next, Listening, Take, RLock, RUnlock, Done, Publish, LoseConnection, Reconnect, Open,
       Subscribe, TakeEvent, Send, Leave, Unsubscribe, Disconnect, DeliverTo, Stop, StopBus, Exit, vars, Goto
<1>9. ASSUME NEW o \in Orders, Publish(o), ~Subscribe(c) PROVE Kept(c, u)
  <2>1. PICK x \in Updates :
          /\ x = [order |-> o, n |-> sent[o] + 1]
          /\ sent' = [sent EXCEPT ![o] = @ + 1] /\ UNCHANGED <<listener, current>>
          /\ (wire' = Append(wire, x) /\ lost' = lost) \/ (wire' = wire /\ lost' = lost \cup {x})
    BY <1>9, Published
  <2>2. \/ Range(wire') = Range(wire) \cup {x} /\ lost' = lost
        \/ wire' = wire /\ lost' = lost \cup {x}
    <3>1. Range(Append(wire, x)) = Range(wire) \cup {x}
      BY WireAppend
    <3> QED
      BY <2>1, <3>1
  <2>3. u # x /\ u \notin lost /\ u \notin Due(topic[c]) /\ todo' = todo
    BY <1>2, <1>3, <1>9, <2>1, <2>2 DEF Publish
  <2>4. u = [order |-> topic[c], n |-> u.n] /\ u.n \in Nat
    BY <1>1, UpdateType
  <2>5. u.n <= sent[topic[c]]
    <3>1. topic[c] = o => u.n # sent[o] + 1
      BY <2>1, <2>3, <2>4
    <3> QED
      BY <1>1, <2>1, <2>4, <3>1
  <2> QED
    BY <1>1, <1>8, <1>9, <2>1, <2>3, <2>5 DEF Kept
<1>10. ASSUME ~Subscribe(c), UNCHANGED <<sent, wire, listener, current>>, lost' = lost,
              ~(u = current /\ c \in todo)
       PROVE  Kept(c, u)
  BY <1>1, <1>2, <1>3, <1>8, <1>10 DEF Kept
<1>11. CASE LoseConnection
  <2>1. PICK k \in 0 .. Len(wire) :
          /\ wire' = SubSeq(wire, 1, k)
          /\ lost' = lost \cup (Range(SubSeq(wire, k + 1, Len(wire))) \ {Reconnected})
    BY <1>11 DEF LoseConnection
  <2>2. Range(wire) = Range(wire') \cup Range(SubSeq(wire, k + 1, Len(wire)))
    BY <2>1, RangeCut
  <2>3. UNCHANGED <<sent, listener, current, todo, since, pc>>
    BY <1>11 DEF LoseConnection
  <2>4. u # Reconnected
    BY <1>1, UpdateType
  <2> QED
    BY <2>4, <1>1, <1>2, <1>3, <1>6, <2>1, <2>2, <2>3 DEF Kept
<1>12. CASE Reconnect
  <2>1. Range(wire') = Range(wire) \cup {Reconnected}
    BY <1>12, Reconnection
  <2>2. UNCHANGED <<sent, lost, listener, current, todo, since, pc>>
    BY <1>12 DEF Reconnect
  <2> QED
    BY <1>1, <1>2, <1>3, <1>6, <2>1, <2>2 DEF Kept
<1>13. CASE Take
  <2>1. Range(wire) = {Head(wire)} \cup Range(wire')
    BY <1>13, RangeTail DEF Take
  <2>2. /\ UNCHANGED <<sent, lost, since, pc>> /\ todo = {} /\ listener = "idle"
        /\ Head(wire) = Reconnected \/ (listener' = "rlock" /\ current' = Head(wire))
    BY <1>13 DEF Take, BusState
  <2>3. u # Reconnected
    BY <1>1, UpdateType
  <2> QED
    BY <1>1, <1>2, <1>3, <1>6, <2>1, <2>2, <2>3 DEF Kept
<1>14. CASE RLock
  <2>1. /\ UNCHANGED <<sent, lost, wire, current, since, pc>> /\ listener = "rlock"
        /\ todo' = subscribers[current.order] /\ todo = {}
    BY <1>14 DEF RLock, BusState
  <2>2. u # current
    <3>1. c \in subscribers[topic[c]]
      BY <1>1, <2>1 DEF BusState, NoLeakedSubscriber, Subscribed
    <3> QED
      BY <1>1, <2>1, <3>1
  <2> QED
    BY <1>1, <1>2, <1>3, <1>6, <2>1, <2>2 DEF Kept
<1>15. CASE RUnlock \/ Done
  <2>1. UNCHANGED <<sent, lost, wire, since, pc>> /\ listener # "rlock" /\ todo = {}
    BY <1>15 DEF RUnlock, Done, BusState
  <2> QED
    BY <1>1, <1>2, <1>3, <1>6, <2>1 DEF Kept
<1>16. CASE Exit
  BY <1>16 DEF Exit, BusState
<1>17. ASSUME DeliverTo(c), u = current PROVE u \in overflowed'[c]
  <2>1. u \notin Range(buffer'[c])
    BY <1>1 DEF Seen
  <2> QED
    BY <1>17, <2>1, DeliverEffect
<1>18. ASSUME NEW d \in Streams, DeliverTo(d), ~(DeliverTo(c) /\ u = current) PROVE Kept(c, u)
  <2>1. /\ UNCHANGED <<sent, lost, wire, listener, current, pc>>
        /\ todo' = todo \ {d} /\ d \in todo
    BY <1>18 DEF DeliverTo
  <2>2. ~Subscribe(c)
    BY <2>1 DEF Subscribe, Goto
  <2> QED
    BY <1>1, <1>10, <1>18, <2>1, <2>2
<1>19. ASSUME UNCHANGED <<sent, wire, lost, listen>>, ~Subscribe(c) PROVE Kept(c, u)
  BY <1>1, <1>10, <1>19
<1>20. \/ \E o \in Orders : Publish(o)
       \/ LoseConnection \/ Reconnect \/ Take \/ RLock \/ RUnlock \/ Done \/ Exit
       \/ \E d \in Streams : DeliverTo(d)
       \/ UNCHANGED <<sent, wire, lost, listen>>
  BY DEF Next, Listening, Open, Subscribe, TakeEvent, Send, Leave, Unsubscribe, Disconnect,
         Stop, StopBus, vars
<1> QED
  BY <1>6, <1>7, <1>9, <1>11, <1>12, <1>13, <1>14, <1>15, <1>16, <1>17, <1>18, <1>19, <1>20

-----------------------------------------------------------------------------
(* The inductive invariant and what follows from it *)

IInv ==
    /\ TypeOK
    /\ BusState
    /\ WireState
    /\ NoGaps
    /\ StreamState
    /\ MissedState

LEMMA IInvInit == Init => IInv
<1> SUFFICES ASSUME Init PROVE IInv
  OBVIOUS
<1>1. TypeOK
  BY TypeInit
<1>2. BusState
  BY DEF Init, BusState, HandlerState, Subscribed, NoSendOnClosed, NoLeakedSubscriber
<1>3. WireState
  BY EmptyInOrder DEF Init, WireState, Before
<1>4. NoGaps
  BY EmptyInOrder DEF Init, NoGaps, Due
<1>5. StreamState
  <2> SUFFICES ASSUME NEW c \in Streams PROVE Ordered(c) /\ Fresh(c)
    BY DEF StreamState
  <2>1. received[c] = <<>> /\ buffer[c] = <<>> /\ inHand[c] = Nothing /\ wire = <<>>
    BY DEF Init
  <2>2. Seen(c) = {}
    BY <2>1, EmptyInOrder, UpdateType DEF Seen
  <2> QED
    BY <2>1, <2>2, EmptyInOrder DEF Ordered, Fresh, Before
<1>6. MissedState
  BY DEF Init, MissedState
<1> QED
  BY <1>1, <1>2, <1>3, <1>4, <1>5, <1>6 DEF IInv

LEMMA IInvStep == IInv /\ [Next]_vars => IInv'
<1> SUFFICES ASSUME IInv, [Next]_vars PROVE IInv'
  OBVIOUS
<1>1. TypeOK /\ BusState /\ WireState /\ NoGaps /\ StreamState /\ MissedState
  BY DEF IInv
<1>2. TypeOK' /\ BusState' /\ WireState' /\ StreamState'
  BY <1>1, TypeStep, BusStep, WireStep, StreamStep
<1>3. NoGaps'
  BY <1>1, <1>2, GapStep
<1>4. MissedState'
  BY <1>1, <1>2, MissedStep
<1> QED
  BY <1>2, <1>3, <1>4 DEF IInv

LEMMA Invariance == Spec => []IInv
BY IInvInit, IInvStep, PTL DEF Spec

\* What MissedState says, in terms of what the client has got or will find.
LEMMA MissedOverflow ==
    ASSUME IInv
    PROVE  OnlyOverflowLoses
<1> SUFFICES ASSUME NEW c \in Streams, pc[c] \in {"select", "send"},
                    NEW u \in Served(c) \ (lost \cup Range(View(c)))
             PROVE  u \in overflowed[c]
  BY DEF OnlyOverflowLoses
<1>1. Range(View(c)) = Seen(c)
  BY ViewInOrder DEF IInv
<1> QED
  BY <1>1 DEF IInv, MissedState

\* Every variable keeps its type: no buffer exceeds its capacity.
THEOREM TypeInvariant == Spec => []TypeOK
<1>1. IInv => TypeOK
  BY DEF IInv
<1> QED
  BY <1>1, Invariance, PTL

\* listen sends to open channels only, however streams come and go (Subscribe,
\* Unsubscribe and listen under mu).
THEOREM SendsAreSafe == Spec => []NoSendOnClosed
<1>1. IInv => NoSendOnClosed
  BY DEF IInv, BusState
<1> QED
  BY <1>1, Invariance, PTL

\* The map of subscribers holds the channels of the live streams and no other.
THEOREM NothingLeaks == Spec => []NoLeakedSubscriber
<1>1. IInv => NoLeakedSubscriber
  BY DEF IInv, BusState
<1> QED
  BY <1>1, Invariance, PTL

\* A client gets the updates of its order in the order of their notifications, none
\* twice, through losses of the connection and overflows of its channel.
THEOREM InOrderDelivery == Spec => []UpdatesInOrder
<1>1. IInv => UpdatesInOrder
  BY InOrderSeen DEF IInv
<1> QED
  BY <1>1, Invariance, PTL

\* A subscriber misses what was notified while the connection was down, and what came
\* at a moment when its channel was full; nothing else, however streams come and go.
THEOREM LossesAreOverflows == Spec => []OnlyOverflowLoses
<1>1. IInv => OnlyOverflowLoses
  BY MissedOverflow
<1> QED
  BY <1>1, Invariance, PTL

=============================================================================
