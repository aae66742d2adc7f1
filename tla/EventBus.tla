------------------------------ MODULE EventBus ------------------------------
(***************************************************************************)
(* Order updates on their way to streaming clients (order-service:         *)
(* repository/event_bus.go, transport/grpc/server.go, main.go): the        *)
(* goroutine listen takes notifications off the LISTEN connection and puts *)
(* each into the channels of the order's subscribers under an RWMutex; one *)
(* goroutine per streaming RPC subscribes, forwards what its channel holds *)
(* and unsubscribes; main stops the gRPC server and then the bus.          *)
(*                                                                         *)
(* The n-th NOTIFY about an order is the update [order, n].  A critical    *)
(* section under mu.Lock() is one step; the one under mu.RLock() lasts     *)
(* from RLock to RUnlock, one channel at a time.  A channel is named by    *)
(* the stream that made it.                                                *)
(***************************************************************************)
EXTENDS Naturals, Sequences, FiniteSets, Functions

CONSTANTS
    Streams,       \* the calls of SubscribeToOrderUpdates
    Orders,        \* order identifiers
    NoOrder,       \* order_id is empty
    MaxUpdates,    \* MaxUpdates[o]: bound on the updates of order o
    Capacity,      \* of a subscriber's channel; 10 in the code
    Nothing,       \* no update
    Reconnected,   \* the nil notification pq sends after a reconnect
    MaxReconnects, \* bound on the reconnects listen has still to see
    Environment    \* which of "connection" and "stop" may happen

ASSUME ConstantsAssumption ==
    /\ NoOrder \notin Orders
    /\ MaxUpdates \in [Orders -> Nat]
    /\ Capacity \in Nat \ {0}
    /\ MaxReconnects \in Nat
    /\ Nothing # Reconnected
    /\ Environment \subseteq {"connection", "stop"}

Updates == UNION {[order : {o}, n : 1 .. MaxUpdates[o]] : o \in Orders}

ASSUME NotUpdates == {Nothing, Reconnected} \cap Updates = {}

VARIABLES
    topic,        \* topic[c]: the order_id client c asks for
    pc,           \* pc[c]: the next step of stream c
    gone,         \* gone[c]: stream.Context() is done
    buffer,       \* buffer[c]: what the channel of c holds
    inHand,       \* inHand[c]: the event c has taken off it and not yet sent
    received,     \* received[c]: what client c has got
    since,        \* since[c]: updates listen was done with when c subscribed
    subscribers,  \* PgEventBus.subscribers
    sent,         \* sent[o]: updates of o notified so far
    wire,         \* listener.Notify
    connected,    \* the LISTEN connection is up
    lost,         \* updates that were notified and never reached the listener
    listener,     \* control of listen
    current,      \* the event listen handles
    todo,         \* the subscribers it has still to give it to
    overflowed,   \* overflowed[c]: the updates that found the channel of c full
    service       \* main: "running", "draining", "closing" or "exited"

stream == <<pc, gone, buffer, inHand, received, since>>
postgres == <<sent, wire, connected, lost>>
listen == <<listener, current, todo, overflowed>>
vars == <<topic, stream, subscribers, postgres, listen, service>>

TypeOK ==
    /\ topic \in [Streams -> Orders \cup {NoOrder}]
    /\ pc \in [Streams -> {"idle", "subscribe", "select", "send", "unsubscribe", "ended"}]
    /\ gone \in [Streams -> BOOLEAN]
    /\ buffer \in [Streams -> Seq(Updates)] /\ \A c \in Streams : Len(buffer[c]) <= Capacity
    /\ inHand \in [Streams -> Updates \cup {Nothing}]
    /\ received \in [Streams -> Seq(Updates)]
    /\ since \in [Streams -> Nat]
    /\ subscribers \in [Orders -> SUBSET Streams]
    /\ sent \in [Orders -> Nat] /\ \A o \in Orders : sent[o] <= MaxUpdates[o]
    /\ wire \in Seq(Updates \cup {Reconnected})
    /\ connected \in BOOLEAN
    /\ lost \in SUBSET Updates
    /\ listener \in {"idle", "rlock", "deliver", "exited"}
    /\ current \in Updates \cup {Nothing}
    /\ todo \in SUBSET Streams
    /\ overflowed \in [Streams -> SUBSET Updates]
    /\ service \in {"running", "draining", "closing", "exited"}

Init ==
    /\ topic \in [Streams -> Orders \cup {NoOrder}]
    /\ pc = [c \in Streams |-> "idle"]
    /\ gone = [c \in Streams |-> FALSE]
    /\ buffer = [c \in Streams |-> <<>>]
    /\ inHand = [c \in Streams |-> Nothing]
    /\ received = [c \in Streams |-> <<>>]
    /\ since = [c \in Streams |-> 0]
    /\ subscribers = [o \in Orders |-> {}]
    /\ sent = [o \in Orders |-> 0]
    /\ wire = <<>> /\ connected = TRUE /\ lost = {}
    /\ listener = "idle" /\ current = Nothing /\ todo = {}
    /\ overflowed = [c \in Streams |-> {}]
    /\ service = "running"

Goto(c, step) == pc' = [pc EXCEPT ![c] = step]

\* mu is free for a writer: listen does not hold it for reading.
CanLock == listener # "deliver"

-----------------------------------------------------------------------------
(* Postgres and the LISTEN connection *)

\* A request of the service sends NOTIFY (postgres_order.go, UpdateStatus).  Only
\* a connected listener gets it.
Publish(o) ==
    /\ service # "exited" /\ sent[o] < MaxUpdates[o]
    /\ sent' = [sent EXCEPT ![o] = @ + 1]
    /\ LET u == [order |-> o, n |-> sent[o] + 1] IN
        IF connected THEN wire' = Append(wire, u) /\ UNCHANGED lost
                     ELSE lost' = lost \cup {u} /\ UNCHANGED wire
    /\ UNCHANGED <<topic, stream, subscribers, connected, listen, service>>

\* The connection breaks: what is not yet in the listener's channel is lost.
\* (Bound: MaxReconnects.)
LoseConnection ==
    /\ "connection" \in Environment
    /\ connected /\ Cardinality({i \in DOMAIN wire : wire[i] = Reconnected}) < MaxReconnects
    /\ connected' = FALSE
    /\ \E k \in 0 .. Len(wire) :
        /\ wire' = SubSeq(wire, 1, k)
        /\ lost' = lost \cup (Range(SubSeq(wire, k + 1, Len(wire))) \ {Reconnected})
    /\ UNCHANGED <<topic, stream, subscribers, sent, listen, service>>

\* pq reconnects, listens again and says so with a nil notification.
Reconnect ==
    /\ ~connected /\ service \in {"running", "draining"}
    /\ connected' = TRUE
    /\ wire' = Append(wire, Reconnected)
    /\ UNCHANGED <<topic, stream, subscribers, sent, lost, listen, service>>

-----------------------------------------------------------------------------
(* PgEventBus.listen *)

\* A nil notification is skipped.
Take ==
    /\ listener = "idle" /\ wire # <<>>
    /\ wire' = Tail(wire)
    /\ IF Head(wire) = Reconnected
         THEN UNCHANGED <<listener, current>>
         ELSE listener' = "rlock" /\ current' = Head(wire)
    /\ UNCHANGED <<topic, stream, subscribers, sent, connected, lost, todo, overflowed, service>>

\* Mutant: one slice of subscribers for all orders.
RLockAll ==
    /\ listener = "rlock"
    /\ listener' = "deliver"
    /\ todo' = UNION {subscribers[o] : o \in Orders}
    /\ UNCHANGED <<topic, stream, subscribers, postgres, current, overflowed, service>>

\* mu.RLock(), and the slice of subscribers is read.
RLock ==
    /\ listener = "rlock"
    /\ listener' = "deliver"
    /\ todo' = subscribers[current.order]
    /\ UNCHANGED <<topic, stream, subscribers, postgres, current, overflowed, service>>

\* (What is recorded of it: whether the event comes when the channel is full.)
MeetsFull(c) ==
    overflowed' = [overflowed EXCEPT ![c] = IF Len(buffer[c]) < Capacity THEN @ ELSE @ \cup {current}]

\* Mutant: one event more than the channel holds.
OverfullSend(c) ==
    /\ listener = "deliver" /\ c \in todo
    /\ buffer' = [buffer EXCEPT ![c] = IF Len(@) <= Capacity THEN Append(@, current) ELSE @]
    /\ todo' = todo \ {c}
    /\ MeetsFull(c)
    /\ UNCHANGED <<topic, pc, gone, inHand, received, since, subscribers, postgres, listener, current, service>>

\* Mutant: a send without the default case.
BlockingSend(c) ==
    /\ listener = "deliver" /\ c \in todo
    /\ Len(buffer[c]) < Capacity
    /\ buffer' = [buffer EXCEPT ![c] = Append(@, current)]
    /\ todo' = todo \ {c}
    /\ MeetsFull(c)
    /\ UNCHANGED <<topic, pc, gone, inHand, received, since, subscribers, postgres, listener, current, service>>

\* Mutant: a full channel makes room by dropping its oldest event.
DropOldest(c) ==
    /\ listener = "deliver" /\ c \in todo
    /\ buffer' = [buffer EXCEPT ![c] =
                    IF Len(@) < Capacity THEN Append(@, current) ELSE Append(Tail(@), current)]
    /\ todo' = todo \ {c}
    /\ MeetsFull(c)
    /\ UNCHANGED <<topic, pc, gone, inHand, received, since, subscribers, postgres, listener, current, service>>

\* select with default: a full channel loses the event.
DeliverTo(c) ==
    /\ listener = "deliver" /\ c \in todo
    /\ buffer' = [buffer EXCEPT ![c] = IF Len(@) < Capacity THEN Append(@, current) ELSE @]
    /\ todo' = todo \ {c}
    /\ MeetsFull(c)
    /\ UNCHANGED <<topic, pc, gone, inHand, received, since, subscribers, postgres, listener, current, service>>

RUnlock ==
    /\ listener = "deliver" /\ todo = {}
    /\ listener' = "idle" /\ current' = Nothing
    /\ UNCHANGED <<topic, stream, subscribers, postgres, todo, overflowed, service>>

\* case <-eb.done
Done ==
    /\ listener = "idle" /\ service = "closing"
    /\ listener' = "exited"
    /\ UNCHANGED <<topic, stream, subscribers, postgres, current, todo, overflowed, service>>

-----------------------------------------------------------------------------
(* SubscribeToOrderUpdates *)

\* A call without order_id is refused; GracefulStop refuses every new one.
Open(c) ==
    /\ pc[c] = "idle" /\ service = "running"
    /\ Goto(c, IF topic[c] = NoOrder THEN "ended" ELSE "subscribe")
    /\ UNCHANGED <<topic, gone, buffer, inHand, received, since, subscribers, postgres, listen, service>>

\* Updates of o that listen has still to look the subscribers up for, and how
\* many it is done with.
Due(o) == {u \in Range(wire) \cup (IF listener = "rlock" THEN {current} ELSE {}) :
              u # Reconnected /\ u.order = o}
HandledUpTo(o) ==
    CHOOSE k \in 0 .. sent[o] :
        IF Due(o) = {} THEN k = sent[o]
        ELSE [order |-> o, n |-> k + 1] \in Due(o) /\ \A u \in Due(o) : k < u.n

\* PgEventBus.Subscribe
Subscribe(c) ==
    /\ pc[c] = "subscribe" /\ CanLock
    /\ subscribers' = [subscribers EXCEPT ![topic[c]] = @ \cup {c}]
    /\ since' = [since EXCEPT ![c] = HandledUpTo(topic[c])]
    /\ Goto(c, "select")
    /\ UNCHANGED <<topic, gone, buffer, inHand, received, postgres, listen, service>>

\* case event := <-eventCh.  (The case of a closed channel is never taken: only
\* the handler itself closes it, as it returns.)
TakeEvent(c) ==
    /\ pc[c] = "select" /\ buffer[c] # <<>>
    /\ inHand' = [inHand EXCEPT ![c] = Head(buffer[c])]
    /\ buffer' = [buffer EXCEPT ![c] = Tail(@)]
    /\ Goto(c, "send")
    /\ UNCHANGED <<topic, gone, received, since, subscribers, postgres, listen, service>>

\* stream.Send returns once the client has room for the message, and the client
\* receives it.
Send(c) ==
    /\ pc[c] = "send" /\ ~gone[c]
    /\ received' = [received EXCEPT ![c] = Append(@, inHand[c])]
    /\ inHand' = [inHand EXCEPT ![c] = Nothing]
    /\ Goto(c, "select")
    /\ UNCHANGED <<topic, gone, buffer, since, subscribers, postgres, listen, service>>

\* Mutant: the loop without its case <-stream.Context().Done().
LeaveOnSendErrorOnly(c) ==
    /\ gone[c] /\ pc[c] = "send"
    /\ inHand' = [inHand EXCEPT ![c] = Nothing]
    /\ Goto(c, "unsubscribe")
    /\ UNCHANGED <<topic, gone, buffer, received, since, subscribers, postgres, listen, service>>

\* Mutant: no defer, Unsubscribe is forgotten after a failed Send.
LeaveWithoutUnsubscribe(c) ==
    /\ gone[c] /\ pc[c] \in {"select", "send"}
    /\ inHand' = [inHand EXCEPT ![c] = Nothing]
    /\ Goto(c, IF pc[c] = "send" THEN "ended" ELSE "unsubscribe")
    /\ UNCHANGED <<topic, gone, buffer, received, since, subscribers, postgres, listen, service>>

\* The context is done: select may choose that case, a blocked Send fails.
Leave(c) ==
    /\ gone[c] /\ pc[c] \in {"select", "send"}
    /\ inHand' = [inHand EXCEPT ![c] = Nothing]
    /\ Goto(c, "unsubscribe")
    /\ UNCHANGED <<topic, gone, buffer, received, since, subscribers, postgres, listen, service>>

\* Mutant: Unsubscribe without mu.Lock().
UnsubscribeUnlocked(c) ==
    /\ pc[c] = "unsubscribe"
    /\ subscribers' = [subscribers EXCEPT ![topic[c]] = @ \ {c}]
    /\ buffer' = [buffer EXCEPT ![c] = <<>>]
    /\ Goto(c, "ended")
    /\ UNCHANGED <<topic, gone, inHand, received, since, postgres, listen, service>>

\* The deferred PgEventBus.Unsubscribe: the channel leaves the map and is closed.
Unsubscribe(c) ==
    /\ pc[c] = "unsubscribe" /\ CanLock
    /\ subscribers' = [subscribers EXCEPT ![topic[c]] = @ \ {c}]
    /\ buffer' = [buffer EXCEPT ![c] = <<>>]
    /\ Goto(c, "ended")
    /\ UNCHANGED <<topic, gone, inHand, received, since, postgres, listen, service>>

\* The client goes away (Ctrl+C), or its connection breaks.
Disconnect(c) ==
    /\ pc[c] \in {"subscribe", "select", "send"} /\ ~gone[c]
    /\ gone' = [gone EXCEPT ![c] = TRUE]
    /\ UNCHANGED <<topic, pc, buffer, inHand, received, since, subscribers, postgres, listen, service>>

-----------------------------------------------------------------------------
(* main *)

\* SIGTERM or SIGINT: grpcSrv.GracefulStop begins.
Stop ==
    /\ "stop" \in Environment
    /\ service = "running" /\ service' = "draining"
    /\ UNCHANGED <<topic, stream, subscribers, postgres, listen>>

\* GracefulStop has seen every stream end, main returns, and the deferred
\* eventBus.Stop closes done and the listener.
StopBus ==
    /\ service = "draining"
    /\ \A c \in Streams : pc[c] \in {"idle", "ended"}
    /\ service' = "closing"
    /\ connected' = FALSE
    /\ UNCHANGED <<topic, stream, subscribers, sent, wire, lost, listen>>

\* The other deferred calls, and the process ends.
Exit ==
    /\ service = "closing" /\ service' = "exited"
    /\ listener' = "exited" /\ current' = Nothing /\ todo' = {}
    /\ UNCHANGED <<topic, stream, subscribers, postgres, overflowed>>

-----------------------------------------------------------------------------

Listening ==
    \/ Take
    \/ RLock
    \/ \E c \in Streams : DeliverTo(c)
    \/ RUnlock
    \/ Done

Next ==
    \/ \E o \in Orders : Publish(o)
    \/ LoseConnection
    \/ Reconnect
    \/ Listening
    \/ \E c \in Streams :
        \/ Open(c)
        \/ Subscribe(c)
        \/ TakeEvent(c)
        \/ Send(c)
        \/ Leave(c)
        \/ Unsubscribe(c)
        \/ Disconnect(c)
    \/ Stop
    \/ StopBus
    \/ Exit

Spec == Init /\ [][Next]_vars

\* Goroutines that can run do, and the RWMutex starves neither side.  Nothing
\* makes a client read, leave or connect, an order change or a signal come.
Fairness ==
    /\ WF_vars(Listening)
    /\ \A c \in Streams : WF_vars(Subscribe(c)) /\ WF_vars(Leave(c)) /\ WF_vars(Unsubscribe(c))
    /\ WF_vars(StopBus) /\ WF_vars(Exit)

FairSpec == Spec /\ Fairness

-----------------------------------------------------------------------------
(* Properties *)

Subscribed(c) == pc[c] \in {"select", "send", "unsubscribe"}

\* listen never sends on a closed channel, which would panic and end the process:
\* what it has still to serve is a subset of the live subscribers, although streams
\* come and go while it works (Unsubscribe closes under the same mutex).
NoSendOnClosed ==
    listener = "deliver" => todo \subseteq {c \in Streams : Subscribed(c) /\ topic[c] = current.order}

\* No channel is leaked: the map holds those of the live streams, each under its
\* own order, and nothing after they end, on whatever way.
NoLeakedSubscriber ==
    \A o \in Orders : subscribers[o] = {c \in Streams : Subscribed(c) /\ topic[c] = o}

\* All c has got or will find, oldest first.
View(c) ==
    received[c] \o (IF inHand[c] = Nothing THEN <<>> ELSE <<inHand[c]>>) \o buffer[c]

\* A client sees updates of its own order only, each at most once, in the order of
\* the notifications -- with gaps, but never a step back.
UpdatesInOrder ==
    \A c \in Streams :
        /\ \A i \in DOMAIN View(c) : View(c)[i].order = topic[c]
        /\ \A i, j \in DOMAIN View(c) : i < j => View(c)[i].n < View(c)[j].n

\* Updates of its order that listen has served everybody or given to c already.
Served(c) ==
    {u \in Updates :
        /\ u.order = topic[c] /\ since[c] < u.n /\ u.n <= sent[topic[c]]
        /\ u \notin Due(topic[c]) /\ ~(u = current /\ c \in todo)}

\* A subscriber misses an update for two reasons only: the LISTEN connection was
\* down, or its channel was full at the moment that very update came.  An update
\* that was put into the channel stays there until the client's stream takes it.
OnlyOverflowLoses ==
    \A c \in Streams : pc[c] \in {"select", "send"} =>
        Served(c) \ (lost \cup Range(View(c))) \subseteq overflowed[c]

\* No subscriber holds up the others: the bus always gets through with what was
\* notified, although nothing makes any client read, however often the connection
\* breaks and comes back.
ListenKeepsUp ==
    []<>(\/ Range(wire) \subseteq {Reconnected} /\ listener \in {"idle", "exited"}
         \/ service = "exited")

\* The shutdown waits for streaming clients only: once those that are connected
\* have left, the process ends.  While one stays it does not, for as long as the
\* client likes: GracefulStop ends no stream.
ShutdownNeedsClientsOnly ==
    service = "draining" ~> \/ service = "exited"
                            \/ \E c \in Streams : pc[c] \in {"select", "send"} /\ ~gone[c]

=============================================================================
