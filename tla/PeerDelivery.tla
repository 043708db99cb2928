---------------------------- MODULE PeerDelivery ----------------------------
(***************************************************************************)
(* The sending side of one peer: SessionRouter (router/index.ts) queues    *)
(* control responses and ROS samples, flush() hands them to the data       *)
(* channels, and WebRtcEndpoint (transport/endpoint.ts) refuses what a     *)
(* channel's transport buffer cannot take until the low-water event.       *)
(*                                                                         *)
(* The session is one record, so that the handlers, which end in flush(),  *)
(* are compositions of functions of it.                                    *)
(***************************************************************************)
EXTENDS DeliveryQueue, SequencesExt

CONSTANTS
  Streams,        \* stream identifiers subscribe may draw, never reused
  Latest,         \* those of a binding with queue policy latest
  Realtime,       \* those of a binding with delivery realtime
  MaxControl,     \* limits.maxRequests: messages the control stream may hold
  MaxMessages,    \* queue.maxMessages of the reliable bindings
  MaxBuffered,    \* limits.maxChannelBufferedBytes
  MaxSamples,     \* bound of the model: stream -> samples numbered
  MaxResponses    \* bound of the model: control messages after which nothing is requested

ASSUME DeliveryAssumption ==
  /\ IsFiniteSet(Streams)
  /\ Latest \subseteq Streams
  /\ Realtime \subseteq Streams
  /\ "control" \notin Streams
  /\ MaxBuffered \in Nat
  /\ MaxMessageBytes <= MaxBuffered
  /\ {MaxControl, MaxMessages} \subseteq Nat \ {0}

VARIABLES
  session,   \* the router's delivery state and the transport buffers
  denied     \* streams whose topic the authorize hook no longer permits

deliveryVars == <<session, denied>>

Ids == Streams \cup {"control"}
Channels == {"control", "reliable", "realtime"}

ChannelOf(i) ==
  IF i = "control" THEN "control" ELSE IF i \in Realtime THEN "realtime" ELSE "reliable"

Sizes == 1 .. MaxMessageBytes

InitialSession ==
  [queue |-> register(EmptyQueue, "control", "reliable", MaxControl),
   order |-> <<>>,                          \* this.subscriptions, in Map order
   ready |-> {},
   next |-> [i \in Ids |-> 0],              \* next sequence number of a stream
   flight |-> [c \in Channels |-> <<>>],    \* messages the transport buffers
   sent |-> [i \in Ids |-> <<>>],           \* history: sequence numbers sent
   open |-> TRUE,
   blocked |-> FALSE]                       \* a drain of this flush was refused

-----------------------------------------------------------------------------

\* SessionRouter.close(): every queue and subscription is dropped.
closeRouter(s) == [s EXCEPT !.open = FALSE, !.queue = EmptyQueue, !.order = <<>>, !.ready = {}]

removeSubscription(s, i) ==
  [s EXCEPT !.queue = closeStream(@, i), !.order = RemoveFirst(@, i), !.ready = @ \ {i}]

\* bufferedAmount of a channel.
Buffered(s, c) == SizeOf(s.flight[c])

\* send() takes a message that fits the rest of the channel's buffer.
Room(s, c) == MaxBuffered - Buffered(s, c)

\* drain(): send() accepts the longest run of heads that fits the channel.
drain(s, i) ==
  LET c == ChannelOf(i)
      ms == s.queue.streams[i].messages
      fits == {n \in 0 .. Len(ms) : SizeOf(SubSeq(ms, 1, n)) <= Room(s, c)}
      n == CHOOSE n \in fits : \A m \in fits : m <= n
      taken == SubSeq(ms, 1, n)
  IN [s EXCEPT !.queue = dequeue(@, i, n),
               !.flight[c] = @ \o taken,
               !.sent[i] = @ \o [k \in 1 .. n |-> taken[k].seq],
               !.blocked = n < Len(ms)]

\* respond() with a message of one byte count; overflow of the control queue
\* ends, through error(), in close().
respond(s, size) ==
  LET m == [seq |-> s.next["control"], size |-> size] IN
  IF Overflows(s.queue, "control", m) THEN closeRouter(s)
  ELSE [s EXCEPT !.queue = enqueue(@, "control", m), !.next["control"] = @ + 1]

drainNext_PastBlocked(s, i) ==
  IF ~s.open THEN s
  ELSE IF i \in denied
  THEN LET e == respond(removeSubscription(s, i), 1) IN IF e.open THEN drain(e, "control") ELSE e
  ELSE drain(s, i)

drainNext_Unchecked(s, i) == IF ~s.open \/ s.blocked THEN s ELSE drain(s, i)

\* One round of flush()'s loop.  Permission is read just before sending: a denied
\* stream is removed, the peer told, and the nested flush drains control first.
drainNext(s, i) ==
  IF ~s.open \/ s.blocked THEN s
  ELSE IF i \in denied
  THEN LET e == respond(removeSubscription(s, i), 1) IN IF e.open THEN drain(e, "control") ELSE e
  ELSE drain(s, i)

\* flush(): control first, then the subscriptions until a channel refuses.
flush(s) ==
  IF ~s.open THEN s
  ELSE [FoldLeft(drainNext, drain(s, "control"), s.order) EXCEPT !.blocked = FALSE]

\* error(): the anonymous rejection, as long as one byte here.
error(s) == flush(respond(s, 1))

-----------------------------------------------------------------------------

CanRespond == session.next["control"] < MaxResponses

\* A control request that changes no stream: its response is queued and flushed.
Request(size) ==
  /\ session.open /\ CanRespond
  /\ session' = flush(respond(session, size))
  /\ UNCHANGED denied

Subscribe(i, size) ==
  /\ session.open /\ CanRespond
  /\ i \notin denied
  /\ session.next[i] = 0
  /\ CanRegister(session.queue, i)
  /\ LET max == IF i \in Latest THEN 1 ELSE MaxMessages
         policy == IF i \in Latest THEN "latest" ELSE "reliable"
         s == [session EXCEPT !.queue = register(@, i, policy, max), !.order = Append(@, i)]
     IN session' = flush(respond(s, size))
  /\ UNCHANGED denied

Ready(i) ==
  /\ session.open
  /\ i \in ToSet(session.order) \ session.ready
  /\ session' = flush([session EXCEPT !.ready = @ \cup {i}])
  /\ UNCHANGED denied

Unsubscribe(i, size) ==
  /\ session.open /\ CanRespond
  /\ i \in ToSet(session.order)
  /\ session' = flush(respond(removeSubscription(session, i), size))
  /\ UNCHANGED denied

\* A ROS sample for a subscription that said ready.  Lost permission, a sample too
\* large for one message and a full reliable queue all end the subscription.
Sample(i, size) ==
  /\ session.open
  /\ i \in session.ready
  /\ session.next[i] < MaxSamples[i]
  /\ LET m == [seq |-> session.next[i], size |-> size]
         s == [session EXCEPT !.next[i] = @ + 1]
     IN session' = IF i \in denied \/ size > MaxMessageBytes \/ Overflows(s.queue, i, m)
                   THEN error(removeSubscription(session, i))
                   ELSE flush([s EXCEPT !.queue = enqueue(@, i, m)])
  /\ UNCHANGED denied

\* External: the authorize hook stops permitting a topic.
Deny(i) ==
  /\ denied' = denied \cup {i}
  /\ i \notin denied
  /\ UNCHANGED session

LowThreshold_AtLimit == MaxBuffered

LowThreshold == MaxBuffered \div 2

TransmitDue(c) == session.open /\ session.flight[c] # <<>>

\* External: the SCTP association takes a message from a channel's buffer; the
\* low-water event fires when the amount falls to the threshold, and flushes.
Transmit(c) ==
  /\ TransmitDue(c)
  /\ LET s == [session EXCEPT !.flight[c] = Tail(@)]
         crosses == Buffered(session, c) > LowThreshold /\ Buffered(s, c) <= LowThreshold
     IN session' = IF crosses THEN flush(s) ELSE s
  /\ UNCHANGED denied

PeerCloses ==
  /\ session.open
  /\ session' = closeRouter(session)
  /\ UNCHANGED denied

-----------------------------------------------------------------------------

Init == session = InitialSession /\ denied = {}

Next ==
  \/ \E size \in Sizes :
       \/ Request(size)
       \/ \E i \in Streams : Subscribe(i, size) \/ Unsubscribe(i, size)
  \/ \E i \in Streams : Ready(i) \/ Deny(i)
  \/ \E i \in Streams, size \in 1 .. MaxMessageBytes + 1 : Sample(i, size)
  \/ \E c \in Channels : Transmit(c)
  \/ PeerCloses

Spec == Init /\ [][Next]_deliveryVars

\* The association makes progress: WF_deliveryVars(Transmit(c)), with ENABLED
\* written out.  Nothing forces a peer or ROS to send anything.
FairSpec ==
  /\ Spec
  /\ \A c \in Channels : []<>(~TransmitDue(c)) \/ []<><<Transmit(c)>>_deliveryVars

-----------------------------------------------------------------------------

Queued(i) ==
  IF i \in Registered(session.queue) THEN session.queue.streams[i].messages ELSE <<>>

QueuedSeqs(i) == [k \in DOMAIN Queued(i) |-> Queued(i)[k].seq]

\* The queue's streams are the live subscriptions and control, none of them stopped (on
\* a stopped one every later flush would throw); the byte counter is what they hold; and
\* neither it nor a transport buffer ever exceeds its configured limit.
BytesAccounted ==
  /\ Registered(session.queue) =
       IF session.open THEN ToSet(session.order) \cup {"control"} ELSE {}
  /\ \A i \in Registered(session.queue) : ~session.queue.streams[i].stopped
  /\ session.queue.bytes = SumFunction([i \in Ids |-> SizeOf(Queued(i))])
  /\ session.queue.bytes <= MaxBytes
  /\ \A c \in Channels : Buffered(session, c) <= MaxBuffered

\* What each queue policy promises.  A reliable stream that is still open has lost
\* nothing: what it handed over and what it still holds is every sample since ready, in
\* order.  A latest stream may skip samples, never goes back and holds at most one.
PoliciesKept ==
  /\ \A i \in ToSet(session.order) \ Latest :
       session.sent[i] \o QueuedSeqs(i) = [k \in 1 .. session.next[i] |-> k - 1]
  /\ \A i \in Latest :
       LET all == session.sent[i] \o QueuedSeqs(i) IN
       /\ Len(Queued(i)) <= 1
       /\ \A k \in 1 .. Len(all) - 1 : all[k] < all[k + 1]

\* No sample overtakes a control message that was already waiting: a step that hands
\* over a sample has first handed over all of those.
ControlFirst ==
  [][session'.open /\ (\E i \in Streams : session'.sent[i] # session.sent[i])
       => \A k \in DOMAIN session'.queue.streams["control"].messages :
            session'.queue.streams["control"].messages[k].seq >= session.next["control"]]_deliveryVars

\* Nothing queued before permission was lost is sent afterwards.
DeniedIsNotSent ==
  [][\A i \in denied : session'.sent[i] = session.sent[i]]_deliveryVars

\* No wake-up is lost: while an open router holds a message, the buffered amount of
\* some channel is above its low-water mark, so that an event that flushes is still
\* to come (the comment on the bufferedAmountLow subscription in channel()).
WakeUpDue ==
  session.open /\ (\E i \in Ids : Queued(i) # <<>>)
    => \E c \in Channels : Buffered(session, c) > LowThreshold

\* What is queued is sent, once the transport drains, without waiting for somebody
\* to say something more: the low-water event resumes every refused send.
QueuedIsSent ==
  \A i \in Ids : Queued(i) # <<>> ~> Queued(i) = <<>>

=============================================================================
