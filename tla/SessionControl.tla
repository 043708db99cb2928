--------------------------- MODULE SessionControl ---------------------------
(***************************************************************************)
(* The receiving side of SessionRouter (router/index.ts) with RequestCache *)
(* (router/request-cache.ts): a peer's control requests, each of which     *)
(* runs once although the peer may send it again, and its publications.    *)
(*                                                                         *)
(* A step is a whole receive(), which reads the clock once here.  What is  *)
(* sent is left to PeerDelivery, except that error() closes the router     *)
(* when the control queue takes no more: the parameter "full" of a step.   *)
(* Permission (the authorize hook) and the guard's verdict may be refused  *)
(* in any state.                                                           *)
(***************************************************************************)
EXTENDS Integers, Sequences, FiniteSets, Functions

CONSTANTS
  Requests,      \* request identifiers the peer uses
  LongIds,       \* those of Requests that lengthen what they are part of
  Outputs,       \* ros_to_web topics
  Commands,      \* web_to_ros topics
  Guarded,       \* those of Commands with a command guard
  MaxHandles, MaxRequests, RequestTtl, MaxControlRate,   \* limits of the router
  RateWindow,    \* one second, in clock units
  Interval,      \* 1000 / maxRateHz, in clock units
  MaxBytes,      \* largest message: configured, or less when the peer says so
  CacheBytes,    \* limits.maxPeerQueueBytes: budget of the cache
  MaxTime, MaxSeq, MaxId   \* bounds of the model

ASSUME ControlAssumption ==
  /\ Guarded \subseteq Commands /\ LongIds \subseteq Requests
  /\ {MaxHandles, MaxRequests, RequestTtl, MaxControlRate, RateWindow, Interval,
      MaxBytes, CacheBytes} \subseteq Nat \ {0}
  /\ {MaxTime, MaxSeq, MaxId} \subseteq Nat

VARIABLES
  now,
  open, welcomed,
  rate,          \* controlWindow and controlCount
  cache,         \* request id -> [expires, bytes]
  cacheBytes,
  nextId,        \* identifiers of streams and handles issued so far
  streams,       \* this.subscriptions
  publishers,    \* handle -> [topic, seq, nextAt]
  listeners,     \* what the ROS adapter holds for this peer
  granted,       \* what the command guard holds for this session
  ran,           \* history: operations run, with their request id and time
  toRos          \* history: calls of ros.publish

controlVars == <<now, open, welcomed, rate, cache, cacheBytes, nextId, streams,
                 publishers, listeners, granted, ran, toRos>>

resourceVars == <<nextId, streams, publishers, listeners, granted>>
historyVars == <<ran, toRos>>

Ids == 1 .. MaxId

\* The body of a request without its identifier.  The tracks of the video operations
\* are VideoRouter's.
Inputs ==
  [op : {"subscribe"}, arg : Outputs] \cup [op : {"advertise"}, arg : Commands]
    \cup [op : {"unsubscribe", "unadvertise", "arm"}, arg : Ids]
    \cup [op : {"video"}, arg : {0}]

\* Sizes in units of about 150 bytes.  A request and the reply to it both have the
\* identifier in them, which the peer chooses; the replies that also carry fresh
\* identifiers are longer than the request, and a welcome has a short catalog.
IdSize(r) == IF r \in LongIds THEN 1 ELSE 0
InputSize(r) == 1 + IdSize(r)
ReplySize(r, q) == IdSize(r) + (IF q.op \in {"subscribe", "advertise", "arm"} THEN 2 ELSE 1)
WelcomeSize == 2
Fits(r, q) == ReplySize(r, q) <= MaxBytes

Restricted(f, D) == [k \in DOMAIN f \cap D |-> f[k]]
With(f, k, v) == [x \in DOMAIN f \cup {k} |-> IF x = k THEN v ELSE f[x]]

-----------------------------------------------------------------------------

Window == now \div RateWindow

\* controlRate(): the message is counted whether or not it is refused.  A window
\* has one refused message here.
Counted(refused) ==
  LET n == IF rate.window = Window THEN rate.count + 1 ELSE 1 IN
  /\ IF refused THEN n = MaxControlRate + 1 ELSE n <= MaxControlRate
  /\ rate' = [window |-> Window, count |-> n]

Live_OffByOne == {r \in DOMAIN cache : now + 1 < cache[r].expires}

\* lookup(): the entries that survive, and the bytes of those.
Live == {r \in DOMAIN cache : now < cache[r].expires}

LiveBytes_Kept == cacheBytes

LiveBytes ==
  cacheBytes - SumFunctionOnSet([r \in DOMAIN cache |-> cache[r].bytes], DOMAIN cache \ Live)

Prune == cache' = Restricted(cache, Live) /\ cacheBytes' = LiveBytes

\* A new request may run: there is room for an entry and for its largest reply.
Reserved(r) ==
  /\ Cardinality(Live) < MaxRequests
  /\ MaxBytes + 2 * InputSize(r) <= CacheBytes - LiveBytes

Entry(r, q) ==
  [expires |-> now + RequestTtl, bytes |-> 2 * InputSize(r) + ReplySize(r, q)]

\* store(), before the reply is sent.
Store(r, q) ==
  /\ cache' = With(Restricted(cache, Live), r, Entry(r, q))
  /\ cacheBytes' = LiveBytes + Entry(r, q).bytes

-----------------------------------------------------------------------------
(***************************************************************************)
(* operation().                                                            *)
(***************************************************************************)

\* Streams and publishers share one limit.
HandleRoom == Cardinality(streams) + Cardinality(DOMAIN publishers) < MaxHandles

\* What operation() asks before it changes anything.
Admitted(q) ==
  \/ q.op \in {"subscribe", "advertise"} /\ HandleRoom /\ nextId < MaxId
  \/ q.op = "unsubscribe" /\ q.arg \in streams
  \/ q.op = "unadvertise" /\ q.arg \in DOMAIN publishers
  \/ q.op = "arm" /\ q.arg \in DOMAIN publishers /\ publishers[q.arg].topic \in Guarded
  \/ q.op = "video"

\* The identifiers issued once q has run.
NextId(q) == IF q.op \in {"subscribe", "advertise"} THEN nextId + 1 ELSE nextId

Subscribe(t) ==
  /\ streams' = streams \cup {nextId + 1}
  /\ listeners' = listeners \cup {nextId + 1}
  /\ UNCHANGED <<publishers, granted>>

Advertise(t) ==
  /\ publishers' = With(publishers, nextId + 1, [topic |-> t, seq |-> -1, nextAt |-> 0])
  /\ granted' = IF t \in Guarded THEN granted \cup {nextId + 1} ELSE granted
  /\ UNCHANGED <<streams, listeners>>

removeSubscription(i) ==
  /\ streams' = streams \ {i}
  /\ listeners' = listeners \ {i}
  /\ UNCHANGED <<publishers, granted>>

Unadvertise(h) ==
  /\ publishers' = Restricted(publishers, DOMAIN publishers \ {h})
  /\ granted' = granted \ {h}
  /\ UNCHANGED <<streams, listeners>>

\* The lease is the guard's, and what a video operation does is VideoRouter's.
Operation(q) ==
  /\ nextId' = NextId(q)
  /\ \/ q.op = "subscribe" /\ Subscribe(q.arg)
     \/ q.op = "advertise" /\ Advertise(q.arg)
     \/ q.op = "unsubscribe" /\ removeSubscription(q.arg)
     \/ q.op = "unadvertise" /\ Unadvertise(q.arg)
     \/ q.op \in {"arm", "video"} /\ UNCHANGED <<streams, publishers, listeners, granted>>

-----------------------------------------------------------------------------

Shut_NoRevoke ==
  /\ open' = FALSE
  /\ streams' = {} /\ listeners' = {} /\ publishers' = <<>>
  /\ UNCHANGED granted

\* close(), except for the cache: the transport calls it, and so does error() when the
\* control queue takes no more.
Shut ==
  /\ open' = FALSE
  /\ granted' = {}
  /\ streams' = {} /\ listeners' = {} /\ publishers' = <<>>

ClearCache == cache' = <<>> /\ cacheBytes' = 0

Hello ==
  /\ open /\ ~welcomed
  /\ Counted(FALSE)
  /\ WelcomeSize <= MaxBytes
  /\ welcomed' = TRUE
  /\ UNCHANGED <<now, open, cache, cacheBytes, resourceVars, historyVars>>

\* Refused before the cache is looked at: too fast, malformed, too long, no hello, no id.
Refuse(full) ==
  /\ open
  /\ \E fast \in BOOLEAN : Counted(fast)
  /\ IF full THEN Shut /\ ClearCache /\ UNCHANGED nextId
     ELSE UNCHANGED <<open, cache, cacheBytes, resourceVars>>
  /\ UNCHANGED <<now, welcomed, historyVars>>

\* A request gets as far as operation(), and its operation runs.
Runs(r, q) ==
  /\ open /\ welcomed
  /\ Counted(FALSE)
  /\ InputSize(r) <= MaxBytes
  /\ r \notin Live
  /\ Reserved(r)
  /\ Admitted(q)
  /\ ran' = Append(ran, [id |-> r, at |-> now, fits |-> Fits(r, q)])
  /\ UNCHANGED <<now, welcomed, toRos>>

\* A request that runs.  A reply that does not fit a message is an error after the
\* operation, and is not stored.
Execute(r, q, full) ==
  /\ Runs(r, q)
  /\ IF full THEN Shut /\ ClearCache /\ nextId' = NextId(q)
     ELSE /\ Operation(q)
          /\ IF Fits(r, q) THEN Store(r, q) ELSE Prune
          /\ UNCHANGED open

\* A video operation whose event finds the control queue full: error() closes the router
\* within operation(), and control() goes on to store the reply in the cleared cache.
ExecuteClosed(r, q) ==
  /\ q.op = "video"
  /\ Runs(r, q)
  /\ Shut
  /\ IF Fits(r, q) THEN cache' = With(<<>>, r, Entry(r, q)) /\ cacheBytes' = Entry(r, q).bytes
     ELSE ClearCache
  /\ UNCHANGED nextId

\* A request that gets its stored reply again, or fails after lookup(): the identifier is
\* in use with another body, a limit, a lost permission, an unknown name, a busy writer.
Answer(full) ==
  /\ open /\ welcomed
  /\ Counted(FALSE)
  /\ IF full THEN Shut /\ ClearCache /\ UNCHANGED nextId
     ELSE Prune /\ UNCHANGED <<open, resourceVars>>
  /\ UNCHANGED <<now, welcomed, historyVars>>

Publishable(h, seq) ==
  /\ open /\ welcomed
  /\ h \in DOMAIN publishers
  /\ seq > publishers[h].seq
  /\ now >= publishers[h].nextAt

Accepted_Rollback(h, seq, called) ==
  publishers' = IF called THEN [publishers EXCEPT ![h].nextAt = now + Interval] ELSE publishers

\* The number and the rate are spent before ROS is called, and stay spent.
Accepted(h, seq, called) ==
  publishers' = [publishers EXCEPT ![h].seq = seq, ![h].nextAt = now + Interval]

\* publish(): once a value is accepted ROS is called, or permission or the ticket is
\* refused at the last moment.
Publish(h, seq, called, full) ==
  /\ Publishable(h, seq)
  /\ toRos' = IF called THEN Append(toRos, [handle |-> h, seq |-> seq, at |-> now]) ELSE toRos
  /\ IF full THEN Shut /\ ClearCache
     ELSE Accepted(h, seq, called) /\ UNCHANGED <<open, cache, cacheBytes, streams, listeners, granted>>
  /\ UNCHANGED <<now, welcomed, rate, nextId, ran>>

\* sample() or flush() ends a subscription: lost permission or a slow consumer.
StreamEnds(i, full) ==
  /\ open
  /\ IF full THEN Shut /\ ClearCache
     ELSE removeSubscription(i) /\ UNCHANGED <<open, cache, cacheBytes>>
  /\ UNCHANGED <<now, welcomed, rate, nextId, historyVars>>

\* close() by the transport.
Close ==
  /\ open
  /\ Shut /\ ClearCache
  /\ UNCHANGED <<now, welcomed, rate, nextId, historyVars>>

Tick ==
  /\ now < MaxTime
  /\ now' = now + 1
  /\ UNCHANGED <<open, welcomed, rate, cache, cacheBytes, resourceVars, historyVars>>

-----------------------------------------------------------------------------

Init ==
  /\ now = 0
  /\ open = TRUE /\ welcomed = FALSE
  /\ rate = [window |-> 0, count |-> 0]
  /\ cache = <<>> /\ cacheBytes = 0
  /\ nextId = 0 /\ streams = {} /\ publishers = <<>> /\ listeners = {} /\ granted = {}
  /\ ran = <<>> /\ toRos = <<>>

Next ==
  \/ Hello \/ Close \/ Tick
  \/ \E full \in BOOLEAN :
       \/ Refuse(full) \/ Answer(full)
       \/ \E r \in Requests, q \in Inputs : Execute(r, q, full)
       \/ \E h \in DOMAIN publishers, seq \in 0 .. MaxSeq, called \in BOOLEAN :
            Publish(h, seq, called, full)
       \/ \E i \in streams : StreamEnds(i, full)
  \/ \E r \in Requests, q \in Inputs : ExecuteClosed(r, q)

Spec == Init /\ [][Next]_controlVars

-----------------------------------------------------------------------------

\* Type invariant; cacheBytes is accounted for by CacheAccounted.
TypeOK ==
  /\ now \in 0 .. MaxTime
  /\ open \in BOOLEAN /\ welcomed \in BOOLEAN
  /\ rate \in [window : Nat, count : Nat]
  /\ DOMAIN cache \subseteq Requests
  /\ cache \in [DOMAIN cache -> [expires : Nat, bytes : Nat]]
  /\ nextId \in 0 .. MaxId
  /\ streams \subseteq Ids /\ listeners \subseteq Ids /\ granted \subseteq Ids
  /\ DOMAIN publishers \subseteq Ids
  /\ publishers \in [DOMAIN publishers -> [topic : Commands, seq : -1 .. MaxSeq, nextAt : Nat]]
  /\ ran \in Seq([id : Requests, at : Nat, fits : BOOLEAN])
  /\ toRos \in Seq([handle : Ids, seq : 0 .. MaxSeq, at : Nat])

\* The promise of RequestCache: within the lifetime of its reply a request identifier
\* runs once, however often it is sent and with whatever body.  A reply that does not
\* fit a message breaks it: nothing is stored, and the request runs when it is resent.
RunsOnce ==
  \A i, j \in DOMAIN ran :
    i < j /\ ran[i].id = ran[j].id => ran[j].at >= ran[i].at + RequestTtl

\* What the code keeps of that promise: a request whose reply fitted a message does not
\* run again within the lifetime of the reply, whatever else was sent, pruned or failed
\* in between.
AnsweredRunsOnce ==
  \A i, j \in DOMAIN ran :
    i < j /\ ran[i].id = ran[j].id /\ ran[i].fits => ran[j].at >= ran[i].at + RequestTtl

\* The cache's byte count is what its entries hold and, although a reply is stored
\* after its operation has run, neither bound of the cache is ever passed.
CacheAccounted ==
  /\ cacheBytes = SumFunction([r \in DOMAIN cache |-> cache[r].bytes])
  /\ cacheBytes <= CacheBytes
  /\ Cardinality(DOMAIN cache) <= MaxRequests

\* The router's records agree with the guard and the ROS adapter, within the limit
\* that streams and publishers share, and a router that closed, be it in the middle of
\* a request, has nothing at either.
RecordsAgree ==
  /\ listeners = streams
  /\ granted = {h \in DOMAIN publishers : publishers[h].topic \in Guarded}
  /\ Cardinality(streams) + Cardinality(DOMAIN publishers) <= MaxHandles
  /\ ~open => streams = {} /\ DOMAIN publishers = {}

\* ROS is called at most once for a sequence number of a handle, in increasing order
\* and no faster than the topic's rate, failed and refused publications included.
CalledOnce ==
  \A i, j \in DOMAIN toRos :
    i < j /\ toRos[i].handle = toRos[j].handle
    => toRos[i].seq < toRos[j].seq /\ toRos[i].at + Interval <= toRos[j].at

=============================================================================
