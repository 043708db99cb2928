---------------------------- MODULE DeliveryQueue ----------------------------
(***************************************************************************)
(* session/delivery-queue.ts: the bounded send queue of one peer, as       *)
(* operators on its state.  A message is its sequence number and its size; *)
(* the copies of the bytes it owns are left out.                           *)
(***************************************************************************)
EXTENDS Integers, Sequences, FiniteSets, Functions

CONSTANTS MaxStreams, MaxBytes, MaxMessageBytes    \* QueueOptions

ASSUME QueueAssumption ==
  /\ MaxStreams \in Nat \ {0}
  /\ MaxMessageBytes \in Nat \ {0}
  /\ MaxBytes \in Nat
  /\ MaxMessageBytes <= MaxBytes

EmptyQueue == [streams |-> [i \in {} |-> 0], bytes |-> 0]

SizeOf(messages) == SumFunction([k \in DOMAIN messages |-> messages[k].size])

Registered(q) == DOMAIN q.streams

\* Stopped streams still count as registered.
CanRegister(q, i) == i \notin Registered(q) /\ Cardinality(Registered(q)) < MaxStreams

register(q, i, policy, maxMessages) ==
  [q EXCEPT !.streams = [j \in Registered(q) \cup {i} |->
     IF j = i THEN [policy |-> policy, maxMessages |-> maxMessages, messages |-> <<>>, stopped |-> FALSE]
     ELSE q.streams[j]]]

release_KeepBytes(q, i) == [q EXCEPT !.streams[i].messages = <<>>]

\* release(): drop what a stream holds and give its bytes back.
release(q, i) ==
  [q EXCEPT !.streams[i].messages = <<>>, !.bytes = @ - SizeOf(q.streams[i].messages)]

Fits_OffByOne(q, i, m) ==
  /\ Len(q.streams[i].messages) < q.streams[i].maxMessages
  /\ m.size <= MaxBytes - q.bytes + 1

Fits(q, i, m) ==
  /\ Len(q.streams[i].messages) < q.streams[i].maxMessages
  /\ m.size <= MaxBytes - q.bytes

\* The queue after enqueue(): a latest stream first drops the sample it holds; one
\* that does not fit is dropped too, or stops a reliable stream.
enqueue(q, i, m) ==
  LET r == IF q.streams[i].policy = "latest" THEN release(q, i) ELSE q IN
  IF Fits(r, i, m)
  THEN [r EXCEPT !.streams[i].messages = Append(@, m), !.bytes = @ + m.size]
  ELSE IF q.streams[i].policy = "latest" THEN r
  ELSE [release(r, i) EXCEPT !.streams[i].stopped = TRUE]

Overflows_Never(q, i, m) == FALSE

\* enqueue() throws slow_consumer: the stream is reliable and full.
Overflows(q, i, m) == q.streams[i].policy = "reliable" /\ ~Fits(q, i, m)

\* dequeue() of the first n messages, one after the other.
dequeue(q, i, n) ==
  LET ms == q.streams[i].messages IN
  [q EXCEPT !.streams[i].messages = SubSeq(ms, n + 1, Len(ms)),
            !.bytes = @ - SizeOf(SubSeq(ms, 1, n))]

closeStream(q, i) ==
  [release(q, i) EXCEPT !.streams = [j \in Registered(q) \ {i} |-> q.streams[j]]]

=============================================================================
