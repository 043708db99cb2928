------------------------- MODULE PeerDeliveryProofs -------------------------
(***************************************************************************)
(* Proofs about the sending side of a peer, for any set of streams, any    *)
(* limits and messages of any admissible size.                             *)
(*                                                                         *)
(* The session is a record and its methods are functions of it, so the     *)
(* invariant is one of a session, Sound: the queue's byte counter is the   *)
(* sum of what its streams hold, no stream holds more than its limit, no   *)
(* channel more than MaxBuffered, and for every stream the numbers sent    *)
(* followed by those held (its Trail) increase, without a gap if it is     *)
(* reliable.  The proofs go from the queue's methods to drain() and        *)
(* emit(), from there to the rounds of flush() (a fold over the stream     *)
(* order), and from there to the actions: a handler leaves a session       *)
(* Prepared, and flush() makes of a prepared session a sound one in which  *)
(* no stream was sent before a control message queued earlier.             *)
(***************************************************************************)
EXTENDS PeerDelivery, SumProofs

\* A message as the queue keeps it.
Message == [seq : Nat, size : Sizes]

\* The sequence numbers of messages, and their sizes.
Numbers(ms) == [k \in DOMAIN ms |-> ms[k].seq]
Weights(ms) == [k \in DOMAIN ms |-> ms[k].size]

\* The limits as numbers, and the streams as a finite set that excludes the control stream.
LEMMA Constants ==
  /\ MaxBytes \in Nat /\ MaxMessageBytes \in Nat \ {0} /\ MaxMessageBytes <= MaxBytes
  /\ MaxBuffered \in Nat /\ MaxMessageBytes <= MaxBuffered
  /\ MaxControl \in Nat \ {0} /\ MaxMessages \in Nat \ {0}
  /\ IsFiniteSet(Ids) /\ "control" \in Ids /\ "control" \notin Streams /\ Latest \subseteq Streams
  BY QueueAssumption, DeliveryAssumption, FS_AddElement DEF Ids

\* The fields of a message.
LEMMA MessageFields ==
  ASSUME NEW m \in Message
  PROVE  m.seq \in Nat /\ m.size \in Nat /\ m.size \in 1 .. MaxMessageBytes
  BY Constants DEF Message, Sizes

\* Sizes and sequence numbers of messages are sequences of numbers.
LEMMA WeightsSeq ==
  ASSUME NEW ms \in Seq(Message)
  PROVE  /\ Weights(ms) \in Seq(Nat) /\ Len(Weights(ms)) = Len(ms) /\ DOMAIN Weights(ms) = DOMAIN ms
         /\ Numbers(ms) \in Seq(Nat) /\ Len(Numbers(ms)) = Len(ms) /\ DOMAIN Numbers(ms) = DOMAIN ms
         /\ \A k \in 1 .. Len(ms) : Weights(ms)[k] = ms[k].size /\ Numbers(ms)[k] = ms[k].seq
  <1>1. DOMAIN ms = 1 .. Len(ms) /\ Len(ms) \in Nat
    BY LenProperties
  <1>2. \A k \in 1 .. Len(ms) : ms[k].size \in Nat /\ ms[k].seq \in Nat
    BY <1>1, MessageFields, ElementOfSeq
  <1> QED
    BY <1>1, <1>2 DEF Weights, Numbers

\* Nothing weighs nothing.
LEMMA SizeEmpty == SizeOf(<<>>) = 0 /\ Numbers(<<>>) = <<>>
  <1>1. Weights(<<>>) = <<>> /\ Numbers(<<>>) = <<>>
    BY DEF Weights, Numbers
  <1> QED
    BY <1>1, SeqSumEmpty DEF SizeOf, Weights

\* The bytes of messages are a number.
LEMMA SizeType ==
  ASSUME NEW ms \in Seq(Message) PROVE SizeOf(ms) \in Nat
  BY WeightsSeq, SeqSumType DEF SizeOf, Weights

\* One message more.
LEMMA SizeAppend ==
  ASSUME NEW ms \in Seq(Message), NEW m \in Message
  PROVE  /\ Append(ms, m) \in Seq(Message)
         /\ SizeOf(Append(ms, m)) = SizeOf(ms) + m.size
         /\ Numbers(Append(ms, m)) = Append(Numbers(ms), m.seq)
  <1>1. Append(ms, m) \in Seq(Message)
    BY AppendProperties
  <1> DEFINE t == Append(ms, m)
  <1>2. /\ Len(ms) \in Nat /\ Len(t) = Len(ms) + 1 /\ DOMAIN t = 1 .. Len(ms) + 1
        /\ t[Len(ms) + 1] = m /\ \A k \in 1 .. Len(ms) : t[k] = ms[k]
    BY <1>1, AppendProperties, LenProperties
  <1>3. Weights(t) \in Seq(Nat) /\ Weights(ms) \in Seq(Nat) /\ Numbers(t) \in Seq(Nat) /\ Numbers(ms) \in Seq(Nat)
    BY <1>1, WeightsSeq
  <1> HIDE DEF t
  <1>0. m.size \in Nat /\ m.seq \in Nat
    BY MessageFields
  <1>7. Len(Weights(ms)) = Len(ms) /\ Len(Numbers(ms)) = Len(ms)
    BY WeightsSeq
  <1>8. \A k \in 1 .. Len(ms) : Weights(ms)[k] = ms[k].size /\ Numbers(ms)[k] = ms[k].seq
    BY WeightsSeq
  <1>9. Len(Weights(t)) = Len(ms) + 1 /\ Len(Numbers(t)) = Len(ms) + 1
    BY <1>1, <1>2, WeightsSeq DEF t
  <1>10. \A k \in 1 .. Len(ms) + 1 : Weights(t)[k] = t[k].size /\ Numbers(t)[k] = t[k].seq
    BY <1>1, <1>2, WeightsSeq DEF t
  <1>11. \A k \in 1 .. Len(ms) : Weights(t)[k] = Weights(ms)[k] /\ Numbers(t)[k] = Numbers(ms)[k]
    BY <1>2, <1>8, <1>10
  <1>12. Weights(t)[Len(ms) + 1] = m.size /\ Numbers(t)[Len(ms) + 1] = m.seq
    BY <1>2, <1>10
  <1>4. Weights(t) = Append(Weights(ms), m.size)
    <2> DEFINE p == Weights(ms)
               r == Weights(t)
               e == m.size
    <2>1. p \in Seq(Nat) /\ r \in Seq(Nat) /\ e \in Nat
      BY <1>0, <1>3
    <2>2. Len(r) = Len(p) + 1 /\ (\A i \in 1 .. Len(p) : r[i] = p[i]) /\ r[Len(p) + 1] = e
      BY <1>7, <1>9, <1>11, <1>12
    <2> HIDE DEF p, r, e
    <2>3. r = Append(p, e)
      BY <2>1, <2>2, IsAppend
    <2> QED
      BY <2>3 DEF p, r, e
  <1>5. Numbers(t) = Append(Numbers(ms), m.seq)
    <2> DEFINE p == Numbers(ms)
               r == Numbers(t)
               e == m.seq
    <2>1. p \in Seq(Nat) /\ r \in Seq(Nat) /\ e \in Nat
      BY <1>0, <1>3
    <2>2. Len(r) = Len(p) + 1 /\ (\A i \in 1 .. Len(p) : r[i] = p[i]) /\ r[Len(p) + 1] = e
      BY <1>7, <1>9, <1>11, <1>12
    <2> HIDE DEF p, r, e
    <2>3. r = Append(p, e)
      BY <2>1, <2>2, IsAppend
    <2> QED
      BY <2>3 DEF p, r, e
  <1>6. SumFunction(Weights(t)) = SumFunction(Weights(ms)) + m.size
    BY <1>3, <1>4, MessageFields, SeqSumAppend
  <1> QED
    BY <1>1, <1>5, <1>6 DEF SizeOf, Weights, t

\* Messages behind messages.
LEMMA SizeConcat ==
  ASSUME NEW a \in Seq(Message), NEW b \in Seq(Message)
  PROVE  /\ a \o b \in Seq(Message)
         /\ SizeOf(a \o b) = SizeOf(a) + SizeOf(b)
         /\ Numbers(a \o b) = Numbers(a) \o Numbers(b)
  <1> DEFINE t == a \o b
  <1>1. t \in Seq(Message)
    BY ConcatProperties
  <1>2. /\ Len(a) \in Nat /\ Len(b) \in Nat /\ Len(t) = Len(a) + Len(b)
        /\ DOMAIN t = 1 .. Len(a) + Len(b) /\ DOMAIN a = 1 .. Len(a) /\ DOMAIN b = 1 .. Len(b)
    BY <1>1, ConcatProperties, LenProperties
  <1>3. \A i \in 1 .. Len(a) + Len(b) : t[i] = IF i <= Len(a) THEN a[i] ELSE b[i - Len(a)]
    BY <1>1, ConcatProperties
  <1>4. /\ Weights(t) \in Seq(Nat) /\ Weights(a) \in Seq(Nat) /\ Weights(b) \in Seq(Nat)
        /\ Numbers(t) \in Seq(Nat) /\ Numbers(a) \in Seq(Nat) /\ Numbers(b) \in Seq(Nat)
        /\ Len(Weights(t)) = Len(t) /\ Len(Weights(a)) = Len(a) /\ Len(Weights(b)) = Len(b)
        /\ Len(Numbers(t)) = Len(t) /\ Len(Numbers(a)) = Len(a) /\ Len(Numbers(b)) = Len(b)
    BY <1>1, WeightsSeq
  <1> HIDE DEF t
  <1>8. /\ \A k \in 1 .. Len(a) : Weights(a)[k] = a[k].size /\ Numbers(a)[k] = a[k].seq
        /\ \A k \in 1 .. Len(b) : Weights(b)[k] = b[k].size /\ Numbers(b)[k] = b[k].seq
        /\ \A k \in 1 .. Len(t) : Weights(t)[k] = t[k].size /\ Numbers(t)[k] = t[k].seq
    BY <1>1, WeightsSeq DEF t
  <1>9. ASSUME NEW k \in 1 .. Len(a)
        PROVE  Weights(t)[k] = Weights(a)[k] /\ Numbers(t)[k] = Numbers(a)[k]
    <2>1. k \in 1 .. Len(t) /\ t[k] = a[k]
      BY <1>2, <1>3
    <2> QED
      BY <1>8, <2>1
  <1>10. ASSUME NEW k \in 1 .. Len(b)
         PROVE  Weights(t)[Len(a) + k] = Weights(b)[k] /\ Numbers(t)[Len(a) + k] = Numbers(b)[k]
    <2>1. Len(a) + k \in 1 .. Len(t) /\ t[Len(a) + k] = b[k]
      <3>1. Len(a) + k \in 1 .. Len(a) + Len(b) /\ ~(Len(a) + k <= Len(a)) /\ Len(a) + k - Len(a) = k
        BY <1>2
      <3> QED
        BY <1>2, <1>3, <3>1
    <2> QED
      BY <1>8, <2>1
  <1>5. Weights(t) = Weights(a) \o Weights(b)
    <2> DEFINE p == Weights(a)
               q == Weights(b)
               r == Weights(t)
    <2>1. p \in Seq(Nat) /\ q \in Seq(Nat) /\ r \in Seq(Nat) /\ Len(r) = Len(p) + Len(q)
      BY <1>2, <1>4
    <2>2. (\A i \in 1 .. Len(p) : r[i] = p[i]) /\ \A i \in 1 .. Len(q) : r[Len(p) + i] = q[i]
      BY <1>4, <1>9, <1>10
    <2> HIDE DEF p, q, r
    <2>3. r = p \o q
      BY <2>1, <2>2, IsConcat
    <2> QED
      BY <2>3 DEF p, q, r
  <1>6. Numbers(t) = Numbers(a) \o Numbers(b)
    <2> DEFINE p == Numbers(a)
               q == Numbers(b)
               r == Numbers(t)
    <2>1. p \in Seq(Nat) /\ q \in Seq(Nat) /\ r \in Seq(Nat) /\ Len(r) = Len(p) + Len(q)
      BY <1>2, <1>4
    <2>2. (\A i \in 1 .. Len(p) : r[i] = p[i]) /\ \A i \in 1 .. Len(q) : r[Len(p) + i] = q[i]
      BY <1>4, <1>9, <1>10
    <2> HIDE DEF p, q, r
    <2>3. r = p \o q
      BY <2>1, <2>2, IsConcat
    <2> QED
      BY <2>3 DEF p, q, r
  <1>7. SumFunction(Weights(t)) = SumFunction(Weights(a)) + SumFunction(Weights(b))
    BY <1>4, <1>5, SeqSumConcat
  <1> QED
    BY <1>1, <1>6, <1>7 DEF SizeOf, Weights, t

\* A sequence of messages cut in two.
LEMMA SizeSplit ==
  ASSUME NEW ms \in Seq(Message), NEW n \in 0 .. Len(ms)
  PROVE  LET taken == SubSeq(ms, 1, n)
             rest == SubSeq(ms, n + 1, Len(ms))
         IN /\ taken \in Seq(Message) /\ Len(taken) = n
            /\ rest \in Seq(Message) /\ Len(rest) = Len(ms) - n
            /\ \A k \in 1 .. Len(rest) : rest[k] = ms[n + k]
            /\ taken \o rest = ms
            /\ SizeOf(ms) = SizeOf(taken) + SizeOf(rest)
            /\ Numbers(ms) = Numbers(taken) \o Numbers(rest)
  <1> DEFINE taken == SubSeq(ms, 1, n)
             rest == SubSeq(ms, n + 1, Len(ms))
  <1>0. Len(ms) \in Nat /\ \A i \in 1 .. Len(ms) : ms[i] \in Message
    BY LenProperties, ElementOfSeq
  <1>1. taken \in Seq(Message) /\ Len(taken) = n
    BY <1>0, SubSeqProperties
  <1>2. /\ rest \in Seq(Message) /\ Len(rest) = Len(ms) - n
        /\ \A k \in 1 .. Len(rest) : rest[k] = ms[n + k]
    BY <1>0, SubSeqProperties
  <1>3. taken \o rest = ms
    <2>1. \A k \in 1 .. n : taken[k] = ms[k]
      BY <1>0, SubSeqProperties
    <2> HIDE DEF taken, rest
    <2>2. Len(ms) = Len(taken) + Len(rest)
      BY <1>0, <1>1, <1>2
    <2> QED
      BY <1>1, <1>2, <2>1, <2>2, IsConcat
  <1> HIDE DEF taken, rest
  <1>4. SizeOf(ms) = SizeOf(taken) + SizeOf(rest) /\ Numbers(ms) = Numbers(taken) \o Numbers(rest)
    BY <1>1, <1>2, <1>3, SizeConcat
  <1> QED
    BY <1>1, <1>2, <1>3, <1>4 DEF taken, rest

-----------------------------------------------------------------------------
(***************************************************************************)
(* The queue in normal form: its registered streams, what every stream     *)
(* holds, and the byte counter.                                            *)
(***************************************************************************)

PolicyOf(i) == IF i \in Latest THEN "latest" ELSE "reliable"
LimitOf(i) == IF i = "control" THEN MaxControl ELSE IF i \in Latest THEN 1 ELSE MaxMessages

StreamRecord == [policy : {"latest", "reliable"}, maxMessages : Nat, messages : Seq(Message),
                 stopped : BOOLEAN]

Holding(q) ==
  [i \in Ids |-> IF i \in Registered(q) THEN q.streams[i].messages ELSE <<>>]
Total(h) == SumFunction([i \in Ids |-> SizeOf(h[i])])

\* Contents a queue may have: within every limit, and nothing where no stream is.
Contents(D, h) ==
  /\ D \subseteq Ids
  /\ h \in [Ids -> Seq(Message)]
  /\ \A i \in Ids : Len(h[i]) <= LimitOf(i) /\ (i \notin D => h[i] = <<>>)
  /\ Total(h) <= MaxBytes

IsQueue(q) ==
  /\ q \in [streams : [Registered(q) -> StreamRecord], bytes : Nat]
  /\ \A i \in Registered(q) :
       /\ q.streams[i].policy = PolicyOf(i) /\ q.streams[i].maxMessages = LimitOf(i)
       /\ ~q.streams[i].stopped
  /\ Contents(Registered(q), Holding(q))
  /\ q.bytes = Total(Holding(q))

\* The limit of a stream is a positive number.
LEMMA LimitType == \A i \in Ids : LimitOf(i) \in Nat \ {0}
  BY Constants DEF LimitOf

\* The bytes of all streams are a number.
LEMMA TotalType ==
  ASSUME NEW h \in [Ids -> Seq(Message)]
  PROVE  Total(h) \in Nat /\ \A i \in Ids : SizeOf(h[i]) \in Nat
  <1> DEFINE f == [i \in Ids |-> SizeOf(h[i])]
  <1>1. DOMAIN f = Ids /\ \A i \in Ids : f[i] = SizeOf(h[i]) /\ f[i] \in Nat
    BY SizeType
  <1> HIDE DEF f
  <1>2. SumFunctionOnSet(f, Ids) \in Nat
    BY <1>1, Constants, SumType
  <1> QED
    BY <1>1, <1>2 DEF Total, SumFunction, f

\* Replacing the messages of one stream changes the total by the difference.
LEMMA TotalChange ==
  ASSUME NEW h \in [Ids -> Seq(Message)], NEW i \in Ids, NEW ms \in Seq(Message)
  PROVE  Total([h EXCEPT ![i] = ms]) = Total(h) - SizeOf(h[i]) + SizeOf(ms)
  <1> DEFINE g == [h EXCEPT ![i] = ms]
             f == [j \in Ids |-> SizeOf(h[j])]
             e == [j \in Ids |-> SizeOf(g[j])]
  <1>1. g \in [Ids -> Seq(Message)] /\ g[i] = ms /\ \A j \in Ids \ {i} : g[j] = h[j]
    OBVIOUS
  <1> HIDE DEF g
  <1>2. f \in [Ids -> Nat] /\ e \in [Ids -> Nat]
    BY <1>1, SizeType
  <1>3. /\ \A j \in Ids \ {i} : f[j] = e[j]
        /\ f[i] = SizeOf(h[i]) /\ e[i] = SizeOf(ms)
        /\ DOMAIN f = Ids /\ DOMAIN e = Ids
    BY <1>1
  <1> HIDE DEF f, e
  <1>4. SumFunctionOnSet(e, Ids) = SumFunctionOnSet(f, Ids) - f[i] + e[i]
    <2>1. IsFiniteSet(Ids) /\ \A j \in Ids \ {i} : f[j] = e[j]
      BY <1>3, Constants
    <2> QED
      BY <1>2, <2>1, SumChange
  <1> QED
    BY <1>3, <1>4 DEF Total, SumFunction, f, e, g

\* Streams that hold nothing have no bytes.
LEMMA TotalEmpty ==
  ASSUME NEW h, \A i \in Ids : h[i] = <<>>
  PROVE  Total(h) = 0
  <1> DEFINE f == [i \in Ids |-> SizeOf(h[i])]
             z == [i \in Ids |-> 0]
  <1>1. \A i \in Ids : f[i] = 0
    BY SizeEmpty
  <1> DEFINE B == {U \in SUBSET Ids : SumFunctionOnSet(f, U) # 0}
  <1>2. SUFFICES ASSUME B # {} PROVE FALSE
    <2>1. DOMAIN f = Ids
      OBVIOUS
    <2>2. B = {} => SumFunctionOnSet(f, Ids) = 0
      BY Zenon
    <2> QED
      BY <2>1, <2>2 DEF Total, SumFunction
  <1> HIDE DEF f
  <1>3. PICK U \in B : \A V \in B : V \subseteq U => V = U
    <2>1. B \in SUBSET SUBSET Ids
      OBVIOUS
    <2> HIDE DEF B
    <2> QED
      BY <1>2, <2>1, Constants, SmallestSubset
  <1>4. SumFunctionOnSet(f, U) =
          IF U = {} THEN 0 ELSE f[Pick(U)] + SumFunctionOnSet(f, U \ {Pick(U)})
    BY <1>3, Constants, FS_Subset, SumStep
  <1>5. U # {} => Pick(U) \in U /\ SumFunctionOnSet(f, U \ {Pick(U)}) = 0
    BY <1>3 DEF Pick
  <1> QED
    BY <1>1, <1>3, <1>4, <1>5

\* What the entries of a queue look like.
LEMMA QueueFacts ==
  ASSUME NEW q, IsQueue(q)
  PROVE  /\ Registered(q) \subseteq Ids
         /\ Holding(q) \in [Ids -> Seq(Message)]
         /\ q.bytes = Total(Holding(q)) /\ q.bytes \in Nat /\ q.bytes <= MaxBytes
         /\ \A i \in Registered(q) :
              /\ q.streams[i].policy = PolicyOf(i) /\ q.streams[i].maxMessages = LimitOf(i)
              /\ q.streams[i].messages = Holding(q)[i] /\ ~q.streams[i].stopped
         /\ \A i \in Ids : Len(Holding(q)[i]) \in Nat /\ Len(Holding(q)[i]) <= LimitOf(i)
         /\ \A i \in Ids \ Registered(q) : Holding(q)[i] = <<>>
  <1>1. Contents(Registered(q), Holding(q))
    BY DEF IsQueue
  <1>2. \A i \in Registered(q) : i \in Ids => q.streams[i].messages = Holding(q)[i]
    BY DEF Holding
  <1>3. Total(Holding(q)) \in Nat
    BY <1>1, TotalType DEF Contents
  <1>4. \A i \in Ids : Len(Holding(q)[i]) \in Nat
    BY <1>1, LenProperties DEF Contents
  <1> QED
    BY <1>1, <1>2, <1>3, <1>4 DEF Contents, IsQueue

\* Replacing what one stream holds by something shorter keeps the limits.
LEMMA ContentsChange ==
  ASSUME NEW D, NEW h, Contents(D, h), NEW i \in D, NEW ms \in Seq(Message),
         Len(ms) <= LimitOf(i), Total(h) - SizeOf(h[i]) + SizeOf(ms) <= MaxBytes
  PROVE  Contents(D, [h EXCEPT ![i] = ms])
  <1>1. i \in Ids /\ h \in [Ids -> Seq(Message)]
    BY DEF Contents
  <1>2. Total([h EXCEPT ![i] = ms]) <= MaxBytes
    BY <1>1, TotalChange
  <1> QED
    BY <1>1, <1>2 DEF Contents

\* The queue of a new session.
LEMMA EmptyQueueIsQueue ==
  IsQueue(EmptyQueue) /\ Registered(EmptyQueue) = {} /\ \A i \in Ids : Holding(EmptyQueue)[i] = <<>>
  <1>1. /\ Registered(EmptyQueue) = {} /\ EmptyQueue.bytes = 0
        /\ EmptyQueue \in [streams : [{} -> StreamRecord], bytes : Nat]
    BY DEF EmptyQueue, Registered
  <1>2. Holding(EmptyQueue) = [i \in Ids |-> <<>>]
    BY <1>1 DEF Holding
  <1>3. Total(Holding(EmptyQueue)) = 0
    BY <1>2, TotalEmpty
  <1>4. Contents({}, Holding(EmptyQueue))
    BY <1>2, <1>3, Constants, LimitType DEF Contents
  <1> QED
    BY <1>1, <1>2, <1>3, <1>4 DEF IsQueue

\* register() adds a stream that holds nothing.
LEMMA RegisterQueue ==
  ASSUME NEW q, IsQueue(q), NEW i \in Ids \ Registered(q)
  PROVE  LET p == register(q, i, PolicyOf(i), LimitOf(i)) IN
         IsQueue(p) /\ Registered(p) = Registered(q) \cup {i} /\ Holding(p) = Holding(q)
  <1> DEFINE p == register(q, i, PolicyOf(i), LimitOf(i))
             new == [policy |-> PolicyOf(i), maxMessages |-> LimitOf(i), messages |-> <<>>, stopped |-> FALSE]
             D == Registered(q) \cup {i}
             f == [j \in D |-> IF j = i THEN new ELSE q.streams[j]]
  <1>1. /\ new \in StreamRecord /\ new.policy = PolicyOf(i) /\ new.maxMessages = LimitOf(i)
        /\ new.messages = <<>> /\ ~new.stopped
    BY LimitType DEF StreamRecord, PolicyOf
  <1>2. p = [q EXCEPT !.streams = f]
    BY DEF register
  <1>3. q \in [streams : [Registered(q) -> StreamRecord], bytes : Nat]
    BY DEF IsQueue
  <1> HIDE DEF new, p
  <1>4. f \in [D -> StreamRecord]
    BY <1>1, <1>3
  <1>5. f[i] = new /\ \A j \in Registered(q) : f[j] = q.streams[j]
    OBVIOUS
  <1> HIDE DEF f
  <1>6. p \in [streams : [D -> StreamRecord], bytes : Nat] /\ p.streams = f /\ p.bytes = q.bytes
    BY <1>2, <1>3, <1>4
  <1>7. Registered(p) = D
    BY <1>4, <1>6 DEF Registered
  <1>8. Holding(p) = Holding(q)
    <2>1. ASSUME NEW j \in Ids
          PROVE  (IF j \in D THEN p.streams[j].messages ELSE <<>>) =
                 (IF j \in Registered(q) THEN q.streams[j].messages ELSE <<>>)
      BY <1>1, <1>5, <1>6
    <2> QED
      BY <1>7, <2>1 DEF Holding
  <1>9. Contents(D, Holding(q))
    BY DEF IsQueue, Contents
  <1>10. \A j \in D : /\ p.streams[j].policy = PolicyOf(j) /\ p.streams[j].maxMessages = LimitOf(j)
                      /\ ~p.streams[j].stopped
    BY <1>1, <1>5, <1>6 DEF IsQueue
  <1>11. p.bytes = Total(Holding(q))
    BY <1>6 DEF IsQueue
  <1>12. IsQueue(p)
    BY <1>6, <1>7, <1>8, <1>9, <1>10, <1>11 DEF IsQueue
  <1> QED
    BY <1>7, <1>8, <1>12 DEF p

\* The queue with other contents of one stream.
Replaced(q, i, ms, b) == [q EXCEPT !.streams[i].messages = ms, !.bytes = b]

\* A queue whose bytes are adjusted with the contents of one stream stays a queue.
LEMMA ReplaceQueue ==
  ASSUME NEW q, IsQueue(q), NEW i \in Registered(q), NEW ms \in Seq(Message),
         Len(ms) <= LimitOf(i), NEW b, b = q.bytes - SizeOf(Holding(q)[i]) + SizeOf(ms), b <= MaxBytes
  PROVE  LET p == Replaced(q, i, ms, b) IN
         /\ IsQueue(p) /\ Registered(p) = Registered(q)
         /\ Holding(p) = [Holding(q) EXCEPT ![i] = ms]
  <1> DEFINE p == Replaced(q, i, ms, b)
             h == Holding(q)
             g == [h EXCEPT ![i] = ms]
             D == Registered(q)
             f == [q.streams EXCEPT ![i] = [q.streams[i] EXCEPT !.messages = ms]]
  <1>1. /\ h \in [Ids -> Seq(Message)] /\ i \in Ids /\ D \subseteq Ids
        /\ Contents(D, h) /\ q.bytes = Total(h)
    BY QueueFacts DEF IsQueue
  <1>2. Total(g) = b
    BY <1>1, TotalChange
  <1>3. Contents(D, g)
    BY <1>1, ContentsChange
  <1>4. b \in Nat
    BY <1>1, <1>2, TotalType
  <1>5. q \in [streams : [D -> StreamRecord], bytes : Nat]
    BY DEF IsQueue
  <1>6. /\ f \in [D -> StreamRecord]
        /\ f[i].messages = ms /\ f[i].policy = q.streams[i].policy
        /\ f[i].maxMessages = q.streams[i].maxMessages /\ f[i].stopped = q.streams[i].stopped
        /\ \A j \in D : j # i => f[j] = q.streams[j]
    BY <1>5 DEF StreamRecord
  <1>7. p \in [streams : [D -> StreamRecord], bytes : Nat] /\ p.streams = f /\ p.bytes = b
    <2>1. p = [q EXCEPT !.streams = f, !.bytes = b]
      BY <1>5 DEF Replaced
    <2> HIDE DEF f, p, D
    <2> QED
      BY <1>4, <1>5, <1>6, <2>1
  <1> HIDE DEF f, p
  <1>8. Registered(p) = D
    BY <1>6, <1>7 DEF Registered
  <1>9. Holding(p) = g
    <2>1. ASSUME NEW j \in Ids PROVE (IF j \in D THEN p.streams[j].messages ELSE <<>>) = g[j]
      BY <1>6, <1>7, <1>1, QueueFacts
    <2> QED
      BY <1>1, <1>8, <2>1 DEF Holding
  <1>10. \A j \in D : /\ p.streams[j].policy = PolicyOf(j) /\ p.streams[j].maxMessages = LimitOf(j)
                      /\ ~p.streams[j].stopped
    <2>1. \A j \in D : j # i => p.streams[j] = q.streams[j]
      BY <1>6, <1>7
    <2>2. /\ p.streams[i].policy = PolicyOf(i) /\ p.streams[i].maxMessages = LimitOf(i)
          /\ ~p.streams[i].stopped
      BY <1>6, <1>7, QueueFacts
    <2>3. ASSUME NEW j \in D, j # i
          PROVE  /\ p.streams[j].policy = PolicyOf(j) /\ p.streams[j].maxMessages = LimitOf(j)
                 /\ ~p.streams[j].stopped
      BY <2>1, <2>3, QueueFacts
    <2> QED
      BY <2>2, <2>3, Zenon
  <1>11. IsQueue(p)
    BY <1>2, <1>3, <1>7, <1>8, <1>9, <1>10 DEF IsQueue
  <1> QED
    BY <1>8, <1>9, <1>11 DEF p

\* release() empties a stream and gives its bytes back.
LEMMA ReleaseQueue ==
  ASSUME NEW q, IsQueue(q), NEW i \in Registered(q)
  PROVE  LET p == release(q, i) IN
         /\ IsQueue(p) /\ Registered(p) = Registered(q)
         /\ Holding(p) = [Holding(q) EXCEPT ![i] = <<>>]
  <1>1. i \in Ids
    BY QueueFacts
  <1>2. q.streams[i].messages = Holding(q)[i]
    BY QueueFacts
  <1>3. release(q, i) = Replaced(q, i, <<>>, q.bytes - SizeOf(Holding(q)[i]))
    BY <1>2 DEF release, Replaced
  <1>4. SizeOf(Holding(q)[i]) \in Nat /\ q.bytes \in Nat /\ q.bytes <= MaxBytes
    BY <1>1, QueueFacts, SizeType
  <1>5. <<>> \in Seq(Message) /\ Len(<<>>) <= LimitOf(i)
    BY <1>1, LimitType
  <1>6. /\ q.bytes - SizeOf(Holding(q)[i]) = q.bytes - SizeOf(Holding(q)[i]) + SizeOf(<<>>)
        /\ q.bytes - SizeOf(Holding(q)[i]) <= MaxBytes
    BY <1>4, SizeEmpty, Constants
  <1> DEFINE b == q.bytes - SizeOf(Holding(q)[i])
             none == <<>>
  <1>7. b = q.bytes - SizeOf(Holding(q)[i]) + SizeOf(none) /\ b <= MaxBytes
    BY <1>6
  <1>8. none \in Seq(Message) /\ Len(none) <= LimitOf(i) /\ release(q, i) = Replaced(q, i, none, b)
    BY <1>3, <1>5
  <1> HIDE DEF b, none
  <1>9. LET p == Replaced(q, i, none, b) IN
         /\ IsQueue(p) /\ Registered(p) = Registered(q)
         /\ Holding(p) = [Holding(q) EXCEPT ![i] = none]
    BY <1>7, <1>8, ReplaceQueue
  <1> QED
    BY <1>8, <1>9 DEF none

Added(q, i, m) == [q EXCEPT !.streams[i].messages = Append(@, m), !.bytes = @ + m.size]

\* A message that fits is appended.
LEMMA AppendQueue ==
  ASSUME NEW q, IsQueue(q), NEW i \in Registered(q), NEW m \in Message, Fits(q, i, m)
  PROVE  LET p == Added(q, i, m) IN
         /\ IsQueue(p) /\ Registered(p) = Registered(q)
         /\ Holding(p) = [Holding(q) EXCEPT ![i] = Append(Holding(q)[i], m)]
  <1> DEFINE p == Added(q, i, m)
             old == Holding(q)[i]
             ms == Append(old, m)
             b == q.bytes + m.size
  <1>1. i \in Ids /\ old \in Seq(Message) /\ q.streams[i].messages = old /\ q.streams[i].maxMessages = LimitOf(i)
    BY QueueFacts
  <1>2. q.bytes \in Nat /\ m.size \in Nat /\ Len(old) \in Nat /\ LimitOf(i) \in Nat /\ MaxBytes \in Nat
    BY <1>1, QueueFacts, MessageFields, LimitType, Constants
  <1>3. p = Replaced(q, i, ms, b)
    BY <1>1 DEF Replaced, Added
  <1>4. Len(old) < LimitOf(i) /\ m.size <= MaxBytes - q.bytes
    BY <1>1 DEF Fits
  <1>5. ms \in Seq(Message) /\ SizeOf(ms) = SizeOf(old) + m.size /\ Len(ms) = Len(old) + 1
    BY <1>1, SizeAppend, AppendProperties
  <1>6. SizeOf(old) \in Nat
    BY <1>1, SizeType
  <1> HIDE DEF p, b, ms, old
  <1>7. b = q.bytes - SizeOf(old) + SizeOf(ms) /\ b <= MaxBytes /\ Len(ms) <= LimitOf(i)
    BY <1>2, <1>4, <1>5, <1>6 DEF b
  <1>8. LET r == Replaced(q, i, ms, b) IN
         /\ IsQueue(r) /\ Registered(r) = Registered(q)
         /\ Holding(r) = [Holding(q) EXCEPT ![i] = ms]
    BY <1>5, <1>7, ReplaceQueue DEF old
  <1> QED
    BY <1>3, <1>8 DEF p, ms, old

\* enqueue() on a reliable stream that has room appends.
LEMMA EnqueueReliable ==
  ASSUME NEW q, IsQueue(q), NEW i \in Registered(q) \ Latest, NEW m \in Message, ~Overflows(q, i, m)
  PROVE  LET p == enqueue(q, i, m) IN
         /\ IsQueue(p) /\ Registered(p) = Registered(q)
         /\ Holding(p) = [Holding(q) EXCEPT ![i] = Append(Holding(q)[i], m)]
  <1>1. q.streams[i].policy = "reliable"
    BY QueueFacts DEF PolicyOf
  <1>2. Fits(q, i, m)
    BY <1>1 DEF Overflows
  <1>3. enqueue(q, i, m) = Added(q, i, m)
    BY <1>1, <1>2 DEF enqueue, Added
  <1> QED
    BY <1>2, <1>3, AppendQueue

\* A latest stream holds the new sample alone, or nothing.
LEMMA EnqueueLatest ==
  ASSUME NEW q, IsQueue(q), NEW i \in Registered(q) \cap Latest, NEW m \in Message
  PROVE  LET p == enqueue(q, i, m) IN
         /\ IsQueue(p) /\ Registered(p) = Registered(q)
         /\ \/ Holding(p) = [Holding(q) EXCEPT ![i] = <<>>]
            \/ Holding(p) = [Holding(q) EXCEPT ![i] = Append(<<>>, m)]
  <1> DEFINE h == Holding(q)
             r == release(q, i)
             t == Added(r, i, m)
  <1>1. q.streams[i].policy = "latest"
    BY QueueFacts DEF PolicyOf
  <1>2. enqueue(q, i, m) = IF Fits(r, i, m) THEN t ELSE r
    BY <1>1 DEF enqueue, Added
  <1>3. IsQueue(r) /\ Registered(r) = Registered(q) /\ Holding(r) = [h EXCEPT ![i] = <<>>]
    BY ReleaseQueue
  <1>4. h \in [Ids -> Seq(Message)] /\ i \in Ids
    BY QueueFacts
  <1> HIDE DEF r, h
  <1>5. CASE Fits(r, i, m)
    <2>1. IsQueue(t) /\ Registered(t) = Registered(r) /\ Holding(t) = [Holding(r) EXCEPT ![i] = Append(Holding(r)[i], m)]
      <3>1. IsQueue(r) /\ i \in Registered(r)
        BY <1>3
      <3> QED
        BY <1>5, <3>1, AppendQueue
    <2>2. [[h EXCEPT ![i] = <<>>] EXCEPT ![i] = Append(<<>>, m)] = [h EXCEPT ![i] = Append(<<>>, m)]
      BY <1>4
    <2>3. Holding(r)[i] = <<>>
      BY <1>3, <1>4
    <2> HIDE DEF t
    <2> QED
      BY <1>2, <1>3, <1>5, <2>1, <2>2, <2>3 DEF h
  <1>6. CASE ~Fits(r, i, m)
    BY <1>2, <1>3, <1>6 DEF h
  <1> QED
    BY <1>5, <1>6

\* dequeue() drops the messages that were sent, and their bytes.
LEMMA DequeueQueue ==
  ASSUME NEW q, IsQueue(q), NEW i \in Registered(q), NEW n \in 0 .. Len(Holding(q)[i])
  PROVE  LET p == dequeue(q, i, n)
             ms == Holding(q)[i]
         IN /\ IsQueue(p) /\ Registered(p) = Registered(q)
            /\ Holding(p) = [Holding(q) EXCEPT ![i] = SubSeq(ms, n + 1, Len(ms))]
  <1> DEFINE ms == Holding(q)[i]
             taken == SubSeq(ms, 1, n)
             rest == SubSeq(ms, n + 1, Len(ms))
             b == q.bytes - SizeOf(taken)
  <1>1. i \in Ids /\ ms \in Seq(Message) /\ q.streams[i].messages = ms
    BY QueueFacts
  <1>2. q.bytes \in Nat /\ q.bytes <= MaxBytes /\ Len(ms) \in Nat /\ Len(ms) <= LimitOf(i)
        /\ LimitOf(i) \in Nat /\ MaxBytes \in Nat
    BY <1>1, QueueFacts, LimitType, Constants
  <1>3. /\ taken \in Seq(Message) /\ rest \in Seq(Message) /\ Len(rest) = Len(ms) - n
        /\ SizeOf(ms) = SizeOf(taken) + SizeOf(rest)
    BY <1>1, SizeSplit
  <1>4. dequeue(q, i, n) = Replaced(q, i, rest, b)
    BY <1>1 DEF dequeue, Replaced
  <1>5. SizeOf(taken) \in Nat /\ SizeOf(rest) \in Nat
    BY <1>3, SizeType
  <1> HIDE DEF taken, rest, b
  <1>6. b = q.bytes - SizeOf(ms) + SizeOf(rest) /\ b <= MaxBytes /\ Len(rest) <= LimitOf(i)
    BY <1>2, <1>3, <1>5 DEF b
  <1>7. LET r == Replaced(q, i, rest, b) IN
         /\ IsQueue(r) /\ Registered(r) = Registered(q)
         /\ Holding(r) = [Holding(q) EXCEPT ![i] = rest]
    <2>1. /\ rest \in Seq(Message) /\ Len(rest) <= LimitOf(i)
          /\ b = q.bytes - SizeOf(Holding(q)[i]) + SizeOf(rest) /\ b <= MaxBytes
      BY <1>3, <1>6
    <2> QED
      BY <2>1, ReplaceQueue
  <1> QED
    BY <1>4, <1>7 DEF rest

\* closeStream() empties a stream and forgets it.
LEMMA CloseQueue ==
  ASSUME NEW q, IsQueue(q), NEW i \in Registered(q)
  PROVE  LET p == closeStream(q, i) IN
         /\ IsQueue(p) /\ Registered(p) = Registered(q) \ {i}
         /\ Holding(p) = [Holding(q) EXCEPT ![i] = <<>>]
  <1> DEFINE p == closeStream(q, i)
             r == release(q, i)
             D == Registered(q) \ {i}
             f == [j \in D |-> q.streams[j]]
             g == [Holding(q) EXCEPT ![i] = <<>>]
  <1>1. IsQueue(r) /\ Registered(r) = Registered(q) /\ Holding(r) = g
    BY ReleaseQueue
  <1>2. p = [r EXCEPT !.streams = f]
    BY DEF closeStream
  <1>3. r \in [streams : [Registered(q) -> StreamRecord], bytes : Nat] /\ r.bytes = Total(g)
    BY <1>1 DEF IsQueue
  <1>4. Holding(q) \in [Ids -> Seq(Message)] /\ i \in Ids /\ Contents(Registered(q), g)
    BY <1>1, QueueFacts DEF IsQueue
  <1> HIDE DEF r
  <1>5. f \in [D -> StreamRecord] /\ \A j \in D : f[j] = q.streams[j]
    BY DEF IsQueue
  <1> HIDE DEF f, p
  <1>6. p \in [streams : [D -> StreamRecord], bytes : Nat] /\ p.streams = f /\ p.bytes = Total(g)
    BY <1>2, <1>3, <1>5
  <1>7. Registered(p) = D
    BY <1>5, <1>6 DEF Registered
  <1>8. Holding(p) = g
    <2>1. ASSUME NEW j \in Ids PROVE (IF j \in D THEN p.streams[j].messages ELSE <<>>) = g[j]
      BY <1>4, <1>5, <1>6, QueueFacts
    <2>2. g = [j \in Ids |-> g[j]]
      BY <1>4
    <2> HIDE DEF g
    <2> QED
      BY <1>7, <2>1, <2>2 DEF Holding
  <1>9. Contents(D, g)
    BY <1>4 DEF Contents
  <1>10. ASSUME NEW j \in D
         PROVE  /\ p.streams[j].policy = PolicyOf(j) /\ p.streams[j].maxMessages = LimitOf(j)
                /\ ~p.streams[j].stopped
    BY <1>5, <1>6, QueueFacts
  <1> HIDE DEF g
  <1>11. IsQueue(p)
    BY <1>6, <1>7, <1>8, <1>9, <1>10 DEF IsQueue
  <1> QED
    BY <1>7, <1>8, <1>11 DEF p, g

-----------------------------------------------------------------------------
(***************************************************************************)
(* How much of a queue one drain() takes.                                  *)
(***************************************************************************)

Fitting(ms, room) == {n \in 0 .. Len(ms) : SizeOf(SubSeq(ms, 1, n)) <= room}
Taken(ms, room) == CHOOSE n \in Fitting(ms, room) : \A m \in Fitting(ms, room) : m <= n

\* As many messages as fit; the next one, if there is one, does not.
LEMMA TakenFits ==
  ASSUME NEW ms \in Seq(Message), NEW room \in Nat
  PROVE  LET n == Taken(ms, room)
             taken == SubSeq(ms, 1, n)
         IN /\ n \in 0 .. Len(ms)
            /\ SizeOf(taken) <= room
            /\ n < Len(ms) => SizeOf(taken) + MaxMessageBytes > room
  <1> DEFINE F == Fitting(ms, room)
             n == Taken(ms, room)
             taken == SubSeq(ms, 1, n)
  <1>1. Len(ms) \in Nat /\ \A i \in 1 .. Len(ms) : ms[i] \in Message
    BY LenProperties, ElementOfSeq
  <1>2. F \in SUBSET (0 .. Len(ms)) /\ 0 \in F
    <2>1. SubSeq(ms, 1, 0) = <<>>
      BY SubSeqEmpty
    <2>2. SizeOf(SubSeq(ms, 1, 0)) <= room
      <3> DEFINE z == SizeOf(SubSeq(ms, 1, 0))
      <3>1. z = 0
        BY <2>1, SizeEmpty, Zenon
      <3> HIDE DEF z
      <3>2. z <= room
        BY <3>1
      <3> QED
        BY <3>2 DEF z
    <2>3. 0 \in 0 .. Len(ms)
      BY <1>1
    <2> QED
      BY <2>2, <2>3 DEF Fitting
  <1>3. \E x \in F : \A y \in F : y <= x
    <2> HIDE DEF F
    <2>1. F # {}
      BY <1>2
    <2> QED
      BY <1>1, <1>2, <2>1, LargestNumber
  <1>4. n \in F /\ \A m \in F : m <= n
    BY <1>3, Zenon DEF Taken
  <1>5. n \in 0 .. Len(ms) /\ SizeOf(taken) <= room
    BY <1>4 DEF Fitting
  <1>6. ASSUME n < Len(ms) PROVE SizeOf(taken) + MaxMessageBytes > room
    <2> DEFINE more == SubSeq(ms, 1, n + 1)
    <2>1. n \in Nat /\ n + 1 \in 0 .. Len(ms) /\ n + 1 \in 1 .. Len(ms)
      BY <1>1, <1>5, <1>6
    <2>2. n + 1 \notin F
      BY <1>4, <2>1
    <2>3. ~(SizeOf(more) <= room)
      BY <2>1, <2>2 DEF Fitting
    <2>4. taken \in Seq(Message) /\ more \in Seq(Message) /\ Len(taken) = n /\ Len(more) = n + 1
      BY <1>5, <2>1, SizeSplit
    <2>5. (\A i \in 1 .. n : more[i] = taken[i]) /\ more[n + 1] = ms[n + 1]
      BY <1>1, <2>1, SubSeqProperties
    <2> DEFINE m == ms[n + 1]
    <2>6. m \in Message
      BY <1>1, <2>1
    <2> HIDE DEF n, taken, more, m, F
    <2>7. more = Append(taken, m)
      BY <2>4, <2>5, <2>6, IsAppend DEF m
    <2>8. SizeOf(more) = SizeOf(taken) + m.size
      BY <2>4, <2>6, <2>7, SizeAppend
    <2>9. m.size \in Nat /\ m.size <= MaxMessageBytes
      BY <2>6, MessageFields, Constants
    <2>10. SizeOf(taken) \in Nat /\ SizeOf(more) \in Nat
      BY <2>4, SizeType
    <2> QED
      BY <2>3, <2>8, <2>9, <2>10, Constants
  <1> HIDE DEF n, taken
  <1> QED
    BY <1>5, <1>6 DEF n, taken

-----------------------------------------------------------------------------
(***************************************************************************)
(* The session.                                                            *)
(***************************************************************************)

Queues == [streams : UNION {[D -> StreamRecord] : D \in SUBSET Ids}, bytes : Nat]

SessionRecord ==
  [queue : Queues, order : Seq(Streams), ready : SUBSET Streams, next : [Ids -> Nat],
   flight : [Channels -> Seq(Message)], sent : [Ids -> Seq(Nat)], open : BOOLEAN, blocked : BOOLEAN]

Held(s, i) == Holding(s.queue)[i]

\* The sequence numbers a stream handed over, then those it still holds.
Trail(s, i) == s.sent[i] \o Numbers(Held(s, i))

\* What a trail looks like when numbers 0 .. n - 1 have been drawn.
TrailOK(i, live, all, n) ==
  /\ \A k \in 1 .. Len(all) : all[k] < n
  /\ live /\ i \notin Latest => all = [k \in 1 .. n |-> k - 1]
  /\ i \in Latest => \A k \in 1 .. Len(all) - 1 : all[k] < all[k + 1]

Distinct(order) == \A j, k \in DOMAIN order : order[j] = order[k] => j = k

\* The subscriptions, the queue's streams and the open flag agree.
Registry(s) ==
  /\ Distinct(s.order)
  /\ Registered(s.queue) = IF s.open THEN ToSet(s.order) \cup {"control"} ELSE {}
  /\ ~s.open => s.order = <<>>
  /\ s.ready \subseteq ToSet(s.order)

\* A session between two steps of its handlers.
Sound(s) ==
  /\ s \in SessionRecord
  /\ IsQueue(s.queue)
  /\ Registry(s)
  /\ \A c \in Channels : SizeOf(s.flight[c]) <= MaxBuffered
  /\ \A i \in Ids : TrailOK(i, i \in Registered(s.queue), Trail(s, i), s.next[i])

\* The record of a queue.
LEMMA IsQueueType ==
  ASSUME NEW q, IsQueue(q) PROVE q \in Queues
  BY DEF IsQueue, Queues, Contents

\* Every stream has a channel.
LEMMA ChannelType == \A i : ChannelOf(i) \in Channels
  BY DEF ChannelOf, Channels

\* What a stream holds is a sequence of messages.
LEMMA HeldType ==
  ASSUME NEW s, IsQueue(s.queue), NEW i \in Ids
  PROVE  Held(s, i) \in Seq(Message)
  BY QueueFacts DEF Held

\* The numbers sent and held are sequences of numbers.
LEMMA TrailType ==
  ASSUME NEW s \in SessionRecord, IsQueue(s.queue), NEW i \in Ids
  PROVE  s.sent[i] \in Seq(Nat) /\ Numbers(Held(s, i)) \in Seq(Nat) /\ Trail(s, i) \in Seq(Nat)
  BY HeldType, WeightsSeq, ConcatProperties DEF SessionRecord, Trail

\* What drain() changes.
LEMMA DrainFields ==
  ASSUME NEW s, Sound(s), NEW i \in Registered(s.queue)
  PROVE  LET c == ChannelOf(i)
             ms == Held(s, i)
             n == Taken(ms, Room(s, c))
             taken == SubSeq(ms, 1, n)
             t == drain(s, i)
         IN /\ t \in [queue : {dequeue(s.queue, i, n)}, order : {s.order}, ready : {s.ready},
                      next : {s.next}, flight : {[s.flight EXCEPT ![c] = s.flight[c] \o taken]},
                      sent : {[s.sent EXCEPT ![i] = s.sent[i] \o Numbers(taken)]},
                      open : {s.open}, blocked : {n < Len(ms)}]
            /\ n \in 0 .. Len(ms) /\ Room(s, c) \in Nat
            /\ SizeOf(taken) <= Room(s, c)
            /\ n < Len(ms) => SizeOf(taken) + MaxMessageBytes > Room(s, c)
  <1> DEFINE c == ChannelOf(i)
             ms == Held(s, i)
             n == Taken(ms, Room(s, c))
             taken == SubSeq(ms, 1, n)
             t == drain(s, i)
  <1>1. s \in SessionRecord /\ IsQueue(s.queue) /\ i \in Ids /\ c \in Channels
    BY QueueFacts, ChannelType DEF Sound
  <1>2. ms \in Seq(Message) /\ s.queue.streams[i].messages = ms
    BY <1>1, QueueFacts DEF Held
  <1>3. Room(s, c) \in Nat
    <2>1. s.flight[c] \in Seq(Message) /\ SizeOf(s.flight[c]) <= MaxBuffered
      BY <1>1 DEF Sound, SessionRecord
    <2>2. SizeOf(s.flight[c]) \in Nat
      BY <2>1, SizeType
    <2> QED
      BY <2>1, <2>2, Constants DEF Room, Buffered
  <1>4. /\ n \in 0 .. Len(ms) /\ SizeOf(taken) <= Room(s, c)
        /\ n < Len(ms) => SizeOf(taken) + MaxMessageBytes > Room(s, c)
    BY <1>2, <1>3, TakenFits
  <1>5. Numbers(taken) = [k \in 1 .. n |-> taken[k].seq]
    <2>1. taken \in Seq(Message) /\ Len(taken) = n
      BY <1>2, <1>4, SizeSplit
    <2>2. DOMAIN taken = 1 .. n
      BY <2>1, LenProperties
    <2> QED
      BY <2>2 DEF Numbers
  <1>6. t = [s EXCEPT !.queue = dequeue(s.queue, i, n),
                      !.flight[c] = s.flight[c] \o taken,
                      !.sent[i] = s.sent[i] \o Numbers(taken),
                      !.blocked = n < Len(ms)]
    <2>1. t = [s EXCEPT !.queue = dequeue(s.queue, i, n),
                      !.flight[c] = s.flight[c] \o taken,
                      !.sent[i] = s.sent[i] \o [k \in 1 .. n |-> taken[k].seq],
                      !.blocked = n < Len(ms)]
      BY <1>2 DEF drain, Taken, Fitting
    <2> QED
      BY <1>5, <2>1
  <1> HIDE DEF c, ms, n, taken, t
  <1>7. t \in [queue : {dequeue(s.queue, i, n)}, order : {s.order}, ready : {s.ready},
                      next : {s.next}, flight : {[s.flight EXCEPT ![c] = s.flight[c] \o taken]},
                      sent : {[s.sent EXCEPT ![i] = s.sent[i] \o Numbers(taken)]},
                      open : {s.open}, blocked : {n < Len(ms)}]
    BY <1>1, <1>6 DEF SessionRecord
  <1> QED
    BY <1>3, <1>4, <1>7 DEF c, ms, n, taken, t

\* What a caller of drain() relies on: t follows s, and stream i was drained.
Drains(s, t, i) ==
  LET c == ChannelOf(i) IN
  /\ t.order = s.order /\ t.ready = s.ready /\ t.next = s.next /\ t.open = s.open
  /\ Registered(t.queue) = Registered(s.queue)
  /\ \A j \in Ids \ {i} : t.sent[j] = s.sent[j] /\ Held(t, j) = Held(s, j)
  /\ t.blocked <=> Held(t, i) # <<>>
  /\ t.blocked => SizeOf(t.flight[c]) + MaxMessageBytes > MaxBuffered
  /\ \A d \in Channels : SizeOf(s.flight[d]) <= SizeOf(t.flight[d])
  /\ \A k \in DOMAIN Held(t, i) : \E l \in DOMAIN Held(s, i) : Held(t, i)[k] = Held(s, i)[l]

\* drain() moves a prefix of what one stream holds into its channel, and nothing else.
LEMMA DrainSound ==
  ASSUME NEW s, Sound(s), NEW i \in Registered(s.queue)
  PROVE  Sound(drain(s, i)) /\ Drains(s, drain(s, i), i)
  <1> DEFINE c == ChannelOf(i)
             ms == Held(s, i)
             n == Taken(ms, Room(s, c))
             taken == SubSeq(ms, 1, n)
             rest == SubSeq(ms, n + 1, Len(ms))
             t == drain(s, i)
  <1>1. /\ s \in SessionRecord /\ IsQueue(s.queue) /\ i \in Ids /\ c \in Channels
        /\ ms \in Seq(Message) /\ Len(ms) \in Nat /\ Registry(s)
    BY QueueFacts, ChannelType, HeldType, LenProperties DEF Sound
  <1>2. /\ t \in [queue : {dequeue(s.queue, i, n)}, order : {s.order}, ready : {s.ready},
                      next : {s.next}, flight : {[s.flight EXCEPT ![c] = s.flight[c] \o taken]},
                      sent : {[s.sent EXCEPT ![i] = s.sent[i] \o Numbers(taken)]},
                      open : {s.open}, blocked : {n < Len(ms)}]
        /\ n \in 0 .. Len(ms) /\ Room(s, c) \in Nat
        /\ SizeOf(taken) <= Room(s, c)
        /\ n < Len(ms) => SizeOf(taken) + MaxMessageBytes > Room(s, c)
    BY DrainFields
  <1>3. /\ taken \in Seq(Message) /\ rest \in Seq(Message) /\ Len(rest) = Len(ms) - n
        /\ Numbers(ms) = Numbers(taken) \o Numbers(rest)
        /\ \A k \in 1 .. Len(rest) : rest[k] = ms[n + k]
    BY <1>1, <1>2, SizeSplit
  <1>4. /\ IsQueue(dequeue(s.queue, i, n)) /\ Registered(dequeue(s.queue, i, n)) = Registered(s.queue)
        /\ Holding(dequeue(s.queue, i, n)) = [Holding(s.queue) EXCEPT ![i] = rest]
    <2> HIDE DEF n
    <2>1. IsQueue(s.queue) /\ i \in Registered(s.queue) /\ n \in 0 .. Len(Holding(s.queue)[i])
      BY <1>1, <1>2 DEF Held
    <2> QED
      BY <2>1, DequeueQueue DEF Held
  <1> HIDE DEF c, ms, n, taken, rest, t
  <1>5. /\ t.queue = dequeue(s.queue, i, n) /\ t.order = s.order /\ t.ready = s.ready /\ t.next = s.next
        /\ t.flight = [s.flight EXCEPT ![c] = s.flight[c] \o taken]
        /\ t.sent = [s.sent EXCEPT ![i] = s.sent[i] \o Numbers(taken)]
        /\ t.open = s.open /\ (t.blocked <=> n < Len(ms))
    BY <1>2
  <1>6. /\ s.flight \in [Channels -> Seq(Message)] /\ s.sent \in [Ids -> Seq(Nat)]
        /\ Holding(s.queue) \in [Ids -> Seq(Message)]
    BY <1>1, QueueFacts DEF SessionRecord
  <1>7. /\ Held(t, i) = rest /\ \A j \in Ids \ {i} : Held(t, j) = Held(s, j)
    BY <1>1, <1>4, <1>5, <1>6 DEF Held
  <1>8. /\ t.flight \in [Channels -> Seq(Message)]
        /\ t.flight[c] = s.flight[c] \o taken /\ \A d \in Channels \ {c} : t.flight[d] = s.flight[d]
    <2>1. s.flight[c] \o taken \in Seq(Message)
      BY <1>1, <1>3, <1>6, ConcatProperties
    <2> QED
      BY <1>1, <1>5, <1>6, <2>1
  <1>9. /\ t.sent \in [Ids -> Seq(Nat)]
        /\ t.sent[i] = s.sent[i] \o Numbers(taken) /\ \A j \in Ids \ {i} : t.sent[j] = s.sent[j]
    <2>1. s.sent[i] \o Numbers(taken) \in Seq(Nat)
      BY <1>1, <1>3, <1>6, WeightsSeq, ConcatProperties
    <2> QED
      BY <1>1, <1>5, <1>6, <2>1
  <1>10. t \in SessionRecord
    <2>1. t.queue \in Queues
      BY <1>4, <1>5, IsQueueType
    <2>2. t.blocked \in BOOLEAN /\ t.open \in BOOLEAN
      <3>1. s.open \in BOOLEAN /\ (n < Len(ms)) \in BOOLEAN
        BY <1>1 DEF SessionRecord
      <3>2. t.blocked \in {n < Len(ms)} /\ t.open \in {s.open}
        BY <1>2
      <3> QED
        BY <3>1, <3>2, Zenon
    <2> QED
      BY <1>1, <1>2, <1>5, <1>8, <1>9, <2>1, <2>2 DEF SessionRecord
  <1>11. /\ SizeOf(t.flight[c]) = SizeOf(s.flight[c]) + SizeOf(taken)
         /\ SizeOf(s.flight[c]) \in Nat /\ SizeOf(taken) \in Nat /\ SizeOf(s.flight[c]) <= MaxBuffered
         /\ Room(s, c) = MaxBuffered - SizeOf(s.flight[c])
    BY <1>1, <1>3, <1>6, <1>8, SizeConcat, SizeType DEF Room, Buffered, Sound
  <1>12. /\ SizeOf(t.flight[c]) <= MaxBuffered /\ SizeOf(s.flight[c]) <= SizeOf(t.flight[c])
         /\ n < Len(ms) => SizeOf(t.flight[c]) + MaxMessageBytes > MaxBuffered
    BY <1>2, <1>11, Constants
  <1>13. \A d \in Channels : SizeOf(t.flight[d]) <= MaxBuffered /\ SizeOf(s.flight[d]) <= SizeOf(t.flight[d])
    <2>1. \A d \in Channels : SizeOf(s.flight[d]) \in Nat /\ SizeOf(s.flight[d]) <= MaxBuffered
      BY <1>6, SizeType DEF Sound
    <2>2. ASSUME NEW d \in Channels
          PROVE  SizeOf(t.flight[d]) <= MaxBuffered /\ SizeOf(s.flight[d]) <= SizeOf(t.flight[d])
      <3>1. CASE d = c
        BY <1>12, <3>1
      <3>2. CASE d # c
        <4>1. t.flight[d] = s.flight[d]
          BY <1>8, <3>2
        <4> QED
          BY <2>1, <4>1
      <3> QED
        BY <3>1, <3>2
    <2> QED
      BY <2>2
  <1>14. Registry(t)
    BY <1>1, <1>4, <1>5 DEF Registry
  <1>15. Trail(t, i) = Trail(s, i) /\ \A j \in Ids \ {i} : Trail(t, j) = Trail(s, j)
    <2> DEFINE a == s.sent[i]
               b == Numbers(taken)
               d == Numbers(rest)
    <2>1. a \in Seq(Nat) /\ b \in Seq(Nat) /\ d \in Seq(Nat)
      BY <1>1, <1>3, <1>6, WeightsSeq
    <2>2. Trail(t, i) = (a \o b) \o d /\ Trail(s, i) = a \o (b \o d)
      BY <1>3, <1>7, <1>9 DEF Trail, ms
    <2>3. (a \o b) \o d = a \o (b \o d)
      <3> HIDE DEF a, b, d
      <3> QED
        BY <2>1, ConcatAssociative
    <2> QED
      BY <1>7, <1>9, <2>2, <2>3 DEF Trail
  <1>16. \A j \in Ids : TrailOK(j, j \in Registered(t.queue), Trail(t, j), t.next[j])
    BY <1>4, <1>5, <1>15 DEF Sound
  <1>17. t.blocked <=> Held(t, i) # <<>>
    BY <1>1, <1>2, <1>3, <1>5, <1>7
  <1>18. Sound(t)
    BY <1>4, <1>5, <1>10, <1>13, <1>14, <1>16 DEF Sound
  <1>20. \A k \in DOMAIN Held(t, i) : \E l \in DOMAIN Held(s, i) : Held(t, i)[k] = Held(s, i)[l]
    <2>1. DOMAIN rest = 1 .. Len(rest) /\ DOMAIN ms = 1 .. Len(ms) /\ n \in Nat
      BY <1>1, <1>2, <1>3, LenProperties
    <2>2. ASSUME NEW k \in DOMAIN rest PROVE \E l \in DOMAIN ms : rest[k] = ms[l]
      <3>1. n + k \in DOMAIN ms /\ rest[k] = ms[n + k]
        BY <1>1, <1>3, <2>1
      <3> QED
        BY <3>1
    <2> QED
      BY <1>7, <2>2 DEF ms
  <1>19. Drains(s, t, i)
    BY <1>4, <1>5, <1>7, <1>9, <1>12, <1>13, <1>17, <1>20 DEF Drains, c
  <1> QED
    BY <1>18, <1>19 DEF t

\* The fields of a sound session.
LEMMA SessionFields ==
  ASSUME NEW s, Sound(s)
  PROVE  /\ s \in SessionRecord /\ IsQueue(s.queue) /\ Registry(s)
         /\ s.order \in Seq(Streams) /\ s.ready \in SUBSET Streams
         /\ s.next \in [Ids -> Nat] /\ s.flight \in [Channels -> Seq(Message)]
         /\ s.sent \in [Ids -> Seq(Nat)]
         /\ \A i \in Ids : Held(s, i) \in Seq(Message)
         /\ Registered(s.queue) \subseteq Ids
  BY HeldType, QueueFacts DEF Sound, SessionRecord

\* A trail cut short, as when a stream goes with what it holds, is still in order.
LEMMA TrailCut ==
  ASSUME NEW i, NEW live, NEW a \in Seq(Nat), NEW b \in Seq(Nat), NEW n,
         TrailOK(i, live, a \o b, n)
  PROVE  TrailOK(i, FALSE, a, n)
  <1> DEFINE t == a \o b
  <1>1. /\ Len(a) \in Nat /\ Len(b) \in Nat /\ Len(t) = Len(a) + Len(b)
        /\ \A k \in 1 .. Len(a) : t[k] = a[k]
    BY ConcatProperties, LenProperties
  <1> HIDE DEF t
  <1>2. \A k \in 1 .. Len(a) : a[k] < n
    BY <1>1 DEF TrailOK, t
  <1>3. ASSUME i \in Latest, NEW k \in 1 .. Len(a) - 1 PROVE a[k] < a[k + 1]
    <2>1. k \in 1 .. Len(t) - 1 /\ k \in 1 .. Len(a) /\ k + 1 \in 1 .. Len(a)
      BY <1>1
    <2>2. t[k] < t[k + 1]
      BY <1>3, <2>1 DEF TrailOK, t
    <2> QED
      BY <1>1, <2>1, <2>2
  <1> QED
    BY <1>2, <1>3 DEF TrailOK

\* close() leaves nothing behind but the history.
LEMMA CloseSound ==
  ASSUME NEW s, Sound(s)
  PROVE  LET t == closeRouter(s) IN
         /\ Sound(t) /\ ~t.open
         /\ t.sent = s.sent /\ t.flight = s.flight /\ t.next = s.next
         /\ \A i \in Ids : Held(t, i) = <<>>
  <1> DEFINE t == closeRouter(s)
  <1>1. /\ s \in SessionRecord /\ s.flight \in [Channels -> Seq(Message)] /\ s.sent \in [Ids -> Seq(Nat)]
        /\ \A i \in Ids : Held(s, i) \in Seq(Message)
    BY SessionFields
  <1>2. t \in [queue : {EmptyQueue}, order : {<<>>}, ready : {{}}, next : {s.next}, flight : {s.flight},
               sent : {s.sent}, open : {FALSE}, blocked : {s.blocked}]
    BY <1>1 DEF closeRouter, SessionRecord
  <1> HIDE DEF t
  <1>3. EmptyQueue \in Queues
    BY EmptyQueueIsQueue, IsQueueType
  <1>4. t \in SessionRecord
    <2>1. <<>> \in Seq(Streams) /\ {} \in SUBSET Streams /\ FALSE \in BOOLEAN
      OBVIOUS
    <2>2. s.blocked \in BOOLEAN
      BY <1>1 DEF SessionRecord
    <2> QED
      BY <1>1, <1>2, <1>3, <2>1, <2>2 DEF SessionRecord
  <1>5. /\ t.queue = EmptyQueue /\ t.order = <<>> /\ t.ready = {} /\ t.next = s.next /\ t.flight = s.flight
        /\ t.sent = s.sent /\ t.open = FALSE
    BY <1>2
  <1>6. Registry(t)
    BY <1>5, EmptyQueueIsQueue DEF Registry, Distinct
  <1>7. \A i \in Ids : Held(t, i) = <<>>
    BY <1>5, EmptyQueueIsQueue DEF Held
  <1>8. ASSUME NEW i \in Ids
        PROVE  TrailOK(i, i \in Registered(t.queue), Trail(t, i), t.next[i])
    <2>1. Trail(t, i) = s.sent[i]
      <3>1. s.sent[i] \in Seq(Nat) /\ s.sent[i] \o <<>> = s.sent[i]
        BY <1>1, ConcatEmptySeq
      <3> QED
        BY <1>5, <1>7, <3>1, SizeEmpty DEF Trail
    <2>2. TrailOK(i, i \in Registered(s.queue), s.sent[i] \o Numbers(Held(s, i)), s.next[i])
      BY DEF Sound, Trail
    <2>3. TrailOK(i, FALSE, s.sent[i], s.next[i])
      <3>1. s.sent[i] \in Seq(Nat) /\ Numbers(Held(s, i)) \in Seq(Nat)
        BY <1>1, WeightsSeq
      <3> QED
        BY <2>2, <3>1, TrailCut
    <2> QED
      BY <1>5, <2>1, <2>3, EmptyQueueIsQueue DEF TrailOK
  <1>9. Sound(t)
    BY <1>4, <1>5, <1>6, <1>8, EmptyQueueIsQueue DEF Sound
  <1> QED
    BY <1>5, <1>7, <1>9 DEF t

\* Removing an element from a sequence without duplicates.
LEMMA RemoveFirstSpec ==
  ASSUME NEW S, NEW o \in Seq(S), Distinct(o), NEW e \in ToSet(o)
  PROVE  LET r == RemoveFirst(o, e) IN
         r \in Seq(S) /\ Distinct(r) /\ ToSet(r) = ToSet(o) \ {e}
  <1>1. Len(o) \in Nat /\ DOMAIN o = 1 .. Len(o) /\ \A k \in 1 .. Len(o) : o[k] \in S
    BY LenProperties, ElementOfSeq
  <1>2. PICK j \in 1 .. Len(o) : o[j] = e
    BY <1>1 DEF ToSet
  <1>3. {k \in 1 .. Len(o) : o[k] = e} = {j}
    BY <1>1, <1>2 DEF Distinct
  <1>4. Min({j}) = j
    <2>1. \E x \in {j} : \A y \in {j} : x <= y
      BY <1>1
    <2> QED
      BY <2>1 DEF Min
  <1>5. SelectInSeq(o, LAMBDA v : v = e) = j
    BY <1>3, <1>4 DEF SelectInSeq
  <1> DEFINE r == SubSeq(o, 1, j - 1) \o SubSeq(o, j + 1, Len(o))
             p == SubSeq(o, 1, j - 1)
             q == SubSeq(o, j + 1, Len(o))
  <1>6. RemoveFirst(o, e) = r
    BY <1>2, <1>5 DEF RemoveFirst, RemoveAt
  <1>7. p \in Seq(S) /\ Len(p) = j - 1 /\ \A k \in 1 .. j - 1 : p[k] = o[k]
    BY <1>1, <1>2, SubSeqProperties
  <1>8. q \in Seq(S) /\ Len(q) = Len(o) - j /\ \A k \in 1 .. Len(o) - j : q[k] = o[j + k]
    <2>1. j \in Nat /\ j + 1 \in Int /\ Len(o) \in Int /\ 1 <= j /\ j <= Len(o)
      BY <1>1, <1>2
    <2>2. ASSUME NEW k \in j + 1 .. Len(o) PROVE o[k] \in S
      <3>1. k \in 1 .. Len(o)
        BY <2>1
      <3> QED
        BY <1>1, <3>1
    <2>3. /\ q \in Seq(S) /\ Len(q) = IF j + 1 <= Len(o) THEN Len(o) - (j + 1) + 1 ELSE 0
          /\ \A k \in 1 .. Len(o) - (j + 1) + 1 : q[k] = o[j + 1 + k - 1]
      BY <2>1, <2>2, SubSeqProperties
    <2> HIDE DEF q
    <2>4. ASSUME NEW k \in 1 .. Len(o) - j PROVE q[k] = o[j + k]
      <3>1. k \in 1 .. Len(o) - (j + 1) + 1 /\ j + 1 + k - 1 = j + k
        BY <2>1
      <3> QED
        BY <2>3, <3>1
    <2> QED
      BY <2>1, <2>3, <2>4
  <1> HIDE DEF p, q
  <1>9. /\ r \in Seq(S) /\ Len(r) = Len(o) - 1
        /\ \A k \in 1 .. Len(o) - 1 : r[k] = IF k <= j - 1 THEN p[k] ELSE q[k - (j - 1)]
    <2>1. p \o q \in Seq(S) /\ Len(p \o q) = Len(p) + Len(q)
      BY <1>7, <1>8, ConcatProperties
    <2>2. \A k \in 1 .. Len(p) + Len(q) : (p \o q)[k] = IF k <= Len(p) THEN p[k] ELSE q[k - Len(p)]
      BY <1>7, <1>8, ConcatProperties
    <2>3. Len(p) + Len(q) = Len(o) - 1
      BY <1>1, <1>7, <1>8
    <2> QED
      BY <1>7, <2>1, <2>2, <2>3 DEF p, q
  <1> HIDE DEF r
  <1>10. ASSUME NEW k \in 1 .. Len(o) - 1 PROVE r[k] = IF k < j THEN o[k] ELSE o[k + 1]
    <2>1. CASE k < j
      BY <1>1, <1>7, <1>9, <2>1
    <2>2. CASE ~(k < j)
      <3>1. k - (j - 1) \in 1 .. Len(o) - j /\ j + (k - (j - 1)) = k + 1 /\ ~(k <= j - 1)
        BY <1>1, <2>2
      <3> QED
        BY <1>8, <1>9, <2>2, <3>1
    <2> QED
      BY <2>1, <2>2
  <1>11. DOMAIN r = 1 .. Len(o) - 1
    BY <1>9, LenProperties
  <1>12. Distinct(r)
    <2>1. SUFFICES ASSUME NEW x \in 1 .. Len(o) - 1, NEW y \in 1 .. Len(o) - 1, r[x] = r[y]
                   PROVE  x = y
      BY <1>11 DEF Distinct
    <2> DEFINE u(z) == IF z < j THEN z ELSE z + 1
    <2>2. r[x] = o[u(x)] /\ r[y] = o[u(y)] /\ u(x) \in DOMAIN o /\ u(y) \in DOMAIN o
      BY <1>1, <1>10
    <2>3. u(x) = u(y)
      BY <2>1, <2>2 DEF Distinct
    <2> QED
      BY <1>1, <2>3
  <1>13. ToSet(r) = ToSet(o) \ {e}
    <2>1. ASSUME NEW x \in ToSet(r) PROVE x \in ToSet(o) \ {e}
      <3>1. PICK k \in 1 .. Len(o) - 1 : x = r[k]
        BY <1>11 DEF ToSet
      <3> DEFINE l == IF k < j THEN k ELSE k + 1
      <3>2. l \in 1 .. Len(o) /\ l # j /\ x = o[l]
        BY <1>1, <1>10, <3>1
      <3> HIDE DEF l
      <3> QED
        BY <1>1, <1>2, <3>2 DEF ToSet, Distinct
    <2>2. ASSUME NEW x \in ToSet(o) \ {e} PROVE x \in ToSet(r)
      <3>1. PICK l \in 1 .. Len(o) : x = o[l]
        BY <1>1 DEF ToSet
      <3>2. l # j
        BY <1>2, <2>2, <3>1
      <3> DEFINE k == IF l < j THEN l ELSE l - 1
      <3>3. k \in 1 .. Len(o) - 1 /\ r[k] = o[l]
        <4>1. k \in 1 .. Len(o) - 1 /\ (IF k < j THEN k ELSE k + 1) = l
          BY <1>1, <3>2
        <4> HIDE DEF k
        <4> QED
          BY <1>10, <4>1
      <3> HIDE DEF k
      <3> QED
        BY <1>11, <3>1, <3>3 DEF ToSet
    <2> QED
      BY <2>1, <2>2
  <1> QED
    BY <1>6, <1>9, <1>12, <1>13

\* removeSubscription(): the stream goes with what it holds, and nothing else changes.
LEMMA RemoveSound ==
  ASSUME NEW s, Sound(s), s.open, NEW i \in ToSet(s.order)
  PROVE  LET t == removeSubscription(s, i) IN
         /\ Sound(t) /\ t.open = s.open /\ t.blocked = s.blocked
         /\ t.sent = s.sent /\ t.flight = s.flight /\ t.next = s.next
         /\ ToSet(t.order) = ToSet(s.order) \ {i}
         /\ Held(t, i) = <<>> /\ \A j \in Ids \ {i} : Held(t, j) = Held(s, j)
  <1> DEFINE t == removeSubscription(s, i)
             q == closeStream(s.queue, i)
             r == RemoveFirst(s.order, i)
  <1>1. /\ s \in SessionRecord /\ IsQueue(s.queue) /\ s.sent \in [Ids -> Seq(Nat)]
        /\ s.order \in Seq(Streams) /\ s.ready \in SUBSET Streams
        /\ \A j \in Ids : Held(s, j) \in Seq(Message)
    BY SessionFields
  <1>2. /\ Distinct(s.order) /\ Registered(s.queue) = ToSet(s.order) \cup {"control"}
        /\ s.ready \subseteq ToSet(s.order)
    BY DEF Sound, Registry
  <1>3. i \in Registered(s.queue) /\ i \in Ids /\ i \in Streams
    <2>1. i \in Streams
      BY <1>1, ElementOfSeq, LenProperties DEF ToSet
    <2> QED
      BY <1>2, <2>1 DEF Ids
  <1>4. r \in Seq(Streams) /\ Distinct(r) /\ ToSet(r) = ToSet(s.order) \ {i}
    BY <1>1, <1>2, RemoveFirstSpec
  <1>5. /\ IsQueue(q) /\ Registered(q) = Registered(s.queue) \ {i}
        /\ Holding(q) = [Holding(s.queue) EXCEPT ![i] = <<>>]
    BY <1>1, <1>3, CloseQueue
  <1>6. t \in [queue : {q}, order : {r}, ready : {s.ready \ {i}}, next : {s.next}, flight : {s.flight},
               sent : {s.sent}, open : {s.open}, blocked : {s.blocked}]
    BY <1>1 DEF removeSubscription, SessionRecord
  <1> HIDE DEF t, q, r
  <1>7. /\ t.queue = q /\ t.order = r /\ t.ready = s.ready \ {i} /\ t.next = s.next /\ t.flight = s.flight
        /\ t.sent = s.sent /\ t.open = s.open /\ t.blocked = s.blocked
    BY <1>6
  <1>8. t \in SessionRecord
    <2>1. q \in Queues /\ s.ready \ {i} \in SUBSET Streams
      BY <1>1, <1>5, IsQueueType
    <2> QED
      BY <1>1, <1>4, <1>6, <2>1 DEF SessionRecord
  <1>9. Registry(t)
    <2>1. "control" # i
      BY <1>3, Constants
    <2>2. Registered(q) = ToSet(r) \cup {"control"}
      BY <1>2, <1>4, <1>5, <2>1
    <2> QED
      BY <1>2, <1>4, <1>7, <2>2 DEF Registry
  <1>10. Held(t, i) = <<>> /\ \A j \in Ids \ {i} : Held(t, j) = Held(s, j)
    <2>1. Holding(s.queue) \in [Ids -> Seq(Message)]
      BY <1>1, QueueFacts
    <2> QED
      BY <1>3, <1>5, <1>7, <2>1 DEF Held
  <1>11. ASSUME NEW j \in Ids
         PROVE  TrailOK(j, j \in Registered(t.queue), Trail(t, j), t.next[j])
    <2>1. CASE j # i
      <3>1. Trail(t, j) = Trail(s, j) /\ (j \in Registered(t.queue) <=> j \in Registered(s.queue))
        BY <1>5, <1>7, <1>10, <2>1 DEF Trail
      <3>2. TrailOK(j, j \in Registered(s.queue), Trail(s, j), s.next[j])
        BY DEF Sound
      <3> QED
        BY <1>7, <3>1, <3>2 DEF TrailOK
    <2>2. CASE j = i
      <3>1. s.sent[i] \in Seq(Nat) /\ Numbers(Held(s, i)) \in Seq(Nat) /\ s.sent[i] \o <<>> = s.sent[i]
        BY <1>1, <1>3, WeightsSeq, ConcatEmptySeq
      <3>2. Trail(t, i) = s.sent[i]
        BY <1>7, <1>10, <3>1, SizeEmpty DEF Trail
      <3>3. TrailOK(i, i \in Registered(s.queue), s.sent[i] \o Numbers(Held(s, i)), s.next[i])
        BY <1>3 DEF Sound, Trail
      <3>4. TrailOK(i, FALSE, s.sent[i], s.next[i])
        BY <3>1, <3>3, TrailCut
      <3>5. ~(i \in Registered(t.queue))
        BY <1>5, <1>7
      <3> QED
        BY <1>7, <2>2, <3>2, <3>4, <3>5 DEF TrailOK
    <2> QED
      BY <2>1, <2>2
  <1>12. Sound(t)
    BY <1>5, <1>7, <1>8, <1>9, <1>11 DEF Sound
  <1> QED
    BY <1>4, <1>7, <1>10, <1>12 DEF t

\* The next number extends a trail.
LEMMA TrailNext ==
  ASSUME NEW i, NEW t \in Seq(Nat), NEW n \in Nat, TrailOK(i, TRUE, t, n)
  PROVE  TrailOK(i, TRUE, Append(t, n), n + 1)
  <1> DEFINE u == Append(t, n)
  <1>1. /\ u \in Seq(Nat) /\ Len(t) \in Nat /\ Len(u) = Len(t) + 1 /\ DOMAIN u = 1 .. Len(t) + 1
        /\ u[Len(t) + 1] = n /\ \A k \in 1 .. Len(t) : u[k] = t[k] /\ t[k] \in Nat
    BY AppendProperties, LenProperties, ElementOfSeq
  <1> HIDE DEF u
  <1>2. \A k \in 1 .. Len(t) : t[k] < n
    BY DEF TrailOK
  <1>3. ASSUME NEW k \in 1 .. Len(u) PROVE u[k] < n + 1
    <2>1. CASE k = Len(t) + 1
      BY <1>1, <2>1
    <2>2. CASE k # Len(t) + 1
      <3>1. k \in 1 .. Len(t)
        BY <1>1, <2>2
      <3>2. u[k] = t[k] /\ t[k] \in Nat /\ t[k] < n
        BY <1>1, <1>2, <3>1
      <3> QED
        BY <3>2
    <2> QED
      BY <2>1, <2>2
  <1>4. ASSUME i \notin Latest PROVE u = [k \in 1 .. n + 1 |-> k - 1]
    <2>1. t = [k \in 1 .. n |-> k - 1]
      BY <1>4 DEF TrailOK
    <2>2. Len(t) = n
      <3>1. DOMAIN t = 1 .. n /\ DOMAIN t = 1 .. Len(t)
        BY <2>1, LenProperties
      <3> QED
        BY <1>1, <3>1
    <2>3. \A k \in 1 .. n + 1 : u[k] = k - 1
      BY <1>1, <2>1, <2>2
    <2>4. u = [k \in 1 .. n + 1 |-> u[k]]
      BY <1>1, <2>2
    <2> QED
      BY <2>3, <2>4
  <1>5. ASSUME i \in Latest, NEW k \in 1 .. Len(u) - 1 PROVE u[k] < u[k + 1]
    <2>1. CASE k = Len(t)
      BY <1>1, <1>2, <2>1
    <2>2. CASE k # Len(t)
      <3>1. k \in 1 .. Len(t) - 1 /\ k \in 1 .. Len(t) /\ k + 1 \in 1 .. Len(t)
        BY <1>1, <2>2
      <3>2. t[k] < t[k + 1]
        BY <1>5, <3>1 DEF TrailOK
      <3> QED
        BY <1>1, <3>1, <3>2
    <2> QED
      BY <2>1, <2>2
  <1> QED
    BY <1>3, <1>4, <1>5 DEF TrailOK, u

\* A latest stream may also forget what it holds, and skip a number.
LEMMA TrailSkip ==
  ASSUME NEW i \in Latest, NEW live, NEW t \in Seq(Nat), NEW n \in Nat, TrailOK(i, live, t, n)
  PROVE  TrailOK(i, TRUE, t, n) /\ TrailOK(i, TRUE, t, n + 1)
  <1>1. \A k \in 1 .. Len(t) : t[k] \in Nat /\ t[k] < n
    BY ElementOfSeq DEF TrailOK
  <1> QED
    BY <1>1 DEF TrailOK

\* What a session does when stream i draws its next number and holds ms afterwards.
Draws(s, t, i, q) ==
  t \in [queue : {q}, order : {s.order}, ready : {s.ready}, next : {[s.next EXCEPT ![i] = s.next[i] + 1]},
         flight : {s.flight}, sent : {s.sent}, open : {s.open}, blocked : {s.blocked}]

\* A queue that holds ms in stream i, and otherwise what the session holds.
Refills(s, i, q, ms) ==
  /\ IsQueue(q) /\ Registered(q) = Registered(s.queue) /\ ms \in Seq(Message)
  /\ Holding(q) = [Holding(s.queue) EXCEPT ![i] = ms]
  /\ TrailOK(i, TRUE, s.sent[i] \o Numbers(ms), s.next[i] + 1)

\* What a caller knows of the session after stream i drew a number.
Drawn(s, t, i, ms) ==
  /\ t.order = s.order /\ t.ready = s.ready /\ t.flight = s.flight
  /\ t.sent = s.sent /\ t.open = s.open /\ t.blocked = s.blocked
  /\ Held(t, i) = ms /\ \A j \in Ids \ {i} : Held(t, j) = Held(s, j) /\ t.next[j] = s.next[j]
  /\ t.next[i] = s.next[i] + 1

\* Refilling one stream with a freshly numbered message keeps a session sound.
LEMMA DrawsSound ==
  ASSUME NEW s, Sound(s), NEW i \in Registered(s.queue), NEW q, NEW ms, Refills(s, i, q, ms),
         NEW t, Draws(s, t, i, q)
  PROVE  Sound(t) /\ Drawn(s, t, i, ms)
  <1>0. /\ IsQueue(q) /\ Registered(q) = Registered(s.queue) /\ ms \in Seq(Message)
        /\ Holding(q) = [Holding(s.queue) EXCEPT ![i] = ms]
        /\ TrailOK(i, TRUE, s.sent[i] \o Numbers(ms), s.next[i] + 1)
    BY DEF Refills
  <1>1. /\ s \in SessionRecord /\ IsQueue(s.queue) /\ s.sent \in [Ids -> Seq(Nat)]
        /\ s.order \in Seq(Streams) /\ s.ready \in SUBSET Streams /\ s.next \in [Ids -> Nat]
        /\ Registered(s.queue) \subseteq Ids /\ Registry(s)
    BY SessionFields
  <1>2. /\ t.queue = q /\ t.order = s.order /\ t.ready = s.ready /\ t.flight = s.flight
        /\ t.next = [s.next EXCEPT ![i] = s.next[i] + 1]
        /\ t.sent = s.sent /\ t.open = s.open /\ t.blocked = s.blocked
    BY DEF Draws
  <1>3. /\ t.next[i] = s.next[i] + 1 /\ \A j \in Ids \ {i} : t.next[j] = s.next[j]
        /\ t.next \in [Ids -> Nat]
    BY <1>1, <1>2
  <1>4. t \in SessionRecord
    <2>1. q \in Queues /\ [s.next EXCEPT ![i] = s.next[i] + 1] \in [Ids -> Nat]
      BY <1>0, <1>2, <1>3, IsQueueType
    <2> QED
      BY <1>1, <2>1 DEF SessionRecord, Draws
  <1>5. Held(t, i) = ms /\ \A j \in Ids \ {i} : Held(t, j) = Held(s, j)
    <2>1. Holding(s.queue) \in [Ids -> Seq(Message)]
      BY <1>1, QueueFacts
    <2> QED
      BY <1>0, <1>1, <1>2, <2>1 DEF Held
  <1>6. Registry(t)
    BY <1>0, <1>1, <1>2 DEF Registry
  <1>7. ASSUME NEW j \in Ids
        PROVE  TrailOK(j, j \in Registered(t.queue), Trail(t, j), t.next[j])
    <2>1. CASE j # i
      <3>1. Trail(t, j) = Trail(s, j) /\ (j \in Registered(t.queue) <=> j \in Registered(s.queue))
        BY <1>0, <1>2, <1>5, <2>1 DEF Trail
      <3>2. TrailOK(j, j \in Registered(s.queue), Trail(s, j), s.next[j])
        BY DEF Sound
      <3> QED
        BY <1>3, <2>1, <3>1, <3>2 DEF TrailOK
    <2>2. CASE j = i
      <3>1. Trail(t, i) = s.sent[i] \o Numbers(ms)
        BY <1>2, <1>5 DEF Trail
      <3> QED
        BY <1>0, <1>3, <2>2, <3>1 DEF TrailOK
    <2> QED
      BY <2>1, <2>2
  <1>8. Sound(t)
    BY <1>0, <1>1, <1>2, <1>4, <1>6, <1>7 DEF Sound
  <1> QED
    BY <1>2, <1>3, <1>5, <1>8 DEF Drawn

\* A reliable stream that has room draws a number and queues its message.
LEMMA QueueReliable ==
  ASSUME NEW s, Sound(s), NEW i \in Registered(s.queue) \ Latest, NEW size \in Sizes,
         NEW m, m = [seq |-> s.next[i], size |-> size], ~Overflows(s.queue, i, m)
  PROVE  /\ m \in Message /\ m.seq = s.next[i]
         /\ Refills(s, i, enqueue(s.queue, i, m), Append(Held(s, i), m))
  <1> DEFINE old == Held(s, i)
             ms == Append(old, m)
             a == s.sent[i]
             b == Numbers(old)
             n == s.next[i]
  <1>1. IsQueue(s.queue) /\ i \in Ids /\ old \in Seq(Message) /\ n \in Nat /\ a \in Seq(Nat)
    BY SessionFields
  <1>2. m \in Message /\ m.seq = n
    BY <1>1 DEF Message
  <1>3. TrailOK(i, TRUE, a \o b, n)
    <2>1. TrailOK(i, i \in Registered(s.queue), Trail(s, i), s.next[i])
      BY <1>1 DEF Sound
    <2> QED
      BY <2>1 DEF TrailOK, Trail
  <1> HIDE DEF old, a, n
  <1>4. ms \in Seq(Message) /\ Numbers(ms) = Append(b, n) /\ b \in Seq(Nat)
    BY <1>1, <1>2, SizeAppend, WeightsSeq
  <1>5. a \o Numbers(ms) = Append(a \o b, n) /\ a \o b \in Seq(Nat)
    <2>1. a \in Seq(Nat) /\ b \in Seq(Nat) /\ n \in Nat
      BY <1>1, <1>4
    <2> HIDE DEF b
    <2>2. a \o b \in Seq(Nat) /\ a \o Append(b, n) = Append(a \o b, n)
      BY <2>1, ConcatAppend
    <2> HIDE DEF ms
    <2> QED
      BY <1>4, <2>2, Zenon DEF b
  <1>6. TrailOK(i, TRUE, a \o Numbers(ms), n + 1)
    BY <1>1, <1>3, <1>5, TrailNext
  <1>7. LET p == enqueue(s.queue, i, m) IN
         /\ IsQueue(p) /\ Registered(p) = Registered(s.queue)
         /\ Holding(p) = [Holding(s.queue) EXCEPT ![i] = ms]
    <2>2. ms = Append(Holding(s.queue)[i], m)
      BY DEF old, Held
    <2> DEFINE old_q == s.queue
    <2>3. IsQueue(old_q) /\ i \in Registered(old_q) \ Latest /\ ~Overflows(old_q, i, m)
      BY <1>1
    <2> HIDE DEF ms, old_q
    <2>4. /\ IsQueue(enqueue(old_q, i, m)) /\ Registered(enqueue(old_q, i, m)) = Registered(old_q)
          /\ Holding(enqueue(old_q, i, m)) = [Holding(old_q) EXCEPT ![i] = Append(Holding(old_q)[i], m)]
      BY <1>2, <2>3, EnqueueReliable
    <2> QED
      BY <2>2, <2>4 DEF old_q
  <1> QED
    BY <1>2, <1>4, <1>6, <1>7 DEF Refills, old, a, n

\* respond() queues one control message, or closes a router whose control queue is full.
LEMMA RespondSound ==
  ASSUME NEW s, Sound(s), s.open, NEW size \in Sizes
  PROVE  LET t == respond(s, size) IN
         /\ Sound(t) /\ t.sent = s.sent /\ t.flight = s.flight
         /\ s.next["control"] <= t.next["control"]
         /\ ~t.open => \A j \in Ids : Held(t, j) = <<>>
         /\ t.open => /\ t.order = s.order /\ t.blocked = s.blocked
                      /\ \A j \in Streams : Held(t, j) = Held(s, j)
                      /\ \E m \in Message : m.seq = s.next["control"] /\ Held(t, "control") = Append(Held(s, "control"), m)
  <1> DEFINE c == "control"
             m == [seq |-> s.next[c], size |-> size]
             t == respond(s, size)
             q == enqueue(s.queue, c, m)
             ms == Append(Held(s, c), m)
  <1>1. s \in SessionRecord /\ s.next \in [Ids -> Nat]
    BY SessionFields
  <1>2. c \in Registered(s.queue) \ Latest /\ c \in Ids /\ Streams \subseteq Ids \ {c}
    BY Constants DEF Sound, Registry, Ids
  <1>3. CASE Overflows(s.queue, c, m)
    <2>1. t = closeRouter(s)
      BY <1>3 DEF respond
    <2> HIDE DEF t
    <2>2. Sound(t) /\ ~t.open /\ t.sent = s.sent /\ t.flight = s.flight /\ t.next = s.next
          /\ \A i \in Ids : Held(t, i) = <<>>
      BY <2>1, CloseSound
    <2>3. s.next[c] <= t.next[c]
      BY <1>1, <1>2, <2>2
    <2> QED
      BY <2>2, <2>3 DEF t
  <1>4. CASE ~Overflows(s.queue, c, m)
    <2>1. m \in Message /\ m.seq = s.next[c] /\ Refills(s, c, q, ms)
      <3> HIDE DEF c
      <3>1. c \in Registered(s.queue) \ Latest /\ ~Overflows(s.queue, c, m)
            /\ m = [seq |-> s.next[c], size |-> size]
        BY <1>2, <1>4
      <3> HIDE DEF m
      <3> QED
        BY <3>1, QueueReliable
    <2>2. t = [s EXCEPT !.queue = q, !.next[c] = s.next[c] + 1]
      BY <1>4 DEF respond
    <2> HIDE DEF t, q, m, ms
    <2>3. Draws(s, t, c, q)
      BY <1>1, <2>2 DEF Draws, SessionRecord
    <2> HIDE DEF c
    <2>8. Sound(t) /\ Drawn(s, t, c, ms)
      <3>1. c \in Registered(s.queue)
        BY <1>2
      <3> QED
        BY <2>1, <2>3, <3>1, DrawsSound
    <2>4. /\ Sound(t) /\ t.order = s.order /\ t.flight = s.flight
          /\ t.sent = s.sent /\ t.open = s.open /\ t.blocked = s.blocked
          /\ Held(t, c) = ms /\ \A j \in Ids \ {c} : Held(t, j) = Held(s, j) /\ t.next[j] = s.next[j]
          /\ t.next[c] = s.next[c] + 1
      BY <2>8 DEF Drawn
    <2>5. s.next[c] <= t.next[c]
      BY <1>1, <1>2, <2>4
    <2>6. \E x \in Message : x.seq = s.next[c] /\ Held(t, c) = Append(Held(s, c), x)
      BY <2>1, <2>4 DEF ms
    <2>7. \A j \in Streams : Held(t, j) = Held(s, j)
      BY <1>2, <2>4
    <2> QED
      BY <2>4, <2>5, <2>6, <2>7 DEF t, c
  <1> QED
    BY <1>3, <1>4

-----------------------------------------------------------------------------
(***************************************************************************)
(* flush(): the rounds of its loop.                                        *)
(***************************************************************************)

\* A channel that cannot take one more message of the largest size.
Full(s, c) == SizeOf(s.flight[c]) + MaxMessageBytes > MaxBuffered

\* r, the session after the first k rounds of a flush of s over the subscriptions o.
Round(s, r, o, k) ==
  /\ Sound(r)
  /\ s.next["control"] <= r.next["control"]
  /\ r.open => /\ ToSet(r.order) \subseteq ToSet(o)
               /\ \A m \in k + 1 .. Len(o) : o[m] \in ToSet(r.order)
               /\ r.blocked => \E c \in Channels : Full(r, c)
               /\ ~r.blocked => Held(r, "control") = <<>> /\ \A m \in 1 .. k : Held(r, o[m]) = <<>>
  /\ \/ \A i \in Streams : r.sent[i] = s.sent[i]
     \/ \A l \in DOMAIN Held(r, "control") : Held(r, "control")[l].seq >= s.next["control"]
  /\ \A i \in denied : r.sent[i] = s.sent[i]

\* The round of a stream that lost its permission.
LEMMA DeniedRound ==
  ASSUME NEW s, Sound(s), s.open, NEW i \in ToSet(s.order), Held(s, "control") = <<>>
  PROVE  LET e == respond(removeSubscription(s, i), 1)
             t == IF e.open THEN drain(e, "control") ELSE e
         IN /\ Sound(t) /\ s.next["control"] <= t.next["control"]
            /\ \A j \in Streams : t.sent[j] = s.sent[j]
            /\ \A l \in DOMAIN Held(t, "control") : Held(t, "control")[l].seq >= s.next["control"]
            /\ t.open => /\ ToSet(t.order) = ToSet(s.order) \ {i}
                         /\ t.blocked => \E c \in Channels : Full(t, c)
                         /\ ~t.blocked => Held(t, "control") = <<>>
                         /\ Held(t, i) = <<>> /\ \A j \in Streams \ {i} : Held(t, j) = Held(s, j)
  <1> DEFINE c == "control"
             d == removeSubscription(s, i)
             e == respond(d, 1)
             t == IF e.open THEN drain(e, c) ELSE e
  <1>1. /\ Sound(d) /\ d.open = s.open /\ d.blocked = s.blocked
        /\ d.sent = s.sent /\ d.flight = s.flight /\ d.next = s.next
        /\ ToSet(d.order) = ToSet(s.order) \ {i}
        /\ Held(d, i) = <<>> /\ \A j \in Ids \ {i} : Held(d, j) = Held(s, j)
    BY RemoveSound
  <1>2. i \in Streams /\ c \in Ids /\ i # c /\ Streams \subseteq Ids \ {c} /\ 1 \in Sizes
    <2>1. s.order \in Seq(Streams)
      BY SessionFields
    <2>2. i \in Streams
      BY <2>1, ElementOfSeq, LenProperties DEF ToSet
    <2> QED
      BY <2>2, Constants DEF Sizes, Ids
  <1> HIDE DEF d
  <1>3. /\ Sound(e) /\ e.sent = d.sent /\ e.flight = d.flight
        /\ d.next["control"] <= e.next["control"]
        /\ ~e.open => \A j \in Ids : Held(e, j) = <<>>
        /\ e.open => /\ e.order = d.order /\ e.blocked = d.blocked
                     /\ \A j \in Streams : Held(e, j) = Held(d, j)
                     /\ \E m \in Message : m.seq = d.next["control"] /\ Held(e, "control") = Append(Held(d, "control"), m)
    BY <1>1, <1>2, RespondSound
  <1> HIDE DEF e
  <1>4. CASE ~e.open
    <2>1. t = e
      BY <1>4
    <2> HIDE DEF t
    <2>2. DOMAIN Held(t, c) = {}
      BY <1>2, <1>3, <1>4, <2>1
    <2>3. Sound(t) /\ s.next["control"] <= t.next["control"] /\ ~t.open /\ t.sent = s.sent
      BY <1>1, <1>3, <1>4, <2>1
    <2> QED
      BY <2>2, <2>3 DEF t, d, e
  <1>5. CASE e.open
    <2>1. t = drain(e, c)
      BY <1>5
    <2> HIDE DEF t
    <2>2. c \in Registered(e.queue)
      BY <1>3, <1>5 DEF Sound, Registry
    <2>3. Sound(t) /\ Drains(e, t, c)
      BY <1>3, <2>1, <2>2, DrainSound
    <2>4. /\ t.order = e.order /\ t.next = e.next /\ t.open = e.open
          /\ \A j \in Ids \ {c} : t.sent[j] = e.sent[j] /\ Held(t, j) = Held(e, j)
          /\ t.blocked <=> Held(t, c) # <<>>
          /\ t.blocked => Full(t, ChannelOf(c))
          /\ \A k \in DOMAIN Held(t, c) : \E l \in DOMAIN Held(e, c) : Held(t, c)[k] = Held(e, c)[l]
      BY <2>3 DEF Drains, Full
    <2>5. PICK m \in Message : m.seq = d.next["control"] /\ Held(e, "control") = Append(<<>>, m)
      <3>1. Held(d, "control") = <<>>
        BY <1>1, <1>2
      <3> QED
        BY <1>3, <1>5, <3>1
    <2>6. \A l \in DOMAIN Held(e, c) : Held(e, c)[l].seq = s.next["control"]
      BY <1>1, <2>5
    <2>7. s.next["control"] \in Nat
      BY <1>2, SessionFields
    <2>8. \A l \in DOMAIN Held(t, c) : Held(t, c)[l].seq >= s.next["control"]
      BY <2>4, <2>6, <2>7
    <2>9. \A j \in Streams : t.sent[j] = s.sent[j]
      BY <1>1, <1>2, <1>3, <2>4
    <2>10. Held(t, i) = <<>> /\ \A j \in Streams \ {i} : Held(t, j) = Held(s, j)
      BY <1>1, <1>2, <1>3, <1>5, <2>4
    <2>11. s.next["control"] <= t.next["control"] /\ ToSet(t.order) = ToSet(s.order) \ {i}
      BY <1>1, <1>3, <1>5, <2>4
    <2>12. t.blocked => \E x \in Channels : Full(t, x)
      BY <2>4, ChannelType
    <2>13. ~t.blocked => Held(t, c) = <<>>
      BY <2>4
    <2> QED
      BY <2>3, <2>8, <2>9, <2>10, <2>11, <2>12, <2>13 DEF t, d, e
  <1> QED
    BY <1>4, <1>5

\* The recursive function behind FoldLeft(drainNext, base, o), on a family of index sets.
IsRun(g, base, o, D) ==
  g = [u \in D |-> IF u = {} THEN base ELSE drainNext(g[u \ {Max(u)}], o[Max(u)])]

\* The largest member of a set of indices.
LEMMA MaxOf ==
  ASSUME NEW n \in Nat, NEW u \in SUBSET (1 .. n), u # {}
  PROVE  Max(u) \in u /\ \A y \in u : y <= Max(u)
  <1>1. u \in SUBSET (0 .. n)
    OBVIOUS
  <1>2. \E x \in u : \A y \in u : y <= x
    BY <1>1, LargestNumber
  <1>3. \E x \in u : \A y \in u : x >= y
    BY <1>2
  <1>4. Max(u) \in u /\ \A y \in u : Max(u) >= y
    BY <1>3 DEF Max
  <1> QED
    BY <1>4

\* The fold is a function that satisfies the recursion, if there is one.
LEMMA RunIsChosen ==
  ASSUME NEW base, NEW o, \E g : IsRun(g, base, o, SUBSET DOMAIN o)
  PROVE  \E g : IsRun(g, base, o, SUBSET DOMAIN o) /\ FoldLeft(drainNext, base, o) = g[DOMAIN o]
  BY DEF IsRun, FoldLeft, MapThenFoldSet

\* There is one, on the index sets of at most n members.
LEMMA RunLevels ==
  ASSUME NEW base, NEW o, NEW p \in Nat, NEW n \in Nat
  PROVE  \E g : IsRun(g, base, o, Level(1 .. p, n))
  <1> DEFINE S == 1 .. p
             B == {k \in Nat : ~\E g : IsRun(g, base, o, Level(S, k))}
  <1>1. SUFFICES ASSUME B # {} PROVE FALSE
    BY Zenon
  <1>2. PICK m \in B : \A k \in B : m <= k
    BY <1>1, SmallestNumber
  <1>0. \A s \in SUBSET S : /\ IsFiniteSet(s) /\ Cardinality(s) \in Nat
                            /\ s # {} => Max(s) \in s /\ Cardinality(s \ {Max(s)}) = Cardinality(s) - 1
    <2>1. IsFiniteSet(S)
      BY FS_Interval
    <2>2. \A s \in SUBSET S : s # {} => Max(s) \in s
      BY MaxOf
    <2> HIDE DEF S
    <2> QED
      BY <2>1, <2>2, FS_Subset, FS_CardinalityType, FS_RemoveElement
  <1> HIDE DEF S
  <1>3. m # 0
    <2>1. ASSUME NEW s \in SUBSET S PROVE Cardinality(s) <= 0 <=> s = {}
      <3>1. Cardinality(s) \in Nat /\ (Cardinality(s) = 0 <=> s = {})
        BY <1>0, FS_EmptySet
      <3> QED
        BY <3>1
    <2>3. Level(S, 0) = {{}}
      BY <2>1 DEF Level
    <2> DEFINE g == [s \in {{}} |-> base]
    <2>2. IsRun(g, base, o, Level(S, 0))
      BY <2>3 DEF IsRun
    <2> QED
      BY <2>2, Zenon
  <1>4. PICK h : IsRun(h, base, o, Level(S, m - 1))
    BY <1>2, <1>3
  <1> DEFINE g == [s \in Level(S, m) |->
                     IF s = {} THEN base ELSE drainNext(h[s \ {Max(s)}], o[Max(s)])]
  <1>5. ASSUME NEW s \in Level(S, m), s # {}
        PROVE  s \ {Max(s)} \in Level(S, m - 1) /\ s \ {Max(s)} \in Level(S, m)
    BY <1>0, <1>5 DEF Level
  <1>6. \A s \in Level(S, m - 1) : s \in Level(S, m) /\ g[s] = h[s]
    <2>1. \A s \in Level(S, m - 1) : s \in Level(S, m)
      <3>1. m \in Nat
        OBVIOUS
      <3>2. \A s \in SUBSET S : Cardinality(s) <= m - 1 => Cardinality(s) <= m
        <4>1. SUFFICES ASSUME NEW s \in SUBSET S, Cardinality(s) <= m - 1
                       PROVE  Cardinality(s) <= m
          OBVIOUS
        <4>2. Cardinality(s) \in Nat
          BY <1>0
        <4> HIDE DEF B
        <4> QED
          BY <3>1, <4>1, <4>2
      <3> QED
        BY <3>2 DEF Level
    <2> QED
      BY <2>1, <1>4 DEF IsRun
  <1>7. IsRun(g, base, o, Level(S, m))
    BY <1>5, <1>6, Zenon DEF IsRun
  <1> QED
    BY <1>2, <1>7, Zenon

\* The rounds of flush()'s loop, one after the other.
LEMMA FlushRounds ==
  ASSUME NEW base, NEW o \in Seq(Streams)
  PROVE  \E r : /\ r[0] = base
                /\ \A k \in 1 .. Len(o) : r[k] = drainNext(r[k - 1], o[k])
                /\ FoldLeft(drainNext, base, o) = r[Len(o)]
  <1> DEFINE n == Len(o)
  <1>1. n \in Nat /\ DOMAIN o = 1 .. n
    BY LenProperties
  <1> HIDE DEF n
  <1>2. Level(1 .. n, Cardinality(1 .. n)) = SUBSET (1 .. n) /\ Cardinality(1 .. n) \in Nat
    <2> DEFINE S == 1 .. n
    <2>1. IsFiniteSet(S)
      BY <1>1, FS_Interval
    <2> HIDE DEF S
    <2>2. Level(S, Cardinality(S)) = SUBSET S /\ Cardinality(S) \in Nat
      BY <2>1, FS_Subset, FS_CardinalityType DEF Level
    <2> QED
      BY <2>2 DEF S
  <1>3. \E g : IsRun(g, base, o, SUBSET DOMAIN o)
    <2>1. \E g : IsRun(g, base, o, Level(1 .. n, Cardinality(1 .. n)))
      BY <1>1, <1>2, RunLevels, Zenon
    <2> QED
      BY <1>1, <1>2, <2>1
  <1>4. PICK g : IsRun(g, base, o, SUBSET (1 .. n)) /\ FoldLeft(drainNext, base, o) = g[1 .. n]
    BY <1>1, <1>3, RunIsChosen
  <1> DEFINE r == [k \in 0 .. n |-> g[1 .. k]]
  <1>5. \A u \in SUBSET (1 .. n) : g[u] = IF u = {} THEN base ELSE drainNext(g[u \ {Max(u)}], o[Max(u)])
    BY <1>4, Zenon DEF IsRun
  <1>6. r[0] = base
    <2>1. 1 .. 0 = {} /\ 0 \in 0 .. n
      BY <1>1
    <2> QED
      BY <1>5, <2>1
  <1>7. ASSUME NEW k \in 1 .. n PROVE r[k] = drainNext(r[k - 1], o[k])
    <2>1. /\ 1 .. k \in SUBSET (1 .. n) /\ k \in 1 .. k /\ 1 .. k # {} /\ (1 .. k) \ {k} = 1 .. k - 1
          /\ k \in 0 .. n /\ k - 1 \in 0 .. n
      BY <1>1
    <2>2. Max(1 .. k) = k
      <3>1. Max(1 .. k) \in 1 .. k /\ k <= Max(1 .. k)
        BY <1>1, <2>1, MaxOf
      <3> QED
        BY <1>1, <3>1
    <2>3. g[1 .. k] = drainNext(g[1 .. k - 1], o[k])
      BY <1>5, <2>1, <2>2
    <2>4. r[k] = g[1 .. k] /\ r[k - 1] = g[1 .. k - 1]
      BY <2>1
    <2> QED
      BY <2>3, <2>4
  <1>8. FoldLeft(drainNext, base, o) = r[n]
    BY <1>1, <1>4
  <1> QED
    BY <1>6, <1>7, <1>8 DEF n

\* One round of the loop.
LEMMA RoundStep ==
  ASSUME NEW s, NEW r, NEW o \in Seq(Streams), NEW k \in 1 .. Len(o), Distinct(o),
         denied \subseteq Streams, Sound(s), Round(s, r, o, k - 1)
  PROVE  Round(s, drainNext(r, o[k]), o, k)
  <1> DEFINE i == o[k]
             t == drainNext(r, i)
             c == "control"
             N == s.next["control"]
  <1>1. /\ Sound(r) /\ N <= r.next["control"]
        /\ \A j \in denied : r.sent[j] = s.sent[j]
        /\ Len(o) \in Nat /\ k \in Nat /\ i \in Streams
    BY LenProperties, ElementOfSeq DEF Round
  <1>2. c \in Ids /\ i # c /\ Streams \subseteq Ids \ {c} /\ i \in Ids
    BY <1>1, Constants DEF Ids
  <1>3. N \in Nat /\ r.next["control"] \in Nat
    BY <1>1, <1>2, SessionFields
  <1>4. CASE ~r.open \/ r.blocked
    <2>1. t = r
      BY <1>4 DEF drainNext
    <2>2. k - 1 + 1 = k /\ \A m \in k + 1 .. Len(o) : m \in k .. Len(o)
      BY <1>1
    <2>3. r.open => \A m \in k + 1 .. Len(o) : o[m] \in ToSet(r.order)
      BY <2>2 DEF Round
    <2>4. Round(s, r, o, k)
      BY <1>4, <2>3 DEF Round
    <2> QED
      BY <2>1, <2>4
  <1>5. CASE r.open /\ ~r.blocked
    <2>1. /\ Held(r, c) = <<>> /\ \A m \in 1 .. k - 1 : Held(r, o[m]) = <<>>
          /\ ToSet(r.order) \subseteq ToSet(o)
      BY <1>5 DEF Round
    <2>2. i \in ToSet(r.order) /\ \A m \in k + 1 .. Len(o) : o[m] \in ToSet(r.order) \ {i}
      <3>1. k \in k - 1 + 1 .. Len(o) /\ \A m \in k + 1 .. Len(o) : m \in k - 1 + 1 .. Len(o) /\ m # k
        BY <1>1
      <3>2. \A m \in k - 1 + 1 .. Len(o) : o[m] \in ToSet(r.order)
        BY <1>5 DEF Round
      <3>3. DOMAIN o = 1 .. Len(o)
        BY LenProperties
      <3>4. \A m \in k + 1 .. Len(o) : o[m] # o[k]
        <4>1. \A m \in k + 1 .. Len(o) : m \in DOMAIN o /\ k \in DOMAIN o /\ m # k
          BY <1>1, <3>3
        <4> QED
          BY <4>1 DEF Distinct
      <3> QED
        BY <3>1, <3>2, <3>4
    <2>3. \A m \in 1 .. k : o[m] \in Streams /\ (m \in 1 .. k - 1 \/ m = k)
      BY <1>1, ElementOfSeq
    <2>4. CASE i \in denied
      <3> DEFINE e == respond(removeSubscription(r, i), 1)
      <3>1. t = IF e.open THEN drain(e, "control") ELSE e
        BY <1>5, <2>4 DEF drainNext
      <3> HIDE DEF t
      <3>2. /\ Sound(t) /\ r.next["control"] <= t.next["control"]
            /\ \A j \in Streams : t.sent[j] = r.sent[j]
            /\ \A l \in DOMAIN Held(t, "control") : Held(t, "control")[l].seq >= r.next["control"]
            /\ t.open => /\ ToSet(t.order) = ToSet(r.order) \ {i}
                         /\ t.blocked => \E x \in Channels : Full(t, x)
                         /\ ~t.blocked => Held(t, "control") = <<>>
                         /\ Held(t, i) = <<>> /\ \A j \in Streams \ {i} : Held(t, j) = Held(r, j)
        <4> HIDE DEF i
        <4>1. Sound(r) /\ r.open /\ i \in ToSet(r.order) /\ Held(r, "control") = <<>>
          BY <1>1, <1>5, <2>1, <2>2
        <4> QED
          BY <3>1, <4>1, DeniedRound
      <3>3. t.next["control"] \in Nat
        BY <1>2, <3>2, SessionFields
      <3>4. N <= t.next["control"]
        BY <1>1, <1>3, <3>2, <3>3
      <3>5. \A l \in DOMAIN Held(t, "control") : Held(t, "control")[l].seq >= N
        <4>1. ASSUME NEW l \in DOMAIN Held(t, "control") PROVE Held(t, "control")[l].seq >= N
          <5>1. Held(t, "control") \in Seq(Message)
            BY <1>2, <3>2, SessionFields
          <5>2. Held(t, "control")[l] \in Message
            BY <5>1, LenProperties, ElementOfSeq
          <5>3. Held(t, "control")[l].seq \in Nat
            BY <5>2, MessageFields
          <5> QED
            BY <1>1, <1>3, <3>2, <5>3
        <4> QED
          BY <4>1
      <3>6. t.open => \A m \in 1 .. k : Held(t, o[m]) = <<>>
        BY <2>1, <2>3, <3>2
      <3>7. \A j \in denied : t.sent[j] = s.sent[j]
        BY <1>1, <3>2
      <3>8. t.open => ToSet(t.order) \subseteq ToSet(o) /\ \A m \in k + 1 .. Len(o) : o[m] \in ToSet(t.order)
        BY <2>1, <2>2, <3>2
      <3>9. Round(s, t, o, k)
        BY <3>2, <3>4, <3>5, <3>6, <3>7, <3>8 DEF Round
      <3> QED
        BY <3>9 DEF t
    <2>5. CASE i \notin denied
      <3>1. t = drain(r, i)
        BY <1>5, <2>5 DEF drainNext
      <3> HIDE DEF t
      <3>2. i \in Registered(r.queue)
        BY <1>1, <1>5, <2>2 DEF Sound, Registry
      <3> HIDE DEF i
      <3>3. Sound(t) /\ Drains(r, t, i)
        BY <1>1, <3>1, <3>2, DrainSound
      <3>4. /\ t.order = r.order /\ t.next = r.next /\ t.open = r.open
            /\ \A j \in Ids \ {i} : t.sent[j] = r.sent[j] /\ Held(t, j) = Held(r, j)
            /\ t.blocked <=> Held(t, i) # <<>>
            /\ t.blocked => Full(t, ChannelOf(i))
        BY <3>3 DEF Drains, Full
      <3>5. Held(t, c) = <<>>
        BY <1>2, <2>1, <3>4
      <3>6. DOMAIN Held(t, "control") = {}
        BY <3>5
      <3>7. \A j \in denied : t.sent[j] = s.sent[j]
        BY <1>1, <1>2, <2>5, <3>4
      <3>8. ~t.blocked => \A m \in 1 .. k : Held(t, o[m]) = <<>>
        <4>1. ASSUME ~t.blocked, NEW m \in 1 .. k PROVE Held(t, o[m]) = <<>>
          <5>1. CASE o[m] = i
            BY <3>4, <4>1, <5>1
          <5>2. CASE o[m] # i
            <6>1. m \in 1 .. k - 1 /\ o[m] \in Ids
              BY <1>2, <2>3, <5>2 DEF i
            <6> QED
              BY <2>1, <3>4, <5>2, <6>1
          <5> QED
            BY <5>1, <5>2
        <4> QED
          BY <4>1
      <3>9. t.blocked => \E x \in Channels : Full(t, x)
        BY <3>4, ChannelType
      <3>10. N <= t.next["control"]
        BY <1>1, <3>4
      <3>11. ToSet(t.order) \subseteq ToSet(o) /\ \A m \in k + 1 .. Len(o) : o[m] \in ToSet(t.order)
        BY <2>1, <2>2, <3>4
      <3>12. Round(s, t, o, k)
        BY <3>3, <3>5, <3>6, <3>7, <3>8, <3>9, <3>10, <3>11 DEF Round
      <3> QED
        BY <3>12 DEF t, i
    <2> QED
      BY <2>4, <2>5
  <1> QED
    BY <1>4, <1>5

\* What flush() promises: the session stays sound; on an open router either everything
\* was handed over or a channel is full; no sample passed a control message that was
\* waiting; and no denied stream sent anything.
Flushed(s, t) ==
  /\ Sound(t)
  /\ t.open => \/ \A i \in Ids : Held(t, i) = <<>>
               \/ \E c \in Channels : Full(t, c)
  /\ \/ \A i \in Streams : t.sent[i] = s.sent[i]
     \/ \A l \in DOMAIN Held(t, "control") : Held(t, "control")[l].seq >= s.next["control"]
  /\ \A i \in denied : t.sent[i] = s.sent[i]

\* flush() as a whole: the control stream first, then its rounds.
LEMMA FlushSound ==
  ASSUME NEW s, Sound(s), denied \subseteq Streams
  PROVE  Flushed(s, flush(s))
  <1> DEFINE o == s.order
             n == Len(o)
             base == drain(s, "control")
             f == FoldLeft(drainNext, base, o)
             t == flush(s)
  <1>1. /\ o \in Seq(Streams) /\ n \in Nat /\ Distinct(o) /\ "control" \in Ids /\ Streams \subseteq Ids \ {"control"}
        /\ DOMAIN o = 1 .. n /\ s.next["control"] \in Nat
    BY SessionFields, LenProperties, Constants DEF Registry, Ids
  <1>2. CASE ~s.open
    <2>1. t = s
      BY <1>2 DEF flush
    <2> QED
      BY <1>2, <2>1 DEF Flushed
  <1>3. CASE s.open
    <2>1. t = [f EXCEPT !.blocked = FALSE]
      BY <1>3 DEF flush
    <2>2. Round(s, base, o, 0)
      <3> DEFINE c == "control"
      <3>0. c \in Registered(s.queue)
        BY <1>3 DEF Sound, Registry
      <3>1. Sound(base) /\ Drains(s, base, c)
        BY <3>0, DrainSound
      <3> HIDE DEF base
      <3>2. /\ base.order = s.order /\ base.next = s.next
            /\ \A j \in Ids \ {c} : base.sent[j] = s.sent[j]
            /\ base.blocked <=> Held(base, c) # <<>>
            /\ base.blocked => Full(base, ChannelOf(c))
        BY <3>1 DEF Drains, Full
      <3>3. \A m \in 1 .. n : o[m] \in ToSet(o)
        BY <1>1 DEF ToSet
      <3>4. base.blocked => \E x \in Channels : Full(base, x)
        BY <3>2, ChannelType
      <3>5. /\ 0 + 1 = 1 /\ 1 .. 0 = {}
        OBVIOUS
      <3>6. \A j \in Streams : base.sent[j] = s.sent[j]
        BY <1>1, <3>2
      <3>7. s.next["control"] <= base.next["control"]
        BY <1>1, <3>2
      <3> QED
        BY <3>1, <3>2, <3>3, <3>4, <3>5, <3>6, <3>7 DEF Round
    <2> HIDE DEF base
    <2>3. PICK r : /\ r[0] = base
                   /\ \A k \in 1 .. n : r[k] = drainNext(r[k - 1], o[k])
                   /\ f = r[n]
      BY <1>1, FlushRounds
    <2> HIDE DEF f, o, n
    <2>4. Round(s, f, o, n)
      <3> DEFINE B == {k \in 0 .. n : ~Round(s, r[k], o, k)}
      <3>1. SUFFICES ASSUME B # {} PROVE FALSE
        <4>1. n \in 0 .. n
          BY <1>1
        <4> QED
          BY <2>3, <4>1
      <3>2. PICK k \in B : \A l \in B : k <= l
        <4>1. B \in SUBSET Nat
          BY <1>1
        <4> HIDE DEF B
        <4> QED
          BY <3>1, <4>1, SmallestNumber
      <3>3. k # 0
        BY <2>2, <2>3
      <3>4. k \in 1 .. n /\ k - 1 \in 0 .. n /\ k - 1 \notin B
        BY <1>1, <3>2, <3>3
      <3>5. Round(s, r[k - 1], o, k - 1)
        BY <3>4
      <3>6. Round(s, drainNext(r[k - 1], o[k]), o, k)
        <4> DEFINE p == r[k - 1]
        <4>1. Round(s, p, o, k - 1) /\ k \in 1 .. Len(o)
          BY <3>4, <3>5 DEF n
        <4> HIDE DEF p
        <4>2. Round(s, drainNext(p, o[k]), o, k)
          BY <1>1, <4>1, RoundStep
        <4> QED
          BY <4>2 DEF p
      <3> QED
        BY <2>3, <3>2, <3>4, <3>6
    <2>5. /\ Sound(f)
          /\ f.open => \/ \A i \in Ids : Held(f, i) = <<>>
                       \/ \E c \in Channels : Full(f, c)
      <3>1. Sound(f)
        BY <2>4 DEF Round
      <3>2. ASSUME f.open, ~f.blocked, NEW i \in Ids PROVE Held(f, i) = <<>>
        <4>1. CASE i = "control"
          BY <2>4, <3>2, <4>1 DEF Round
        <4>2. CASE i \in ToSet(f.order)
          <5>1. i \in ToSet(o)
            BY <2>4, <3>2, <4>2 DEF Round
          <5>2. PICK m \in 1 .. n : i = o[m]
            BY <1>1, <5>1 DEF ToSet
          <5> QED
            BY <2>4, <3>2, <5>2 DEF Round
        <4>3. CASE i # "control" /\ i \notin ToSet(f.order)
          <5>1. i \in Ids \ Registered(f.queue)
            BY <3>1, <3>2, <4>3 DEF Sound, Registry
          <5>2. IsQueue(f.queue)
            BY <3>1 DEF Sound
          <5> QED
            BY <5>1, <5>2, QueueFacts DEF Held
        <4> QED
          BY <4>1, <4>2, <4>3
      <3>3. f.open /\ f.blocked => \E c \in Channels : Full(f, c)
        BY <2>4 DEF Round
      <3> QED
        BY <3>1, <3>2, <3>3
    <2>6. t \in [queue : {f.queue}, order : {f.order}, ready : {f.ready}, next : {f.next}, flight : {f.flight},
                 sent : {f.sent}, open : {f.open}, blocked : {FALSE}]
      BY <2>1, <2>5 DEF Sound, SessionRecord
    <2> HIDE DEF t
    <2>7. /\ t.queue = f.queue /\ t.order = f.order /\ t.ready = f.ready /\ t.next = f.next
          /\ t.flight = f.flight /\ t.sent = f.sent /\ t.open = f.open
      BY <2>6
    <2>8. t \in SessionRecord
      <3>1. f \in SessionRecord /\ FALSE \in BOOLEAN
        BY <2>5 DEF Sound
      <3> QED
        BY <2>6, <3>1 DEF SessionRecord
    <2>9. \A i \in Ids : Held(t, i) = Held(f, i) /\ Trail(t, i) = Trail(f, i)
      BY <2>7 DEF Held, Trail
    <2>10. Sound(t)
      BY <2>5, <2>7, <2>8, <2>9 DEF Sound, Registry
    <2>11. \A c \in Channels : Full(t, c) <=> Full(f, c)
      BY <2>7 DEF Full
    <2>12. /\ \/ \A i \in Streams : t.sent[i] = s.sent[i]
              \/ \A l \in DOMAIN Held(t, "control") : Held(t, "control")[l].seq >= s.next["control"]
           /\ \A i \in denied : t.sent[i] = s.sent[i]
      <3>1. Held(t, "control") = Held(f, "control")
        BY <1>1, <2>9
      <3> QED
        BY <2>4, <2>7, <3>1 DEF Round
    <2>13. t.open => \/ \A i \in Ids : Held(t, i) = <<>>
                     \/ \E c \in Channels : Full(t, c)
      BY <2>5, <2>7, <2>9, <2>11
    <2>14. Flushed(s, t)
      BY <2>10, <2>12, <2>13 DEF Flushed
    <2> QED
      BY <2>14 DEF t
  <1> QED
    BY <1>2, <1>3

-----------------------------------------------------------------------------
(***************************************************************************)
(* The handlers: what each one does before it flushes.                     *)
(***************************************************************************)

\* x is a sound session that has sent exactly what s has.
Prepared(s, x) ==
  /\ Sound(x) /\ x.sent = s.sent /\ s.next["control"] <= x.next["control"]

\* Two sessions with the same queue, history and numbers hold the same trails.
LEMMA SameTrails ==
  ASSUME NEW s, NEW t, t.queue = s.queue, t.sent = s.sent, t.next = s.next, Sound(s)
  PROVE  \A i \in Ids : TrailOK(i, i \in Registered(t.queue), Trail(t, i), t.next[i])
  <1>1. \A i \in Ids : Trail(t, i) = Trail(s, i)
    BY DEF Trail, Held
  <1> QED
    BY <1>1 DEF Sound

\* A response to a request is queued, or closes the session.
LEMMA ResponsePrepared ==
  ASSUME NEW s, NEW d, Sound(s), Prepared(s, d), d.open, NEW size \in Sizes
  PROVE  Prepared(s, respond(d, size))
  <1> DEFINE t == respond(d, size)
  <1>1. Sound(d) /\ "control" \in Ids
    BY Constants DEF Prepared
  <1>2. Sound(t) /\ t.sent = d.sent /\ d.next["control"] <= t.next["control"]
    BY <1>1, RespondSound
  <1> HIDE DEF t
  <1>3. s.next["control"] \in Nat /\ d.next["control"] \in Nat /\ t.next["control"] \in Nat
    BY <1>1, <1>2, SessionFields
  <1>4. Prepared(s, t)
    BY <1>2, <1>3 DEF Prepared
  <1> QED
    BY <1>4 DEF t

\* A session that was not touched is ready to be flushed.
LEMMA SelfPrepared ==
  ASSUME NEW s, Sound(s) PROVE Prepared(s, s)
  <1>1. s.next["control"] \in Nat
    BY SessionFields, Constants
  <1> QED
    BY <1>1 DEF Prepared

\* removeSubscription() leaves a session ready to be flushed.
LEMMA RemovalPrepared ==
  ASSUME NEW s, Sound(s), s.open, NEW i \in ToSet(s.order)
  PROVE  Prepared(s, removeSubscription(s, i)) /\ removeSubscription(s, i).open
  <1>1. s.next["control"] \in Nat
    BY SessionFields, Constants
  <1> DEFINE t == removeSubscription(s, i)
  <1>2. Sound(t) /\ t.open = s.open /\ t.sent = s.sent /\ t.next = s.next
    BY RemoveSound
  <1> HIDE DEF t
  <1>3. Prepared(s, t) /\ t.open
    BY <1>1, <1>2 DEF Prepared
  <1> QED
    BY <1>3 DEF t

\* A stream that becomes ready leaves a session ready to be flushed.
LEMMA ReadyPrepared ==
  ASSUME NEW s, Sound(s), NEW i \in ToSet(s.order)
  PROVE  Prepared(s, [s EXCEPT !.ready = @ \cup {i}])
  <1> DEFINE t == [s EXCEPT !.ready = @ \cup {i}]
  <1>1. s \in SessionRecord /\ s.order \in Seq(Streams) /\ s.ready \in SUBSET Streams /\ Registry(s)
        /\ s.next["control"] \in Nat
    BY SessionFields, Constants
  <1>2. i \in Streams
    BY <1>1, ElementOfSeq, LenProperties DEF ToSet
  <1>3. t \in [queue : {s.queue}, order : {s.order}, ready : {s.ready \cup {i}}, next : {s.next}, flight : {s.flight},
               sent : {s.sent}, open : {s.open}, blocked : {s.blocked}]
    BY <1>1 DEF SessionRecord
  <1> HIDE DEF t
  <1>4. /\ t.queue = s.queue /\ t.order = s.order /\ t.ready = s.ready \cup {i} /\ t.next = s.next
        /\ t.flight = s.flight /\ t.sent = s.sent /\ t.open = s.open
    BY <1>3
  <1>5. t \in SessionRecord
    <2>1. s.ready \cup {i} \in SUBSET Streams
      BY <1>1, <1>2
    <2> QED
      BY <1>1, <1>3, <2>1 DEF SessionRecord
  <1>6. Registry(t)
    BY <1>1, <1>4 DEF Registry
  <1>7. \A j \in Ids : TrailOK(j, j \in Registered(t.queue), Trail(t, j), t.next[j])
    BY <1>4, SameTrails
  <1>8. Sound(t)
    BY <1>4, <1>5, <1>6, <1>7 DEF Sound
  <1>9. Prepared(s, t)
    BY <1>1, <1>4, <1>8 DEF Prepared
  <1> QED
    BY <1>9 DEF t

\* A fresh stream has sent nothing: its identifier was never used.
LEMMA FreshTrail ==
  ASSUME NEW s, Sound(s), NEW i \in Streams \ Registered(s.queue), s.next[i] = 0
  PROVE  s.sent[i] = <<>> /\ Held(s, i) = <<>> /\ TrailOK(i, TRUE, Trail(s, i), 0)
  <1>1. i \in Ids /\ IsQueue(s.queue) /\ s.sent[i] \in Seq(Nat)
    BY SessionFields DEF Ids
  <1>2. Held(s, i) = <<>>
    BY <1>1, QueueFacts DEF Held
  <1>3. Trail(s, i) = s.sent[i]
    <2>1. s.sent[i] \o <<>> = s.sent[i]
      BY <1>1, ConcatEmptySeq
    <2> QED
      BY <1>2, <2>1, SizeEmpty DEF Trail
  <1>4. \A k \in 1 .. Len(s.sent[i]) : s.sent[i][k] < 0 /\ s.sent[i][k] \in Nat
    <2>1. TrailOK(i, i \in Registered(s.queue), Trail(s, i), s.next[i])
      BY <1>1 DEF Sound
    <2>2. \A k \in 1 .. Len(s.sent[i]) : s.sent[i][k] < 0
      BY <1>3, <2>1 DEF TrailOK
    <2> QED
      BY <1>1, <2>2, ElementOfSeq
  <1>5. Len(s.sent[i]) = 0
    <2>1. Len(s.sent[i]) \in Nat
      BY <1>1, LenProperties
    <2>2. 1 \in 1 .. Len(s.sent[i]) => FALSE
      BY <1>4
    <2> QED
      BY <2>1, <2>2
  <1>6. s.sent[i] = <<>>
    BY <1>1, <1>5, EmptySeq
  <1>7. TrailOK(i, TRUE, <<>>, 0)
    <2>1. [k \in 1 .. 0 |-> k - 1] = <<>>
      OBVIOUS
    <2>2. Len(<<>>) = 0 /\ 1 .. 0 = {} /\ 1 .. 0 - 1 = {}
      OBVIOUS
    <2> QED
      BY <2>1, <2>2 DEF TrailOK
  <1> QED
    BY <1>2, <1>3, <1>6, <1>7

\* addSubscription() leaves a session ready to be flushed.
LEMMA SubscriptionPrepared ==
  ASSUME NEW s, Sound(s), s.open, NEW i \in Streams, i \notin Registered(s.queue), s.next[i] = 0
  PROVE  LET max == IF i \in Latest THEN 1 ELSE MaxMessages
             policy == IF i \in Latest THEN "latest" ELSE "reliable"
             t == [s EXCEPT !.queue = register(@, i, policy, max), !.order = Append(@, i)]
         IN Prepared(s, t) /\ t.open
  <1> DEFINE max == IF i \in Latest THEN 1 ELSE MaxMessages
             policy == IF i \in Latest THEN "latest" ELSE "reliable"
             q == register(s.queue, i, policy, max)
             o == Append(s.order, i)
             t == [s EXCEPT !.queue = q, !.order = o]
  <1>1. s \in SessionRecord /\ IsQueue(s.queue) /\ s.order \in Seq(Streams) /\ s.ready \in SUBSET Streams
        /\ Registry(s) /\ s.next["control"] \in Nat
    BY SessionFields, Constants
  <1>2. i \in Ids \ Registered(s.queue) /\ i # "control"
    BY Constants DEF Ids
  <1>3. policy = PolicyOf(i) /\ max = LimitOf(i)
    BY <1>2 DEF PolicyOf, LimitOf
  <1>4. IsQueue(q) /\ Registered(q) = Registered(s.queue) \cup {i} /\ Holding(q) = Holding(s.queue)
    <2> HIDE DEF policy, max
    <2> QED
      BY <1>1, <1>2, <1>3, RegisterQueue
  <1>5. Registered(s.queue) = ToSet(s.order) \cup {"control"}
    BY <1>1 DEF Registry
  <1>6. o \in Seq(Streams) /\ ToSet(o) = ToSet(s.order) \cup {i} /\ Distinct(o)
    <2>1. /\ o \in Seq(Streams) /\ Len(s.order) \in Nat /\ Len(o) = Len(s.order) + 1
          /\ DOMAIN o = 1 .. Len(s.order) + 1 /\ DOMAIN s.order = 1 .. Len(s.order)
          /\ o[Len(s.order) + 1] = i /\ \A k \in 1 .. Len(s.order) : o[k] = s.order[k]
      BY <1>1, AppendProperties, LenProperties
    <2> HIDE DEF o
    <2>2. i \notin ToSet(s.order) /\ Distinct(s.order)
      BY <1>1, <1>5 DEF Registry
    <2>3. ToSet(o) = ToSet(s.order) \cup {i}
      BY <2>1 DEF ToSet
    <2>4. \A k \in 1 .. Len(s.order) : s.order[k] # i
      BY <2>1, <2>2 DEF ToSet
    <2>5. Distinct(o)
      <3>1. SUFFICES ASSUME NEW x \in 1 .. Len(s.order) + 1, NEW y \in 1 .. Len(s.order) + 1, o[x] = o[y]
                     PROVE  x = y
        BY <2>1 DEF Distinct
      <3>2. x \in 1 .. Len(s.order) \/ x = Len(s.order) + 1
        BY <2>1
      <3>3. y \in 1 .. Len(s.order) \/ y = Len(s.order) + 1
        BY <2>1
      <3> QED
        BY <2>1, <2>2, <2>4, <3>1, <3>2, <3>3 DEF Distinct
    <2> QED
      BY <2>1, <2>3, <2>5
  <1>7. t \in [queue : {q}, order : {o}, ready : {s.ready}, next : {s.next}, flight : {s.flight},
               sent : {s.sent}, open : {s.open}, blocked : {s.blocked}]
    BY <1>1 DEF SessionRecord
  <1> HIDE DEF t, q, o
  <1>8. /\ t.queue = q /\ t.order = o /\ t.ready = s.ready /\ t.next = s.next
        /\ t.flight = s.flight /\ t.sent = s.sent /\ t.open = s.open
    BY <1>7
  <1>9. t \in SessionRecord
    <2>1. q \in Queues
      BY <1>4, IsQueueType
    <2> QED
      BY <1>1, <1>6, <1>7, <2>1 DEF SessionRecord
  <1>10. Registry(t)
    BY <1>1, <1>4, <1>5, <1>6, <1>8 DEF Registry
  <1>11. ASSUME NEW j \in Ids
         PROVE  TrailOK(j, j \in Registered(t.queue), Trail(t, j), t.next[j])
    <2>1. Trail(t, j) = Trail(s, j)
      BY <1>4, <1>8 DEF Trail, Held
    <2>2. CASE j # i
      <3>1. j \in Registered(t.queue) <=> j \in Registered(s.queue)
        BY <1>4, <1>8, <2>2
      <3>2. TrailOK(j, j \in Registered(s.queue), Trail(s, j), s.next[j])
        BY DEF Sound
      <3> QED
        BY <1>8, <2>1, <3>1, <3>2 DEF TrailOK
    <2>3. CASE j = i
      <3>1. TrailOK(i, TRUE, Trail(s, i), 0)
        BY FreshTrail
      <3> QED
        BY <1>8, <2>1, <2>3, <3>1 DEF TrailOK
    <2> QED
      BY <2>2, <2>3
  <1>12. Sound(t)
    BY <1>4, <1>8, <1>9, <1>10, <1>11 DEF Sound
  <1>13. Prepared(s, t) /\ t.open
    BY <1>1, <1>8, <1>12 DEF Prepared
  <1> QED
    BY <1>13 DEF t, q, o

\* A latest stream draws a number and keeps only this message, or none.
LEMMA QueueLatest ==
  ASSUME NEW s, Sound(s), NEW i \in Registered(s.queue) \cap Latest, NEW size \in Sizes,
         NEW m, m = [seq |-> s.next[i], size |-> size]
  PROVE  \E ms : Refills(s, i, enqueue(s.queue, i, m), ms)
  <1> DEFINE a == s.sent[i]
             n == s.next[i]
             q == enqueue(s.queue, i, m)
             one == Append(<<>>, m)
             old == s.queue
  <1>1. IsQueue(old) /\ i \in Ids /\ n \in Nat /\ a \in Seq(Nat) /\ Held(s, i) \in Seq(Message)
    BY SessionFields
  <1>2. m \in Message /\ m.seq = n
    BY <1>1 DEF Message
  <1>3. TrailOK(i, TRUE, a, n) /\ TrailOK(i, TRUE, a, n + 1)
    <2>1. TrailOK(i, i \in Registered(s.queue), a \o Numbers(Held(s, i)), n)
      BY <1>1 DEF Sound, Trail
    <2>2. Numbers(Held(s, i)) \in Seq(Nat)
      BY <1>1, WeightsSeq
    <2> HIDE DEF a, n
    <2>3. TrailOK(i, FALSE, a, n)
      BY <1>1, <2>1, <2>2, TrailCut
    <2> QED
      BY <1>1, <2>3, TrailSkip
  <1>4. TrailOK(i, TRUE, Append(a, n), n + 1)
    <2> HIDE DEF a, n
    <2> QED
      BY <1>1, <1>3, TrailNext
  <1>5. <<>> \in Seq(Message) /\ a \o Numbers(<<>>) = a
    BY <1>1, SizeEmpty, ConcatEmptySeq
  <1>6. one \in Seq(Message) /\ a \o Numbers(one) = Append(a, n)
    <2>1. one \in Seq(Message) /\ Numbers(one) = Append(Numbers(<<>>), n)
      BY <1>2, <1>5, SizeAppend
    <2>2. Numbers(one) = Append(<<>>, n)
      BY <2>1, SizeEmpty, Zenon
    <2> DEFINE z == <<>>
    <2>3. z \in Seq(Nat) /\ a \o z = a
      BY <1>1, ConcatEmptySeq
    <2> HIDE DEF a, n, z
    <2>4. a \o Append(z, n) = Append(a \o z, n)
      BY <1>1, <2>3, ConcatAppend
    <2> HIDE DEF one
    <2> QED
      BY <2>1, <2>2, <2>3, <2>4 DEF z
  <1>7. /\ IsQueue(q) /\ Registered(q) = Registered(old)
        /\ \/ Holding(q) = [Holding(old) EXCEPT ![i] = <<>>]
           \/ Holding(q) = [Holding(old) EXCEPT ![i] = one]
    <2>1. IsQueue(old) /\ i \in Registered(old) \cap Latest /\ m \in Message
      BY <1>1, <1>2
    <2> HIDE DEF old
    <2>2. LET p == enqueue(old, i, m) IN
         /\ IsQueue(p) /\ Registered(p) = Registered(old)
         /\ \/ Holding(p) = [Holding(old) EXCEPT ![i] = <<>>]
            \/ Holding(p) = [Holding(old) EXCEPT ![i] = Append(<<>>, m)]
      BY <2>1, EnqueueLatest
    <2> QED
      BY <2>2 DEF old
  <1>8. CASE Holding(q) = [Holding(old) EXCEPT ![i] = <<>>]
    <2>1. TrailOK(i, TRUE, a \o Numbers(<<>>), n + 1)
      BY <1>3, <1>5
    <2>2. Refills(s, i, q, <<>>)
      BY <1>5, <1>7, <1>8, <2>1 DEF Refills
    <2> QED
      BY <2>2
  <1>9. CASE Holding(q) = [Holding(old) EXCEPT ![i] = one]
    <2>1. TrailOK(i, TRUE, a \o Numbers(one), n + 1)
      BY <1>4, <1>6
    <2> HIDE DEF one
    <2>2. Refills(s, i, q, one)
      BY <1>6, <1>7, <1>9, <2>1 DEF Refills
    <2> QED
      BY <2>2
  <1> QED
    BY <1>7, <1>8, <1>9

\* A sample that the queue takes.
LEMMA SamplePrepared ==
  ASSUME NEW s, Sound(s), s.open, NEW i \in ToSet(s.order), NEW size \in Sizes,
         NEW m, m = [seq |-> s.next[i], size |-> size], ~Overflows(s.queue, i, m),
         NEW t, t = [s EXCEPT !.next[i] = @ + 1, !.queue = enqueue(@, i, m)]
  PROVE  Prepared(s, t)
  <1> DEFINE q == enqueue(s.queue, i, m)
  <1>1. s \in SessionRecord /\ s.next \in [Ids -> Nat] /\ s.order \in Seq(Streams) /\ Registry(s)
    BY SessionFields
  <1>2. i \in Streams /\ i \in Registered(s.queue) /\ "control" \in Ids \ {i}
    <2>1. i \in Streams
      BY <1>1, ElementOfSeq, LenProperties DEF ToSet
    <2> QED
      BY <1>1, <2>1, Constants DEF Registry
  <1>3. Draws(s, t, i, q)
    BY <1>1 DEF Draws, SessionRecord
  <1>4. PICK ms : Refills(s, i, q, ms)
    <2>1. CASE i \in Latest
      <3> HIDE DEF q
      <3>1. i \in Registered(s.queue) \cap Latest
        BY <1>2, <2>1
      <3> QED
        BY <3>1, QueueLatest DEF q
    <2>2. CASE i \notin Latest
      <3>1. i \in Registered(s.queue) \ Latest
        BY <1>2, <2>2
      <3>2. Refills(s, i, q, Append(Held(s, i), m))
        BY <3>1, QueueReliable
      <3> QED
        BY <3>2
    <2> QED
      BY <2>1, <2>2
  <1> HIDE DEF q
  <1>5. Sound(t) /\ Drawn(s, t, i, ms)
    BY <1>2, <1>3, <1>4, DrawsSound
  <1>6. t.sent = s.sent /\ t.next["control"] = s.next["control"]
    BY <1>2, <1>5 DEF Drawn
  <1>7. s.next["control"] \in Nat
    BY <1>1, <1>2
  <1> QED
    BY <1>5, <1>6, <1>7 DEF Prepared

\* The association takes the first message of a channel's buffer.
LEMMA TransmitPrepared ==
  ASSUME NEW s, Sound(s), NEW c \in Channels, s.flight[c] # <<>>
  PROVE  LET t == [s EXCEPT !.flight[c] = Tail(@)] IN
         /\ Prepared(s, t) /\ t.open = s.open
         /\ \A d \in Channels \ {c} : t.flight[d] = s.flight[d]
         /\ \A i \in Ids : Held(t, i) = Held(s, i)
  <1> DEFINE t == [s EXCEPT !.flight[c] = Tail(@)]
             f == [s.flight EXCEPT ![c] = Tail(s.flight[c])]
             ms == s.flight[c]
  <1>1. s \in SessionRecord /\ s.flight \in [Channels -> Seq(Message)] /\ Registry(s)
        /\ s.next["control"] \in Nat
    BY SessionFields, Constants
  <1>2. ms \in Seq(Message) /\ ms # <<>> /\ SizeOf(ms) <= MaxBuffered
    BY <1>1 DEF Sound
  <1>3. Tail(ms) \in Seq(Message) /\ SizeOf(Tail(ms)) <= MaxBuffered
    <2> HIDE DEF ms
    <2>1. Len(ms) \in Nat \ {0} /\ 1 \in 0 .. Len(ms) /\ Tail(ms) \in Seq(Message)
      BY <1>2, EmptySeq, LenProperties, HeadTailProperties
    <2>2. Tail(ms) = SubSeq(ms, 1 + 1, Len(ms))
      BY <1>2, <2>1
    <2>3. /\ SubSeq(ms, 1, 1) \in Seq(Message)
          /\ SizeOf(ms) = SizeOf(SubSeq(ms, 1, 1)) + SizeOf(SubSeq(ms, 1 + 1, Len(ms)))
      BY <1>2, <2>1, SizeSplit
    <2> DEFINE x == SizeOf(SubSeq(ms, 1, 1))
               y == SizeOf(Tail(ms))
               z == SizeOf(ms)
    <2>4. x \in Nat /\ y \in Nat /\ z = x + y /\ z <= MaxBuffered
      BY <1>2, <2>1, <2>2, <2>3, SizeType, Zenon
    <2> HIDE DEF x, y, z
    <2>5. y <= MaxBuffered
      BY <2>4, Constants
    <2> QED
      BY <2>1, <2>5 DEF y
  <1>4. f \in [Channels -> Seq(Message)] /\ f[c] = Tail(ms) /\ \A d \in Channels \ {c} : f[d] = s.flight[d]
    BY <1>1, <1>3
  <1>5. t \in [queue : {s.queue}, order : {s.order}, ready : {s.ready}, next : {s.next}, flight : {f},
               sent : {s.sent}, open : {s.open}, blocked : {s.blocked}]
    BY <1>1 DEF SessionRecord
  <1> HIDE DEF t, f
  <1>6. /\ t.queue = s.queue /\ t.order = s.order /\ t.ready = s.ready /\ t.next = s.next
        /\ t.flight = f /\ t.sent = s.sent /\ t.open = s.open
    BY <1>5
  <1>7. t \in SessionRecord
    BY <1>1, <1>4, <1>5 DEF SessionRecord
  <1>8. Registry(t)
    BY <1>1, <1>6 DEF Registry
  <1>9. \A j \in Ids : TrailOK(j, j \in Registered(t.queue), Trail(t, j), t.next[j])
    BY <1>6, SameTrails
  <1>10. \A d \in Channels : SizeOf(t.flight[d]) <= MaxBuffered
    <2>1. ASSUME NEW d \in Channels PROVE SizeOf(t.flight[d]) <= MaxBuffered
      <3>1. CASE d = c
        BY <1>3, <1>4, <1>6, <3>1
      <3>2. CASE d # c
        BY <1>4, <1>6, <3>2 DEF Sound
      <3> QED
        BY <3>1, <3>2
    <2> QED
      BY <2>1
  <1>11. Sound(t)
    BY <1>6, <1>7, <1>8, <1>9, <1>10 DEF Sound
  <1>12. Prepared(s, t) /\ t.open = s.open
    BY <1>1, <1>6, <1>11 DEF Prepared
  <1>13. \A d \in Channels \ {c} : t.flight[d] = s.flight[d]
    BY <1>4, <1>6
  <1>14. \A i \in Ids : Held(t, i) = Held(s, i)
    BY <1>6 DEF Held
  <1> QED
    BY <1>12, <1>13, <1>14 DEF t

-----------------------------------------------------------------------------
(***************************************************************************)
(* The specification: an inductive invariant, and what follows.            *)
(***************************************************************************)

DeliveryInv == Sound(session) /\ denied \subseteq Streams

\* What every step of an open session satisfies.
Stepped ==
  /\ Sound(session')
  /\ \/ \A i \in Streams : session'.sent[i] = session.sent[i]
     \/ \A l \in DOMAIN Held(session', "control") :
          Held(session', "control")[l].seq >= session.next["control"]
  /\ \A i \in denied : session'.sent[i] = session.sent[i]

\* After a flush there is nothing left to send, or a channel is full.
Woken ==
  session'.open => \/ \A i \in Ids : Held(session', i) = <<>>
                   \/ \E c \in Channels : Full(session', c)

\* The session of a new peer.
LEMMA InitialSound == Sound(InitialSession)
  <1> DEFINE s == InitialSession
             q == register(EmptyQueue, "control", "reliable", MaxControl)
  <1>1. "control" \in Ids /\ "control" \notin Latest /\ PolicyOf("control") = "reliable"
        /\ LimitOf("control") = MaxControl
    BY Constants DEF PolicyOf, LimitOf
  <1>2. IsQueue(q) /\ Registered(q) = {"control"} /\ Holding(q) = Holding(EmptyQueue)
    <2>1. IsQueue(EmptyQueue) /\ Registered(EmptyQueue) = {} /\ "control" \in Ids \ Registered(EmptyQueue)
      BY <1>1, EmptyQueueIsQueue
    <2>2. LET p == register(EmptyQueue, "control", PolicyOf("control"), LimitOf("control")) IN
          IsQueue(p) /\ Registered(p) = Registered(EmptyQueue) \cup {"control"} /\ Holding(p) = Holding(EmptyQueue)
      BY <2>1, RegisterQueue
    <2> QED
      BY <1>1, <2>1, <2>2
  <1> DEFINE next == [i \in Ids |-> 0]
             flight == [c \in Channels |-> <<>>]
             sent == [i \in Ids |-> <<>>]
  <1>3. s \in [queue : {q}, order : {<<>>}, ready : {{}}, next : {next}, flight : {flight},
               sent : {sent}, open : {TRUE}, blocked : {FALSE}]
    BY DEF InitialSession
  <1> HIDE DEF s, q
  <1>4. next \in [Ids -> Nat] /\ flight \in [Channels -> Seq(Message)] /\ sent \in [Ids -> Seq(Nat)]
    OBVIOUS
  <1>5. s \in SessionRecord
    <2>1. q \in Queues /\ <<>> \in Seq(Streams) /\ {} \in SUBSET Streams /\ TRUE \in BOOLEAN /\ FALSE \in BOOLEAN
      BY <1>2, IsQueueType
    <2> HIDE DEF next, flight, sent
    <2> QED
      BY <1>3, <1>4, <2>1 DEF SessionRecord
  <1>6. /\ s.queue = q /\ s.order = <<>> /\ s.ready = {} /\ s.next = next
        /\ s.flight = flight /\ s.sent = sent /\ s.open = TRUE
    BY <1>3
  <1>7. Registry(s)
    BY <1>2, <1>6 DEF Registry, Distinct, ToSet
  <1>8. \A c \in Channels : SizeOf(s.flight[c]) <= MaxBuffered
    <2>1. \A c \in Channels : s.flight[c] = <<>>
      BY <1>6
    <2>2. 0 <= MaxBuffered
      BY Constants
    <2> QED
      BY <2>1, <2>2, SizeEmpty
  <1>9. ASSUME NEW i \in Ids
        PROVE  TrailOK(i, i \in Registered(s.queue), Trail(s, i), s.next[i])
    <2>1. Held(s, i) = <<>> /\ s.sent[i] = <<>> /\ s.next[i] = 0
      BY <1>2, <1>6, EmptyQueueIsQueue DEF Held
    <2>2. Trail(s, i) = <<>>
      BY <2>1, SizeEmpty DEF Trail
    <2>3. [k \in 1 .. 0 |-> k - 1] = <<>>
      OBVIOUS
    <2>4. Len(<<>>) = 0 /\ 1 .. 0 = {} /\ 1 .. 0 - 1 = {}
      OBVIOUS
    <2> QED
      BY <2>1, <2>2, <2>3, <2>4 DEF TrailOK
  <1>10. Sound(s)
    BY <1>2, <1>5, <1>6, <1>7, <1>8, <1>9 DEF Sound
  <1> QED
    BY <1>10 DEF s

\* A handler that prepares a session and flushes it.
LEMMA FlushStep ==
  ASSUME DeliveryInv, NEW x, Prepared(session, x), session' = flush(x)
  PROVE  Stepped /\ Woken
  <1> DEFINE t == flush(x)
             N == session.next["control"]
  <1>1. Sound(x) /\ denied \subseteq Streams /\ x.sent = session.sent /\ N <= x.next["control"] /\ "control" \in Ids
    BY Constants DEF DeliveryInv, Prepared
  <1>2. Flushed(x, t)
    BY <1>1, FlushSound
  <1> HIDE DEF t
  <1>3. N \in Nat /\ x.next["control"] \in Nat
    BY <1>1, SessionFields DEF DeliveryInv
  <1>4. ASSUME NEW l \in DOMAIN Held(t, "control"), Held(t, "control")[l].seq >= x.next["control"]
        PROVE  Held(t, "control")[l].seq >= N
    <2>1. Held(t, "control") \in Seq(Message)
      BY <1>1, <1>2, SessionFields DEF Flushed
    <2>2. Held(t, "control")[l] \in Message
      BY <2>1, LenProperties, ElementOfSeq
    <2>3. Held(t, "control")[l].seq \in Nat
      BY <2>2, MessageFields
    <2> QED
      BY <1>1, <1>3, <1>4, <2>3
  <1>5. session' = t
    BY DEF t
  <1>6. Stepped
    BY <1>1, <1>2, <1>4, <1>5 DEF Stepped, Flushed
  <1>7. Woken
    BY <1>2, <1>5 DEF Woken, Flushed
  <1> QED
    BY <1>6, <1>7

\* The session as every action leaves it.
LEMMA ActionStep ==
  ASSUME DeliveryInv, Next
  PROVE  /\ Stepped /\ denied' \subseteq Streams
         /\ \/ Woken
            \/ UNCHANGED session
            \/ \E c \in Channels :
                 /\ session'.open = session.open
                 /\ \A d \in Channels \ {c} : session'.flight[d] = session.flight[d]
                 /\ \A i \in Ids : Held(session', i) = Held(session, i)
                 /\ Buffered(session, c) > LowThreshold => Buffered(session', c) > LowThreshold
  <1>0. Sound(session) /\ denied \subseteq Streams /\ Prepared(session, session)
    BY SelfPrepared DEF DeliveryInv
  <1>00. 1 \in Sizes
    BY Constants DEF Sizes
  <1>1. CASE \E size \in Sizes : Request(size)
    <2>1. PICK size \in Sizes : Request(size)
      BY <1>1
    <2>2. Prepared(session, respond(session, size))
      BY <1>0, <2>1, ResponsePrepared DEF Request
    <2> QED
      BY <1>0, <2>1, <2>2, FlushStep DEF Request
  <1>2. CASE \E size \in Sizes, i \in Streams : Subscribe(i, size)
    <2>1. PICK size \in Sizes, i \in Streams : Subscribe(i, size)
      BY <1>2
    <2> DEFINE max == IF i \in Latest THEN 1 ELSE MaxMessages
               policy == IF i \in Latest THEN "latest" ELSE "reliable"
               s == [session EXCEPT !.queue = register(@, i, policy, max), !.order = Append(@, i)]
    <2>2. Prepared(session, s) /\ s.open
      <3>1. i \notin Registered(session.queue) /\ session.open /\ session.next[i] = 0
        BY <2>1 DEF Subscribe, CanRegister
      <3> QED
        BY <1>0, <3>1, SubscriptionPrepared
    <2>3. session' = flush(respond(s, size)) /\ denied' = denied
      BY <2>1 DEF Subscribe
    <2> HIDE DEF s
    <2>4. Prepared(session, respond(s, size))
      BY <1>0, <2>2, ResponsePrepared
    <2> QED
      BY <1>0, <2>3, <2>4, FlushStep
  <1>3. CASE \E size \in Sizes, i \in Streams : Unsubscribe(i, size)
    <2>1. PICK size \in Sizes, i \in Streams : Unsubscribe(i, size)
      BY <1>3
    <2> DEFINE s == removeSubscription(session, i)
    <2>2. Prepared(session, s) /\ s.open
      BY <1>0, <2>1, RemovalPrepared DEF Unsubscribe
    <2> HIDE DEF s
    <2>3. Prepared(session, respond(s, size))
      BY <1>0, <2>2, ResponsePrepared
    <2> QED
      BY <1>0, <2>1, <2>3, FlushStep DEF Unsubscribe, s
  <1>4. CASE \E i \in Streams : Ready(i)
    <2>1. PICK i \in Streams : Ready(i)
      BY <1>4
    <2>2. Prepared(session, [session EXCEPT !.ready = @ \cup {i}])
      BY <1>0, <2>1, ReadyPrepared DEF Ready
    <2> QED
      BY <1>0, <2>1, <2>2, FlushStep DEF Ready
  <1>5. CASE \E i \in Streams : Deny(i)
    <2>1. session' = session /\ denied' \subseteq Streams
      BY <1>0, <1>5 DEF Deny
    <2>2. Stepped
      BY <1>0, <2>1 DEF Stepped
    <2> QED
      BY <2>1, <2>2
  <1>6. CASE \E i \in Streams, size \in 1 .. MaxMessageBytes + 1 : Sample(i, size)
    <2>1. PICK i \in Streams, size \in 1 .. MaxMessageBytes + 1 : Sample(i, size)
      BY <1>6
    <2> DEFINE m == [seq |-> session.next[i], size |-> size]
               s == [session EXCEPT !.next[i] = @ + 1]
    <2>2. session.open /\ i \in ToSet(session.order)
      BY <1>0, <2>1 DEF Sample, Sound, Registry
    <2>3. /\ session' = IF i \in denied \/ size > MaxMessageBytes \/ Overflows(s.queue, i, m)
                        THEN error(removeSubscription(session, i))
                        ELSE flush([s EXCEPT !.queue = enqueue(@, i, m)])
          /\ denied' = denied
      BY <2>1 DEF Sample
    <2>4. CASE i \in denied \/ size > MaxMessageBytes \/ Overflows(s.queue, i, m)
      <3> DEFINE r == removeSubscription(session, i)
      <3>1. session' = flush(respond(r, 1))
        BY <2>3, <2>4 DEF error
      <3>2. Prepared(session, r) /\ r.open
        BY <1>0, <2>2, RemovalPrepared
      <3> HIDE DEF r
      <3>3. Prepared(session, respond(r, 1))
        BY <1>0, <1>00, <3>2, ResponsePrepared
      <3> QED
        BY <1>0, <2>3, <3>1, <3>3, FlushStep
    <2>5. CASE ~(i \in denied \/ size > MaxMessageBytes \/ Overflows(s.queue, i, m))
      <3> DEFINE t == [session EXCEPT !.next[i] = @ + 1, !.queue = enqueue(@, i, m)]
      <3>1. session \in SessionRecord
        BY <1>0, SessionFields
      <3>2. s.queue = session.queue /\ [s EXCEPT !.queue = enqueue(@, i, m)] = t
        BY <3>1 DEF SessionRecord
      <3>3. session' = flush(t) /\ ~Overflows(session.queue, i, m) /\ size \in Sizes
        BY <2>3, <2>5, <3>2, Constants DEF Sizes
      <3>4. Prepared(session, t)
        <4> HIDE DEF m
        <4>1. m = [seq |-> session.next[i], size |-> size] /\ t = [session EXCEPT !.next[i] = @ + 1, !.queue = enqueue(@, i, m)]
          BY DEF m
        <4> HIDE DEF t
        <4> QED
          BY <1>0, <2>2, <3>3, <4>1, SamplePrepared
      <3> HIDE DEF t
      <3> QED
        BY <1>0, <2>3, <3>3, <3>4, FlushStep
    <2> QED
      BY <2>4, <2>5
  <1>7. CASE \E c \in Channels : Transmit(c)
    <2>1. PICK c \in Channels : Transmit(c)
      BY <1>7
    <2> DEFINE s == [session EXCEPT !.flight[c] = Tail(@)]
               crosses == Buffered(session, c) > LowThreshold /\ Buffered(s, c) <= LowThreshold
    <2>2. session.flight[c] # <<>> /\ session' = (IF crosses THEN flush(s) ELSE s) /\ denied' = denied
      BY <2>1 DEF Transmit, TransmitDue
    <2>3. /\ Prepared(session, s) /\ s.open = session.open
          /\ \A d \in Channels \ {c} : s.flight[d] = session.flight[d]
          /\ \A i \in Ids : Held(s, i) = Held(session, i)
      BY <1>0, <2>2, TransmitPrepared
    <2> HIDE DEF s
    <2>4. CASE crosses
      BY <1>0, <2>2, <2>3, <2>4, FlushStep
    <2>5. CASE ~crosses
      <3>1. session' = s
        BY <2>2, <2>5
      <3>2. Sound(s) /\ s.sent = session.sent
        BY <2>3 DEF Prepared
      <3>3. Stepped
        BY <3>1, <3>2 DEF Stepped
      <3>4. Buffered(session, c) > LowThreshold => Buffered(session', c) > LowThreshold
        <4>1. s.flight[c] \in Seq(Message)
          BY <3>2, SessionFields
        <4>2. Buffered(s, c) \in Nat /\ LowThreshold \in Nat
          BY <4>1, SizeType, Constants DEF Buffered, LowThreshold
        <4> QED
          BY <2>5, <3>1, <4>2
      <3> QED
        BY <1>0, <2>2, <2>3, <3>1, <3>3, <3>4
    <2> QED
      BY <2>4, <2>5
  <1>8. CASE PeerCloses
    <2>1. session' = closeRouter(session) /\ denied' = denied
      BY <1>8 DEF PeerCloses
    <2> DEFINE t == closeRouter(session)
    <2>2. Sound(t) /\ ~t.open /\ t.sent = session.sent
      BY <1>0, CloseSound
    <2> HIDE DEF t
    <2> QED
      BY <1>0, <2>1, <2>2 DEF Stepped, Woken, t
  <1> QED
    BY <1>1, <1>2, <1>3, <1>4, <1>5, <1>6, <1>7, <1>8 DEF Next

\* Nothing changes in a stuttering step.
LEMMA StutterStep ==
  ASSUME DeliveryInv, UNCHANGED deliveryVars
  PROVE  DeliveryInv' /\ Stepped
  <1>1. session' = session /\ denied' = denied
    BY DEF deliveryVars
  <1>2. Sound(session')
    BY <1>1 DEF DeliveryInv
  <1> QED
    BY <1>1, <1>2 DEF DeliveryInv, Stepped

\* The inductive invariant of the delivery model: a sound session, and only streams
\* are ever denied.
THEOREM DeliveryInvariant == Spec => []DeliveryInv
  <1>1. Init => DeliveryInv
    BY InitialSound DEF Init, DeliveryInv
  <1>2. DeliveryInv /\ [Next]_deliveryVars => DeliveryInv'
    <2>1. ASSUME DeliveryInv, Next PROVE DeliveryInv'
      BY <2>1, ActionStep DEF DeliveryInv, Stepped
    <2> QED
      BY <2>1, StutterStep
  <1> QED
    BY <1>1, <1>2, PTL DEF Spec

\* The model's name for what a stream holds, and the name used here.
LEMMA QueuedIsHeld == \A i \in Ids : Queued(i) = Held(session, i)
  BY DEF Queued, Held, Holding

\* For every size of queue, budget and buffer: the queue's streams are the live
\* subscriptions and control, the byte counter of DeliveryQueue is the sum of what they
\* hold, and neither it nor a transport buffer exceeds its limit.
THEOREM BytesAlwaysAccounted == Spec => []BytesAccounted
  <1>1. DeliveryInv => BytesAccounted
    <2> SUFFICES ASSUME DeliveryInv PROVE BytesAccounted
      OBVIOUS
    <2>1. Sound(session) /\ IsQueue(session.queue) /\ Registry(session)
      BY DEF DeliveryInv, Sound
    <2>2. session.queue.bytes = SumFunction([i \in Ids |-> SizeOf(Queued(i))])
      <3>1. session.queue.bytes = Total(Holding(session.queue))
        BY <2>1, QueueFacts
      <3>2. [i \in Ids |-> SizeOf(Queued(i))] = [i \in Ids |-> SizeOf(Holding(session.queue)[i])]
        BY QueuedIsHeld DEF Held
      <3> QED
        BY <3>1, <3>2 DEF Total
    <2>3. session.queue.bytes <= MaxBytes /\ \A i \in Registered(session.queue) : ~session.queue.streams[i].stopped
      BY <2>1, QueueFacts
    <2>4. \A c \in Channels : Buffered(session, c) <= MaxBuffered
      BY <2>1 DEF Sound, Buffered
    <2>5. Registered(session.queue) = IF session.open THEN ToSet(session.order) \cup {"control"} ELSE {}
      BY <2>1 DEF Registry
    <2> QED
      BY <2>2, <2>3, <2>4, <2>5 DEF BytesAccounted
  <1> QED
    BY <1>1, DeliveryInvariant, PTL

\* For every number of streams, messages and limits: a reliable stream has lost nothing
\* and a latest stream never goes back and holds at most one sample.
THEOREM PoliciesAlwaysKept == Spec => []PoliciesKept
  <1>1. DeliveryInv => PoliciesKept
    <2> SUFFICES ASSUME DeliveryInv PROVE PoliciesKept
      OBVIOUS
    <2>1. Sound(session) /\ IsQueue(session.queue) /\ Registry(session) /\ session.order \in Seq(Streams)
      BY SessionFields DEF DeliveryInv
    <2>2. \A i \in Ids : session.sent[i] \o QueuedSeqs(i) = Trail(session, i)
      BY QueuedIsHeld DEF QueuedSeqs, Trail, Numbers
    <2>3. \A i \in Ids : TrailOK(i, i \in Registered(session.queue), Trail(session, i), session.next[i])
      BY <2>1 DEF Sound
    <2>4. ASSUME NEW i \in ToSet(session.order) \ Latest
          PROVE  session.sent[i] \o QueuedSeqs(i) = [k \in 1 .. session.next[i] |-> k - 1]
      <3>1. i \in Registered(session.queue)
        BY <2>1 DEF Registry, ToSet
      <3>2. i \in Ids
        BY <2>1, <3>1, QueueFacts
      <3> QED
        BY <2>2, <2>3, <3>1, <3>2 DEF TrailOK
    <2>5. ASSUME NEW i \in Latest
          PROVE  LET all == session.sent[i] \o QueuedSeqs(i) IN
                 /\ Len(Queued(i)) <= 1
                 /\ \A k \in 1 .. Len(all) - 1 : all[k] < all[k + 1]
      <3>1. i \in Ids /\ LimitOf(i) = 1
        BY Constants DEF LimitOf, Ids
      <3>2. Len(Queued(i)) <= 1
        BY <2>1, <3>1, QueueFacts, QueuedIsHeld DEF Held
      <3> QED
        BY <2>2, <2>3, <3>1, <3>2 DEF TrailOK
    <2> QED
      BY <2>4, <2>5 DEF PoliciesKept
  <1> QED
    BY <1>1, DeliveryInvariant, PTL

\* No sample overtakes a control message that was already waiting when a handler began,
\* whatever flush() finds in the queues and removes on the way.
THEOREM ControlAlwaysFirst == Spec => ControlFirst
  <1> DEFINE First == session'.open /\ (\E i \in Streams : session'.sent[i] # session.sent[i])
       => \A k \in DOMAIN session'.queue.streams["control"].messages :
            session'.queue.streams["control"].messages[k].seq >= session.next["control"]
  <1>1. DeliveryInv /\ [Next]_deliveryVars => [First]_deliveryVars
    <2> SUFFICES ASSUME DeliveryInv, Next PROVE First
      OBVIOUS
    <2>1. SUFFICES ASSUME session'.open, \E i \in Streams : session'.sent[i] # session.sent[i]
                   PROVE  \A k \in DOMAIN session'.queue.streams["control"].messages :
                            session'.queue.streams["control"].messages[k].seq >= session.next["control"]
      OBVIOUS
    <2>2. Stepped
      BY ActionStep
    <2>3. "control" \in Registered(session'.queue) /\ IsQueue(session'.queue)
      BY <2>1, <2>2 DEF Stepped, Sound, Registry
    <2>4. session'.queue.streams["control"].messages = Held(session', "control")
      BY <2>3, QueueFacts DEF Held
    <2> QED
      BY <2>1, <2>2, <2>4 DEF Stepped
  <1> QED
    BY <1>1, DeliveryInvariant, PTL DEF Spec, ControlFirst

\* A stream whose topic is no longer permitted sends nothing, in any step of any handler.
THEOREM DeniedNeverSends == Spec => DeniedIsNotSent
  <1> DEFINE Silent == \A i \in denied : session'.sent[i] = session.sent[i]
  <1>1. DeliveryInv /\ [Next]_deliveryVars => [Silent]_deliveryVars
    <2> SUFFICES ASSUME DeliveryInv, Next PROVE Silent
      OBVIOUS
    <2> QED
      BY ActionStep DEF Stepped
  <1> QED
    BY <1>1, DeliveryInvariant, PTL DEF Spec, DeniedIsNotSent

\* The buffer has room for one more message of the largest size above the low-water mark.
Headroom == MaxMessageBytes + LowThreshold <= MaxBuffered

\* Where a channel's buffer can take a message of the largest size at its low-water mark,
\* no wake-up is lost: this is the condition the configuration does not check, and the
\* one the run of MCDeliveryStalls violates.
THEOREM WakeUpAlwaysDue ==
  ASSUME Headroom
  PROVE  Spec => []WakeUpDue
  <1>0. LowThreshold \in Nat
    BY Constants DEF LowThreshold
  <1>1. Init => WakeUpDue
    <2> SUFFICES ASSUME Init PROVE WakeUpDue
      OBVIOUS
    <2>1. session.queue = register(EmptyQueue, "control", "reliable", MaxControl)
      BY DEF Init, InitialSession
    <2>2. \A i \in Ids : Queued(i) = <<>>
      BY <2>1 DEF Queued, register, EmptyQueue, Registered
    <2> QED
      BY <2>2 DEF WakeUpDue
  <1>2. ASSUME DeliveryInv, WakeUpDue, [Next]_deliveryVars PROVE WakeUpDue'
    <2>0. \A i \in Ids : Queued(i) = Held(session, i) /\ Queued(i)' = Held(session', i)
      BY DEF Queued, Held, Holding
    <2>1. CASE UNCHANGED session
      BY <1>2, <2>0, <2>1 DEF WakeUpDue, Buffered
    <2>2. CASE Next
      <3>1. /\ Stepped
            /\ \/ Woken
               \/ UNCHANGED session
               \/ \E c \in Channels :
                    /\ session'.open = session.open
                    /\ \A d \in Channels \ {c} : session'.flight[d] = session.flight[d]
                    /\ \A i \in Ids : Held(session', i) = Held(session, i)
                    /\ Buffered(session, c) > LowThreshold => Buffered(session', c) > LowThreshold
        BY <1>2, <2>2, ActionStep
      <3>2. CASE Woken
        <4>1. ASSUME NEW c \in Channels, Full(session', c) PROVE Buffered(session', c) > LowThreshold
          <5>1. session'.flight[c] \in Seq(Message)
            BY <3>1, SessionFields DEF Stepped
          <5>2. SizeOf(session'.flight[c]) \in Nat
            BY <5>1, SizeType
          <5> QED
            BY <1>0, <4>1, <5>2, Constants DEF Full, Headroom, Buffered
        <4> QED
          BY <2>0, <3>2, <4>1 DEF WakeUpDue, Woken
      <3>3. CASE \E c \in Channels :
                    /\ session'.open = session.open
                    /\ \A d \in Channels \ {c} : session'.flight[d] = session.flight[d]
                    /\ \A i \in Ids : Held(session', i) = Held(session, i)
                    /\ Buffered(session, c) > LowThreshold => Buffered(session', c) > LowThreshold
        <4>1. \A d \in Channels : Buffered(session, d) > LowThreshold => Buffered(session', d) > LowThreshold
          BY <3>3 DEF Buffered
        <4> QED
          BY <1>2, <2>0, <3>3, <4>1 DEF WakeUpDue
      <3> QED
        BY <2>1, <3>1, <3>2, <3>3
    <2> QED
      BY <1>2, <2>1, <2>2 DEF deliveryVars
  <1> QED
    BY <1>1, <1>2, DeliveryInvariant, PTL DEF Spec

=============================================================================
