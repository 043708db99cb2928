------------------------ MODULE SessionControlProofs ------------------------
(***************************************************************************)
(* What the receiving side of a session keeps for any topics, limits and   *)
(* clock.  AnsweredRunsOnce rests on RanInv: a request whose reply fitted  *)
(* a message and has not expired is in the cache, whatever was pruned.     *)
(* CalledOnce rests on SentInv: a publisher's record bounds everything ROS *)
(* was called with.  The byte count of CacheAccounted is a sum over the    *)
(* cache; SumProofs has the laws of such sums.                             *)
(***************************************************************************)
EXTENDS SessionControl, SumProofs

\* A request whose reply fitted a message and has not expired is in the cache.
RanInv ==
  \A i \in DOMAIN ran :
    /\ ran[i].at <= now
    /\ open /\ ran[i].fits /\ now < ran[i].at + RequestTtl =>
         /\ ran[i].id \in DOMAIN cache
         /\ ran[i].at + RequestTtl <= cache[ran[i].id].expires

\* Identifiers are never reused, and a publisher's record bounds what was sent.
IssuedInv == streams \subseteq 1 .. nextId /\ DOMAIN publishers \subseteq 1 .. nextId

SentInv ==
  \A i \in DOMAIN toRos :
    /\ toRos[i].handle <= nextId
    /\ toRos[i].handle \in DOMAIN publishers =>
         /\ toRos[i].seq <= publishers[toRos[i].handle].seq
         /\ toRos[i].at + Interval <= publishers[toRos[i].handle].nextAt

\* The cache never has more entries than configured.
EntriesInv == IsFiniteSet(DOMAIN cache) /\ Cardinality(DOMAIN cache) <= MaxRequests

-----------------------------------------------------------------------------

\* The constants as numbers.
LEMMA Numbers ==
  /\ MaxHandles \in Nat \ {0} /\ MaxRequests \in Nat \ {0} /\ RequestTtl \in Nat \ {0}
  /\ MaxControlRate \in Nat \ {0} /\ RateWindow \in Nat \ {0} /\ Interval \in Nat \ {0}
  /\ MaxBytes \in Nat \ {0} /\ CacheBytes \in Nat \ {0}
  /\ MaxTime \in Nat /\ MaxSeq \in Nat /\ MaxId \in Nat
  BY ControlAssumption DEF ControlAssumption

\* The clock and the identifiers as numbers.
LEMMA Clock == TypeOK => now \in Nat /\ now <= MaxTime /\ nextId \in Nat /\ nextId <= MaxId
  <1>1. TypeOK => now \in 0 .. MaxTime /\ nextId \in 0 .. MaxId
    BY DEF TypeOK
  <1>2. QED
    BY <1>1, Numbers

\* The empty function.
LEMMA EmptyFunction ==
  ASSUME NEW S
  PROVE  DOMAIN <<>> = {} /\ <<>> \in [{} -> S]
  OBVIOUS

\* A cache entry and a publisher.
CacheEntry == [expires : Nat, bytes : Nat]
Publisher == [topic : Commands, seq : -1 .. MaxSeq, nextAt : Nat]

\* The cache after a step: emptied of what expired, and perhaps one entry more.
LEMMA PruneCache ==
  ASSUME TypeOK, Prune
  PROVE  /\ DOMAIN cache' = Live
         /\ \A r \in Live : cache'[r] = cache[r]
         /\ DOMAIN cache' \subseteq Requests /\ cache' \in [DOMAIN cache' -> CacheEntry]
  <1>1. Live \subseteq DOMAIN cache
    BY DEF Live
  <1>2. cache' = [r \in DOMAIN cache \cap Live |-> cache[r]]
    BY DEF Prune, Restricted
  <1>3. DOMAIN cache \cap Live = Live
    BY <1>1
  <1>4. cache' = [r \in Live |-> cache[r]]
    BY <1>2, <1>3
  <1>5. \A r \in DOMAIN cache : cache[r] \in CacheEntry
    BY DEF TypeOK, CacheEntry
  <1>6. QED
    BY <1>1, <1>4, <1>5 DEF TypeOK

\* The entry of a request and its size.
LEMMA EntryFacts ==
  ASSUME TypeOK, NEW r \in Requests, NEW q \in Inputs
  PROVE  /\ Entry(r, q) \in CacheEntry /\ Entry(r, q).expires = now + RequestTtl
         /\ Entry(r, q).bytes = 2 * InputSize(r) + ReplySize(r, q)
         /\ InputSize(r) \in Nat /\ ReplySize(r, q) \in Nat
  <1>1. InputSize(r) \in {1, 2} /\ ReplySize(r, q) \in {1, 2, 3}
    BY DEF InputSize, ReplySize, IdSize
  <1>2. now + RequestTtl \in Nat
    BY Numbers, Clock
  <1>3. InputSize(r) \in Nat /\ ReplySize(r, q) \in Nat /\ 2 * InputSize(r) + ReplySize(r, q) \in Nat
    BY <1>1
  <1>4. QED
    BY <1>2, <1>3 DEF Entry, CacheEntry

\* store() after lookup().
LEMMA StoreCache ==
  ASSUME TypeOK, NEW r \in Requests, NEW q \in Inputs, Store(r, q)
  PROVE  /\ DOMAIN cache' = Live \cup {r}
         /\ \A x \in Live : x # r => cache'[x] = cache[x]
         /\ cache'[r] = Entry(r, q) /\ cache'[r].expires = now + RequestTtl
         /\ DOMAIN cache' \subseteq Requests /\ cache' \in [DOMAIN cache' -> CacheEntry]
  <1> PICK e : e = Entry(r, q)
    OBVIOUS
  <1>1. Live \subseteq DOMAIN cache
    BY DEF Live
  <1>2. e \in CacheEntry /\ e.expires = now + RequestTtl
    BY EntryFacts
  <1>3. cache' = With([x \in Live |-> cache[x]], r, e)
    <2>1. DOMAIN cache \cap Live = Live
      BY <1>1
    <2>2. Restricted(cache, Live) = [x \in Live |-> cache[x]]
      BY <2>1 DEF Restricted
    <2>3. cache' = With(Restricted(cache, Live), r, e)
      BY DEF Store
    <2>4. QED
      BY <2>2, <2>3
  <1>4. cache' = [x \in Live \cup {r} |-> IF x = r THEN e ELSE cache[x]]
    BY <1>3 DEF With
  <1>5. \A x \in DOMAIN cache : cache[x] \in CacheEntry
    BY DEF TypeOK, CacheEntry
  <1>6. QED
    BY <1>1, <1>2, <1>4, <1>5 DEF TypeOK

\* What close() leaves of the cache, and what a reply stored after it adds.
LEMMA ClearedCache ==
  ASSUME TypeOK, ClearCache
  PROVE  /\ DOMAIN cache' = {} /\ cacheBytes' = 0
         /\ DOMAIN cache' \subseteq Requests /\ cache' \in [DOMAIN cache' -> CacheEntry]
  <1>1. cache' = <<>> /\ cacheBytes' = 0
    BY DEF ClearCache
  <1>2. DOMAIN cache' = {} /\ cache' \in [{} -> CacheEntry]
    BY <1>1, EmptyFunction
  <1>3. QED
    BY <1>1, <1>2

\* The same for a reply that is stored after the router has closed.
LEMMA LateEntry ==
  ASSUME TypeOK, NEW r \in Requests, NEW q \in Inputs, cache' = With(<<>>, r, Entry(r, q))
  PROVE  /\ DOMAIN cache' = {r} /\ cache'[r] = Entry(r, q)
         /\ DOMAIN cache' \subseteq Requests /\ cache' \in [DOMAIN cache' -> CacheEntry]
  <1> PICK e : e = Entry(r, q)
    OBVIOUS
  <1>1. DOMAIN <<>> \cup {r} = {r}
    BY EmptyFunction
  <1>2. cache' = [x \in {r} |-> IF x = r THEN e ELSE <<>>[x]]
    BY <1>1 DEF With
  <1>3. cache' = [x \in {r} |-> e]
    BY <1>2
  <1>4. e \in CacheEntry
    BY EntryFacts
  <1>5. QED
    BY <1>3, <1>4

\* What a request's operation does to the records of the session.
LEMMA OperationCases ==
  ASSUME TypeOK, NEW q \in Inputs, Admitted(q), Operation(q)
  PROVE  \/ /\ HandleRoom /\ nextId < MaxId /\ nextId' = nextId + 1
            /\ streams' = streams \cup {nextId + 1}
            /\ listeners' = listeners \cup {nextId + 1}
            /\ UNCHANGED <<publishers, granted>>
         \/ \E t \in Commands :
              /\ HandleRoom /\ nextId < MaxId /\ nextId' = nextId + 1
              /\ publishers' = With(publishers, nextId + 1,
                                    [topic |-> t, seq |-> -1, nextAt |-> 0])
              /\ granted' = IF t \in Guarded THEN granted \cup {nextId + 1} ELSE granted
              /\ UNCHANGED <<streams, listeners>>
         \/ \E i \in streams : removeSubscription(i) /\ nextId' = nextId
         \/ \E h \in DOMAIN publishers : Unadvertise(h) /\ nextId' = nextId
         \/ UNCHANGED resourceVars
  <1>1. CASE q.op = "subscribe" /\ Subscribe(q.arg)
    <2>1. HandleRoom /\ nextId < MaxId /\ nextId' = nextId + 1
      BY <1>1 DEF Admitted, Operation, NextId
    <2>2. QED
      BY <1>1, <2>1 DEF Subscribe
  <1>2. CASE q.op = "advertise" /\ Advertise(q.arg)
    <2>1. q.arg \in Commands
      BY <1>2 DEF Inputs
    <2>2. HandleRoom /\ nextId < MaxId /\ nextId' = nextId + 1
      BY <1>2 DEF Admitted, Operation, NextId
    <2>3. QED
      BY <1>2, <2>1, <2>2 DEF Advertise
  <1>3. CASE q.op = "unsubscribe" /\ removeSubscription(q.arg)
    <2>1. q.arg \in streams /\ nextId' = nextId
      BY <1>3 DEF Admitted, Operation, NextId
    <2>2. QED
      BY <1>3, <2>1
  <1>4. CASE q.op = "unadvertise" /\ Unadvertise(q.arg)
    <2>1. q.arg \in DOMAIN publishers /\ nextId' = nextId
      BY <1>4 DEF Admitted, Operation, NextId
    <2>2. QED
      BY <1>4, <2>1
  <1>5. CASE q.op \in {"arm", "video"} /\ UNCHANGED <<streams, publishers, listeners, granted>>
    BY <1>5 DEF Operation, NextId, resourceVars
  <1>6. QED
    BY <1>1, <1>2, <1>3, <1>4, <1>5 DEF Operation

-----------------------------------------------------------------------------

\* The types of the records that operations change.
ResourceTypes ==
  /\ nextId \in 0 .. MaxId
  /\ streams \subseteq Ids /\ listeners \subseteq Ids /\ granted \subseteq Ids
  /\ DOMAIN publishers \subseteq Ids
  /\ publishers \in [DOMAIN publishers -> Publisher]

\* A publisher that is added and one that is removed.
LEMMA AddPublisher ==
  ASSUME ResourceTypes, NEW t \in Commands, nextId < MaxId,
         publishers' = With(publishers, nextId + 1, [topic |-> t, seq |-> -1, nextAt |-> 0])
  PROVE  /\ nextId + 1 \in Ids /\ DOMAIN publishers' = DOMAIN publishers \cup {nextId + 1}
         /\ publishers'[nextId + 1] = [topic |-> t, seq |-> -1, nextAt |-> 0]
         /\ \A h \in DOMAIN publishers : h # nextId + 1 => publishers'[h] = publishers[h]
         /\ publishers' \in [DOMAIN publishers' -> Publisher]
  <1> PICK new : new = [topic |-> t, seq |-> -1, nextAt |-> 0]
    OBVIOUS
  <1>1. new \in Publisher
    BY Numbers DEF Publisher
  <1>2. nextId + 1 \in Ids
    BY Numbers DEF ResourceTypes, Ids
  <1>3. publishers' = [h \in DOMAIN publishers \cup {nextId + 1} |->
                         IF h = nextId + 1 THEN new ELSE publishers[h]]
    BY DEF With
  <1>4. \A h \in DOMAIN publishers : publishers[h] \in Publisher
    BY DEF ResourceTypes
  <1>5. QED
    BY <1>1, <1>2, <1>3, <1>4

\* The same for a removal.
LEMMA DropPublisher ==
  ASSUME ResourceTypes, NEW k \in DOMAIN publishers, Unadvertise(k)
  PROVE  /\ DOMAIN publishers' = DOMAIN publishers \ {k}
         /\ \A h \in DOMAIN publishers \ {k} : publishers'[h] = publishers[h]
         /\ publishers' \in [DOMAIN publishers' -> Publisher]
         /\ granted' = granted \ {k} /\ UNCHANGED <<streams, listeners>>
  <1>1. /\ DOMAIN publishers' = DOMAIN publishers \ {k}
        /\ \A h \in DOMAIN publishers \ {k} : publishers'[h] = publishers[h]
        /\ publishers' = [h \in DOMAIN publishers' |-> publishers'[h]]
    <2>1. publishers' = [h \in DOMAIN publishers \ {k} |-> publishers[h]]
      <3>1. DOMAIN publishers \cap (DOMAIN publishers \ {k}) = DOMAIN publishers \ {k}
        OBVIOUS
      <3>2. QED
        BY <3>1 DEF Unadvertise, Restricted
    <2>2. QED
      BY <2>1
  <1>2. publishers' \in [DOMAIN publishers' -> Publisher]
    BY <1>1 DEF ResourceTypes
  <1>3. QED
    BY <1>1, <1>2 DEF Unadvertise

\* The types split into those of the records and the rest.
LEMMA TypeParts ==
  TypeOK <=> /\ ResourceTypes
             /\ now \in 0 .. MaxTime /\ open \in BOOLEAN /\ welcomed \in BOOLEAN
             /\ rate \in [window : Nat, count : Nat]
             /\ DOMAIN cache \subseteq Requests /\ cache \in [DOMAIN cache -> CacheEntry]
             /\ ran \in Seq([id : Requests, at : Nat, fits : BOOLEAN])
             /\ toRos \in Seq([handle : Ids, seq : 0 .. MaxSeq, at : Nat])
  BY DEF TypeOK, ResourceTypes, Publisher, CacheEntry

\* Operations keep the types of the records.
LEMMA OperationTypes ==
  ASSUME TypeOK, NEW q \in Inputs, Admitted(q), Operation(q)
  PROVE  ResourceTypes'
  <1>1. ResourceTypes
    BY TypeParts
  <1>2. CASE /\ HandleRoom /\ nextId < MaxId /\ nextId' = nextId + 1
             /\ streams' = streams \cup {nextId + 1}
             /\ listeners' = listeners \cup {nextId + 1}
             /\ UNCHANGED <<publishers, granted>>
    BY <1>1, <1>2, Numbers DEF ResourceTypes, Ids
  <1>3. ASSUME NEW t \in Commands, nextId < MaxId, nextId' = nextId + 1,
               publishers' = With(publishers, nextId + 1, [topic |-> t, seq |-> -1, nextAt |-> 0]),
               granted' = IF t \in Guarded THEN granted \cup {nextId + 1} ELSE granted,
               UNCHANGED <<streams, listeners>>
        PROVE  ResourceTypes'
    <2>1. /\ nextId + 1 \in Ids /\ DOMAIN publishers' = DOMAIN publishers \cup {nextId + 1}
          /\ publishers' \in [DOMAIN publishers' -> Publisher]
      BY <1>1, <1>3, AddPublisher
    <2>2. QED
      BY <1>1, <1>3, <2>1, Numbers DEF ResourceTypes, Ids
  <1>4. ASSUME NEW i \in streams, removeSubscription(i), nextId' = nextId PROVE ResourceTypes'
    BY <1>1, <1>4 DEF removeSubscription, ResourceTypes
  <1>5. ASSUME NEW k \in DOMAIN publishers, Unadvertise(k), nextId' = nextId PROVE ResourceTypes'
    BY <1>1, <1>5, DropPublisher DEF ResourceTypes
  <1>6. CASE UNCHANGED resourceVars
    BY <1>1, <1>6 DEF resourceVars, ResourceTypes
  <1>7. QED
    BY <1>2, <1>3, <1>4, <1>5, <1>6, OperationCases

\* controlRate() counts.
LEMMA CountedTypes ==
  ASSUME TypeOK, NEW refused \in BOOLEAN, Counted(refused)
  PROVE  rate' \in [window : Nat, count : Nat]
  <1>1. Window \in Nat
    <2>1. now \in Nat /\ RateWindow \in Nat /\ RateWindow > 0
      BY Numbers DEF TypeOK
    <2>2. now \div RateWindow \in Nat
      BY <2>1
    <2>3. QED
      BY <2>2 DEF Window
  <1>2. QED
    BY <1>1 DEF Counted, TypeOK

\* Identifiers stay within their bound when an admitted operation issues one.
LEMMA NextIdType ==
  ASSUME TypeOK, NEW q \in Inputs, Admitted(q)
  PROVE  NextId(q) \in 0 .. MaxId /\ NextId(q) >= nextId
  <1>1. q.op \in {"subscribe", "advertise"} => nextId < MaxId
    BY DEF Admitted
  <1>2. QED
    BY <1>1, Clock, Numbers DEF NextId

\* A closed router keeps nothing but the count of its identifiers.
LEMMA ShutTypes ==
  ASSUME Shut, nextId' \in 0 .. MaxId
  PROVE  ResourceTypes' /\ open' \in BOOLEAN
  <1>1. publishers' = <<>> /\ streams' = {} /\ listeners' = {} /\ granted' = {} /\ open' = FALSE
    BY DEF Shut
  <1>2. DOMAIN publishers' = {} /\ publishers' \in [{} -> Publisher]
    BY <1>1, EmptyFunction
  <1>3. QED
    BY <1>1, <1>2 DEF ResourceTypes

\* A request that runs is counted and entered in the history.
LEMMA RunsTypes ==
  ASSUME TypeOK, NEW r \in Requests, NEW q \in Inputs, Runs(r, q)
  PROVE  /\ rate' \in [window : Nat, count : Nat]
         /\ ran' \in Seq([id : Requests, at : Nat, fits : BOOLEAN])
         /\ [id |-> r, at |-> now, fits |-> Fits(r, q)] \in [id : Requests, at : Nat, fits : BOOLEAN]
  <1>1. Fits(r, q) \in BOOLEAN
    BY DEF Fits
  <1>2. [id |-> r, at |-> now, fits |-> Fits(r, q)] \in [id : Requests, at : Nat, fits : BOOLEAN]
    BY <1>1, Clock
  <1>3. Counted(FALSE) /\ ran' = Append(ran, [id |-> r, at |-> now, fits |-> Fits(r, q)])
    BY DEF Runs
  <1>4. ran \in Seq([id : Requests, at : Nat, fits : BOOLEAN])
    BY DEF TypeOK
  <1>5. ran' \in Seq([id : Requests, at : Nat, fits : BOOLEAN])
    BY <1>2, <1>3, <1>4, AppendProperties
  <1>6. QED
    BY <1>2, <1>3, <1>5, CountedTypes

\* Every step keeps the types.
LEMMA TypeStep == TypeOK /\ [Next]_controlVars => TypeOK'
  <1> SUFFICES ASSUME TypeOK, [Next]_controlVars PROVE TypeOK'
    OBVIOUS
  <1>1. CASE Hello
    BY <1>1, CountedTypes DEF Hello, TypeOK, resourceVars, historyVars
  <1>2. ASSUME Shut, ClearCache, nextId' \in 0 .. MaxId, UNCHANGED <<now, welcomed>>,
               rate' \in [window : Nat, count : Nat],
               ran' \in Seq([id : Requests, at : Nat, fits : BOOLEAN]),
               toRos' \in Seq([handle : Ids, seq : 0 .. MaxSeq, at : Nat])
        PROVE  TypeOK'
    BY <1>2, ShutTypes, ClearedCache, TypeParts
       DEF TypeOK, ResourceTypes, CacheEntry, Publisher
  <1>3. ASSUME NEW full \in BOOLEAN, Refuse(full) PROVE TypeOK'
    <2>1. rate' \in [window : Nat, count : Nat] /\ UNCHANGED <<now, welcomed, ran, toRos>>
      BY <1>3, CountedTypes DEF Refuse, historyVars
    <2>2. CASE full
      BY <1>2, <1>3, <2>1, <2>2 DEF Refuse, TypeOK
    <2>3. CASE ~full
      BY <1>3, <2>1, <2>3 DEF Refuse, TypeOK, resourceVars
    <2>4. QED
      BY <2>2, <2>3
  <1>4. ASSUME NEW full \in BOOLEAN, Answer(full) PROVE TypeOK'
    <2>1. rate' \in [window : Nat, count : Nat] /\ UNCHANGED <<now, welcomed, ran, toRos>>
      BY <1>4, CountedTypes DEF Answer, historyVars
    <2>2. CASE full
      BY <1>2, <1>4, <2>1, <2>2 DEF Answer, TypeOK
    <2>3. CASE ~full
      <3>1. DOMAIN cache' \subseteq Requests /\ cache' \in [DOMAIN cache' -> CacheEntry]
        BY <1>4, <2>3, PruneCache DEF Answer
      <3>2. QED
        BY <1>4, <2>1, <2>3, <3>1 DEF Answer, TypeOK, CacheEntry, resourceVars
    <2>4. QED
      BY <2>2, <2>3
  <1>5. ASSUME NEW full \in BOOLEAN, NEW r \in Requests, NEW q \in Inputs, Execute(r, q, full)
        PROVE  TypeOK'
    <2>1. Runs(r, q) /\ Admitted(q) /\ UNCHANGED <<now, welcomed, toRos>>
      BY <1>5 DEF Execute, Runs
    <2>2. /\ rate' \in [window : Nat, count : Nat]
          /\ ran' \in Seq([id : Requests, at : Nat, fits : BOOLEAN])
      BY <2>1, RunsTypes
    <2>3. CASE full
      BY <1>2, <1>5, <2>1, <2>2, <2>3, NextIdType DEF Execute, TypeOK
    <2>4. CASE ~full
      <3>1. DOMAIN cache' \subseteq Requests /\ cache' \in [DOMAIN cache' -> CacheEntry]
        BY <1>5, <2>4, PruneCache, StoreCache DEF Execute
      <3>2. ResourceTypes' /\ UNCHANGED open
        BY <1>5, <2>1, <2>4, OperationTypes DEF Execute
      <3>3. QED
        BY <2>1, <2>2, <3>1, <3>2, TypeParts DEF TypeOK, ResourceTypes, CacheEntry, Publisher
    <2>5. QED
      BY <2>3, <2>4
  <1>6. ASSUME NEW r \in Requests, NEW q \in Inputs, ExecuteClosed(r, q) PROVE TypeOK'
    <2>1. Runs(r, q) /\ Shut /\ UNCHANGED <<nextId, now, welcomed, toRos>>
      BY <1>6 DEF ExecuteClosed, Runs
    <2>2. /\ rate' \in [window : Nat, count : Nat]
          /\ ran' \in Seq([id : Requests, at : Nat, fits : BOOLEAN])
      BY <2>1, RunsTypes
    <2>3. DOMAIN cache' \subseteq Requests /\ cache' \in [DOMAIN cache' -> CacheEntry]
      BY <1>6, ClearedCache, LateEntry DEF ExecuteClosed
    <2>4. ResourceTypes' /\ open' \in BOOLEAN
      BY <2>1, ShutTypes DEF TypeOK
    <2>5. QED
      BY <2>1, <2>2, <2>3, <2>4 DEF TypeOK, ResourceTypes, CacheEntry, Publisher
  <1>7. ASSUME NEW full \in BOOLEAN, NEW h \in DOMAIN publishers, NEW seq \in 0 .. MaxSeq,
               NEW called \in BOOLEAN, Publish(h, seq, called, full)
        PROVE  TypeOK'
    <2>1. h \in Ids /\ now \in Nat /\ publishers[h] \in Publisher
      BY Numbers DEF TypeOK, Publisher
    <2>2. toRos' \in Seq([handle : Ids, seq : 0 .. MaxSeq, at : Nat])
      <3>1. [handle |-> h, seq |-> seq, at |-> now] \in [handle : Ids, seq : 0 .. MaxSeq, at : Nat]
        BY <2>1
      <3>2. QED
        BY <1>7, <3>1, AppendProperties DEF Publish, TypeOK
    <2>3. CASE full
      BY <1>2, <1>7, <2>2, <2>3 DEF Publish, TypeOK
    <2>4. CASE ~full
      <3>1. /\ publishers' = [publishers EXCEPT ![h].seq = seq, ![h].nextAt = now + Interval]
            /\ DOMAIN publishers' = DOMAIN publishers
        BY <1>7, <2>4 DEF Publish, Accepted
      <3>2. publishers' \in [DOMAIN publishers' -> Publisher]
        <4>1. /\ publishers'[h] = [publishers[h] EXCEPT !.seq = seq, !.nextAt = now + Interval]
              /\ \A k \in DOMAIN publishers : k # h => publishers'[k] = publishers[k]
          BY <3>1
        <4>2. now + Interval \in Nat /\ seq \in -1 .. MaxSeq
          BY <2>1, Numbers
        <4>3. publishers'[h] \in Publisher
          BY <2>1, <4>1, <4>2 DEF Publisher
        <4>4. \A k \in DOMAIN publishers : publishers'[k] \in Publisher
          BY <4>1, <4>3 DEF TypeOK, Publisher
        <4>5. publishers' = [k \in DOMAIN publishers |-> publishers'[k]]
          BY <3>1
        <4>6. QED
          BY <3>1, <4>4, <4>5
      <3>3. QED
        BY <1>7, <2>2, <2>4, <3>1, <3>2 DEF Publish, TypeOK, Publisher
    <2>5. QED
      BY <2>3, <2>4
  <1>8. ASSUME NEW full \in BOOLEAN, NEW i \in streams, StreamEnds(i, full) PROVE TypeOK'
    <2>1. UNCHANGED <<now, welcomed, rate, nextId, ran, toRos>>
      BY <1>8 DEF StreamEnds, historyVars
    <2>2. CASE full
      BY <1>2, <1>8, <2>1, <2>2 DEF StreamEnds, TypeOK
    <2>3. CASE ~full
      BY <1>8, <2>1, <2>3 DEF StreamEnds, removeSubscription, TypeOK
    <2>4. QED
      BY <2>2, <2>3
  <1>9. CASE Close
    BY <1>2, <1>9 DEF Close, TypeOK, historyVars
  <1>10. CASE Tick
    <2>1. now' \in 0 .. MaxTime
      BY <1>10, Numbers, Clock DEF Tick
    <2>2. QED
      BY <1>10, <2>1 DEF Tick, TypeOK, resourceVars, historyVars
  <1>11. CASE UNCHANGED controlVars
    BY <1>11 DEF controlVars, TypeOK
  <1>12. QED
    BY <1>1, <1>3, <1>4, <1>5, <1>6, <1>7, <1>8, <1>9, <1>10, <1>11 DEF Next

\* A new session has its types.
LEMMA TypeInit == Init => TypeOK
  <1> SUFFICES ASSUME Init PROVE TypeOK
    OBVIOUS
  <1>1. now \in 0 .. MaxTime /\ nextId \in 0 .. MaxId /\ rate \in [window : Nat, count : Nat]
    BY Numbers DEF Init
  <1>2. /\ DOMAIN cache = {} /\ cache \in [DOMAIN cache -> CacheEntry]
        /\ DOMAIN publishers = {} /\ publishers \in [DOMAIN publishers -> Publisher]
    BY EmptyFunction DEF Init
  <1>3. /\ ran \in Seq([id : Requests, at : Nat, fits : BOOLEAN])
        /\ toRos \in Seq([handle : Ids, seq : 0 .. MaxSeq, at : Nat])
    BY DEF Init
  <1>4. QED
    BY <1>1, <1>2, <1>3 DEF Init, TypeOK, CacheEntry, Publisher

\* The records of a session always have their types.
THEOREM TypeCorrect == Spec => []TypeOK
  BY TypeInit, TypeStep, PTL DEF Spec

-----------------------------------------------------------------------------

\* Appending to a history: its length, its old entries and the new one.
LEMMA AppendedEntry ==
  ASSUME NEW S, NEW q \in Seq(S), NEW x \in S
  PROVE  /\ Len(q) \in Nat /\ DOMAIN q = 1 .. Len(q)
         /\ DOMAIN Append(q, x) = 1 .. Len(q) + 1
         /\ \A i \in 1 .. Len(q) : Append(q, x)[i] = q[i]
         /\ Append(q, x)[Len(q) + 1] = x
  OBVIOUS

\* An entry of a history is one of those it is made of.
LEMMA EntryOf ==
  ASSUME NEW S, NEW q \in Seq(S), NEW i \in DOMAIN q
  PROVE  q[i] \in S
  OBVIOUS

\* An entry of the history of operations.
LEMMA RanEntry ==
  ASSUME TypeOK, NEW i \in DOMAIN ran
  PROVE  ran[i].id \in Requests /\ ran[i].at \in Nat /\ ran[i].fits \in BOOLEAN
  <1>1. ran \in Seq([id : Requests, at : Nat, fits : BOOLEAN])
    BY DEF TypeOK
  <1>2. ran[i] \in [id : Requests, at : Nat, fits : BOOLEAN]
    BY <1>1, EntryOf
  <1>3. QED
    BY <1>2

\* Expiry times are numbers.
LEMMA Expiry ==
  ASSUME TypeOK, NEW r \in DOMAIN cache
  PROVE  cache[r].expires \in Nat
  <1>1. cache[r] \in CacheEntry
    BY DEF TypeOK, CacheEntry
  <1>2. QED
    BY <1>1 DEF CacheEntry

\* The entries that a lookup keeps are enough for RanInv, whatever entry r is added.
LEMMA RanKept ==
  ASSUME TypeOK, RanInv, UNCHANGED <<now, open, ran>>,
         \A x \in Live : x \in DOMAIN cache' /\ cache'[x] = cache[x]
  PROVE  RanInv'
  <1>1. ASSUME NEW i \in DOMAIN ran, open, ran[i].fits, now < ran[i].at + RequestTtl
        PROVE  /\ ran[i].id \in DOMAIN cache'
               /\ ran[i].at + RequestTtl <= cache'[ran[i].id].expires
    <2>1. /\ ran[i].id \in DOMAIN cache
          /\ ran[i].at + RequestTtl <= cache[ran[i].id].expires
      BY <1>1 DEF RanInv
    <2>2. ran[i].at \in Nat /\ now \in Nat /\ cache[ran[i].id].expires \in Nat
      BY <1>1, <2>1, RanEntry, Expiry, Clock
    <2>3. ran[i].id \in Live
      BY <1>1, <2>1, <2>2, Numbers DEF Live
    <2>4. QED
      BY <2>1, <2>3
  <1>2. QED
    BY <1>1 DEF RanInv

\* The history after a request has run.
LEMMA RanAppended ==
  ASSUME TypeOK, NEW r \in Requests, NEW q \in Inputs, Runs(r, q)
  PROVE  /\ Len(ran) \in Nat /\ DOMAIN ran = 1 .. Len(ran) /\ DOMAIN ran' = 1 .. Len(ran) + 1
         /\ \A i \in 1 .. Len(ran) : ran'[i] = ran[i]
         /\ ran'[Len(ran) + 1] = [id |-> r, at |-> now, fits |-> Fits(r, q)]
  <1>1. ran' = Append(ran, [id |-> r, at |-> now, fits |-> Fits(r, q)])
    BY DEF Runs
  <1>2. [id |-> r, at |-> now, fits |-> Fits(r, q)] \in [id : Requests, at : Nat, fits : BOOLEAN]
    BY RunsTypes
  <1>3. ran \in Seq([id : Requests, at : Nat, fits : BOOLEAN])
    BY DEF TypeOK
  <1>4. QED
    BY <1>1, <1>2, <1>3, AppendedEntry

\* A request runs only when no reply of its own is alive, and its reply is stored if it
\* fits a message.
LEMMA RanExecute ==
  ASSUME TypeOK, RanInv, NEW r \in Requests, NEW q \in Inputs, Execute(r, q, FALSE)
  PROVE  RanInv'
  <1>1. Runs(r, q) /\ r \notin Live /\ UNCHANGED <<now, open>>
    BY DEF Execute, Runs
  <1>2. \A x \in Live : x \in DOMAIN cache' /\ cache'[x] = cache[x]
    BY <1>1, StoreCache, PruneCache DEF Execute
  <1>3. Fits(r, q) => r \in DOMAIN cache' /\ cache'[r].expires = now + RequestTtl
    BY StoreCache DEF Execute
  <1>4. /\ Len(ran) \in Nat /\ DOMAIN ran = 1 .. Len(ran) /\ DOMAIN ran' = 1 .. Len(ran) + 1
        /\ \A i \in 1 .. Len(ran) : ran'[i] = ran[i]
        /\ ran'[Len(ran) + 1] = [id |-> r, at |-> now, fits |-> Fits(r, q)]
    BY <1>1, RanAppended
  <1>5. ASSUME NEW i \in DOMAIN ran', open', ran'[i].fits, now' < ran'[i].at + RequestTtl
        PROVE  /\ ran'[i].id \in DOMAIN cache'
               /\ ran'[i].at + RequestTtl <= cache'[ran'[i].id].expires
    <2>1. CASE i = Len(ran) + 1
      <3>1. ran'[i].id = r /\ ran'[i].at = now /\ ran'[i].fits = Fits(r, q)
        BY <1>4, <2>1
      <3>2. r \in DOMAIN cache' /\ cache'[r].expires = now + RequestTtl
        BY <1>3, <1>5, <3>1
      <3>3. QED
        BY <3>1, <3>2, Clock, Numbers
    <2>2. CASE i # Len(ran) + 1
      <3>1. i \in DOMAIN ran /\ ran'[i] = ran[i]
        BY <1>4, <1>5, <2>2
      <3>2. /\ ran[i].id \in DOMAIN cache
            /\ ran[i].at + RequestTtl <= cache[ran[i].id].expires
        BY <1>1, <1>5, <3>1 DEF RanInv
      <3>3. ran[i].at \in Nat /\ now \in Nat /\ cache[ran[i].id].expires \in Nat
        BY <3>1, <3>2, RanEntry, Expiry, Clock
      <3>4. ran[i].id \in Live
        BY <1>1, <1>5, <3>1, <3>2, <3>3, Numbers DEF Live
      <3>5. QED
        BY <1>2, <3>1, <3>2, <3>4
    <2>3. QED
      BY <2>1, <2>2
  <1>6. \A i \in DOMAIN ran' : ran'[i].at <= now'
    BY <1>1, <1>4, Clock DEF RanInv
  <1>7. QED
    BY <1>5, <1>6 DEF RanInv

\* A request during which the router closes is in the history, and in nobody's way.
LEMMA RanClosed ==
  ASSUME TypeOK, RanInv, NEW r \in Requests, NEW q \in Inputs, Runs(r, q), Shut
  PROVE  RanInv'
  <1>1. open' = FALSE /\ now' = now
    BY DEF Runs, Shut
  <1>2. /\ Len(ran) \in Nat /\ DOMAIN ran = 1 .. Len(ran) /\ DOMAIN ran' = 1 .. Len(ran) + 1
        /\ \A i \in 1 .. Len(ran) : ran'[i] = ran[i]
        /\ ran'[Len(ran) + 1] = [id |-> r, at |-> now, fits |-> Fits(r, q)]
    BY RanAppended
  <1>3. \A i \in DOMAIN ran' : ran'[i].at <= now'
    BY <1>1, <1>2, Clock DEF RanInv
  <1>4. QED
    BY <1>1, <1>3 DEF RanInv

\* Every step keeps RanInv.
LEMMA RanStep == TypeOK /\ RanInv /\ [Next]_controlVars => RanInv'
  <1> SUFFICES ASSUME TypeOK, RanInv, [Next]_controlVars PROVE RanInv'
    OBVIOUS
  <1>1. CASE UNCHANGED <<now, open, ran, cache>>
    BY <1>1 DEF RanInv
  <1>2. CASE Shut /\ UNCHANGED <<now, ran>>
    BY <1>2 DEF Shut, RanInv
  <1>3. CASE Prune /\ UNCHANGED <<now, open, ran>>
    BY <1>3, PruneCache, RanKept
  <1>4. ASSUME NEW full \in BOOLEAN, NEW r \in Requests, NEW q \in Inputs, Execute(r, q, full)
        PROVE  RanInv'
    <2>1. CASE full
      BY <1>4, <2>1, RanClosed DEF Execute
    <2>2. CASE ~full
      <3>1. full = FALSE
        BY <2>2
      <3>2. QED
        BY <1>4, <3>1, RanExecute
    <2>3. QED
      BY <2>1, <2>2
  <1>5. ASSUME NEW r \in Requests, NEW q \in Inputs, ExecuteClosed(r, q) PROVE RanInv'
    BY <1>5, RanClosed DEF ExecuteClosed
  <1>6. CASE Tick
    <2>1. now' = now + 1 /\ UNCHANGED <<open, ran, cache>> /\ now \in Nat
      BY <1>6, Clock DEF Tick, historyVars
    <2>2. \A i \in DOMAIN ran : ran[i].at \in Nat
      BY RanEntry
    <2>3. QED
      BY <2>1, <2>2, Numbers DEF RanInv
  <1>7. QED
    BY <1>1, <1>2, <1>3, <1>4, <1>5, <1>6
       DEF Next, Hello, Refuse, Answer, Publish, StreamEnds, Close, resourceVars, historyVars,
           controlVars

\* A request that runs again runs after the reply of the last time has expired.
LEMMA RunsAgain ==
  ASSUME TypeOK, RanInv, AnsweredRunsOnce, NEW r \in Requests, NEW q \in Inputs, Runs(r, q)
  PROVE  AnsweredRunsOnce'
  <1>1. open /\ r \notin Live
    BY DEF Runs
  <1>2. /\ Len(ran) \in Nat /\ DOMAIN ran = 1 .. Len(ran) /\ DOMAIN ran' = 1 .. Len(ran) + 1
        /\ \A i \in 1 .. Len(ran) : ran'[i] = ran[i]
        /\ ran'[Len(ran) + 1] = [id |-> r, at |-> now, fits |-> Fits(r, q)]
    BY RanAppended
  <1>3. ASSUME NEW i \in DOMAIN ran, ran[i].id = r, ran[i].fits
        PROVE  now >= ran[i].at + RequestTtl
    <2>1. ran[i].at \in Nat /\ now \in Nat
      BY RanEntry, Clock
    <2>2. ASSUME now < ran[i].at + RequestTtl PROVE FALSE
      <3>1. r \in DOMAIN cache /\ ran[i].at + RequestTtl <= cache[r].expires
        BY <1>1, <1>3, <2>2 DEF RanInv
      <3>2. cache[r].expires \in Nat
        BY <3>1, Expiry
      <3>3. QED
        BY <1>1, <2>1, <2>2, <3>1, <3>2, Numbers DEF Live
    <2>3. QED
      BY <2>1, <2>2, Numbers
  <1>4. ASSUME NEW i \in DOMAIN ran', NEW j \in DOMAIN ran', i < j, ran'[i].id = ran'[j].id,
               ran'[i].fits
        PROVE  ran'[j].at >= ran'[i].at + RequestTtl
    <2>1. i \in DOMAIN ran /\ ran'[i] = ran[i]
      BY <1>2, <1>4
    <2>2. CASE j = Len(ran) + 1
      <3>1. ran'[j].id = r /\ ran'[j].at = now
        BY <1>2, <2>2
      <3>2. QED
        BY <1>3, <1>4, <2>1, <3>1
    <2>3. CASE j # Len(ran) + 1
      <3>1. j \in DOMAIN ran /\ ran'[j] = ran[j]
        BY <1>2, <1>4, <2>3
      <3>2. QED
        BY <1>4, <2>1, <3>1 DEF AnsweredRunsOnce
    <2>4. QED
      BY <2>2, <2>3
  <1>5. QED
    BY <1>4 DEF AnsweredRunsOnce

\* Every step keeps AnsweredRunsOnce.
LEMMA RunsOnceStep ==
  TypeOK /\ RanInv /\ AnsweredRunsOnce /\ [Next]_controlVars => AnsweredRunsOnce'
  <1> SUFFICES ASSUME TypeOK, RanInv, AnsweredRunsOnce, [Next]_controlVars
               PROVE  AnsweredRunsOnce'
    OBVIOUS
  <1>1. CASE UNCHANGED ran
    BY <1>1 DEF AnsweredRunsOnce
  <1>2. ASSUME NEW full \in BOOLEAN, NEW r \in Requests, NEW q \in Inputs, Execute(r, q, full)
        PROVE  AnsweredRunsOnce'
    BY <1>2, RunsAgain DEF Execute
  <1>3. ASSUME NEW r \in Requests, NEW q \in Inputs, ExecuteClosed(r, q) PROVE AnsweredRunsOnce'
    BY <1>3, RunsAgain DEF ExecuteClosed
  <1>4. QED
    BY <1>1, <1>2, <1>3 DEF Next, Hello, Refuse, Answer, Publish, StreamEnds, Close, Tick,
                            historyVars, controlVars

\* Whatever the size of a message and of the replies, a request whose reply fitted a
\* message runs once within the lifetime of that reply, however often and with whatever
\* body its identifier is sent, and whatever other requests were refused meanwhile.
THEOREM AnsweredRequestsRunOnce == Spec => []AnsweredRunsOnce
  <1>1. Init => TypeOK /\ RanInv /\ AnsweredRunsOnce
    BY TypeInit DEF Init, RanInv, AnsweredRunsOnce
  <1>2. TypeOK /\ RanInv /\ AnsweredRunsOnce /\ [Next]_controlVars
          => (TypeOK /\ RanInv /\ AnsweredRunsOnce)'
    BY TypeStep, RanStep, RunsOnceStep
  <1>3. QED
    BY <1>1, <1>2, PTL DEF Spec

-----------------------------------------------------------------------------

\* Streams and publishers are finite sets of identifiers.
LEMMA FiniteRecords ==
  ASSUME TypeOK
  PROVE  /\ IsFiniteSet(streams) /\ IsFiniteSet(DOMAIN publishers)
         /\ Cardinality(streams) \in Nat /\ Cardinality(DOMAIN publishers) \in Nat
  <1>1. IsFiniteSet(Ids)
    BY FS_Interval, Numbers DEF Ids
  <1>2. streams \in SUBSET Ids /\ DOMAIN publishers \in SUBSET Ids
    BY DEF TypeOK
  <1>3. IsFiniteSet(streams) /\ IsFiniteSet(DOMAIN publishers)
    BY <1>1, <1>2, FS_Subset
  <1>4. QED
    BY <1>3, FS_CardinalityType

\* The part of RecordsAgree about the records themselves, with the freshness it needs.
AgreeInv ==
  /\ IssuedInv
  /\ listeners = streams
  /\ granted = {h \in DOMAIN publishers : publishers[h].topic \in Guarded}
  /\ Cardinality(streams) + Cardinality(DOMAIN publishers) <= MaxHandles

\* The operations keep the records of router, guard and adapter in step.
LEMMA AgreeOperation ==
  ASSUME TypeOK, AgreeInv, NEW q \in Inputs, Admitted(q), Operation(q)
  PROVE  AgreeInv'
  <1>1. /\ ResourceTypes /\ nextId \in Nat /\ nextId + 1 \in Nat
        /\ nextId + 1 \notin streams /\ nextId + 1 \notin DOMAIN publishers
    BY TypeParts, Clock DEF AgreeInv, IssuedInv
  <1>2. CASE /\ HandleRoom /\ nextId < MaxId /\ nextId' = nextId + 1
             /\ streams' = streams \cup {nextId + 1}
             /\ listeners' = listeners \cup {nextId + 1}
             /\ UNCHANGED <<publishers, granted>>
    <2>1. Cardinality(streams') = Cardinality(streams) + 1
      BY <1>1, <1>2, FiniteRecords, FS_AddElement
    <2>2. Cardinality(streams') + Cardinality(DOMAIN publishers') <= MaxHandles
      BY <1>2, <2>1, FiniteRecords, Numbers DEF HandleRoom
    <2>3. IssuedInv'
      BY <1>1, <1>2 DEF AgreeInv, IssuedInv
    <2>4. QED
      BY <1>2, <2>2, <2>3 DEF AgreeInv
  <1>3. ASSUME NEW t \in Commands, HandleRoom, nextId < MaxId, nextId' = nextId + 1,
               publishers' = With(publishers, nextId + 1, [topic |-> t, seq |-> -1, nextAt |-> 0]),
               granted' = IF t \in Guarded THEN granted \cup {nextId + 1} ELSE granted,
               UNCHANGED <<streams, listeners>>
        PROVE  AgreeInv'
    <2>1. /\ DOMAIN publishers' = DOMAIN publishers \cup {nextId + 1}
          /\ publishers'[nextId + 1] = [topic |-> t, seq |-> -1, nextAt |-> 0]
          /\ \A h \in DOMAIN publishers : h # nextId + 1 => publishers'[h] = publishers[h]
      BY <1>1, <1>3, AddPublisher
    <2>2. Cardinality(DOMAIN publishers') = Cardinality(DOMAIN publishers) + 1
      BY <1>1, <2>1, FiniteRecords, FS_AddElement
    <2>3. Cardinality(streams') + Cardinality(DOMAIN publishers') <= MaxHandles
      BY <1>3, <2>2, FiniteRecords, Numbers DEF HandleRoom
    <2>4. IssuedInv'
      BY <1>1, <1>3, <2>1 DEF AgreeInv, IssuedInv
    <2>5. publishers'[nextId + 1].topic = t
      BY <2>1
    <2>6. granted' = {h \in DOMAIN publishers' : publishers'[h].topic \in Guarded}
      BY <1>1, <1>3, <2>1, <2>5 DEF AgreeInv
    <2>7. QED
      BY <1>3, <2>3, <2>4, <2>6 DEF AgreeInv
  <1>4. ASSUME NEW i \in streams, removeSubscription(i), nextId' = nextId PROVE AgreeInv'
    <2>1. /\ streams' = streams \ {i} /\ listeners' = listeners \ {i}
          /\ UNCHANGED <<nextId, publishers, granted>>
      BY <1>4 DEF removeSubscription
    <2>2. Cardinality(streams') = Cardinality(streams) - 1
      BY <2>1, FiniteRecords, FS_RemoveElement
    <2>3. Cardinality(streams') + Cardinality(DOMAIN publishers') <= MaxHandles
      BY <2>1, <2>2, FiniteRecords, Numbers DEF AgreeInv
    <2>4. QED
      BY <2>1, <2>3 DEF AgreeInv, IssuedInv
  <1>5. ASSUME NEW k \in DOMAIN publishers, Unadvertise(k), nextId' = nextId PROVE AgreeInv'
    <2>1. /\ DOMAIN publishers' = DOMAIN publishers \ {k}
          /\ \A h \in DOMAIN publishers \ {k} : publishers'[h] = publishers[h]
          /\ granted' = granted \ {k} /\ UNCHANGED <<nextId, streams, listeners>>
      BY <1>1, <1>5, DropPublisher
    <2>2. Cardinality(DOMAIN publishers') = Cardinality(DOMAIN publishers) - 1
      BY <2>1, FiniteRecords, FS_RemoveElement
    <2>3. Cardinality(streams') + Cardinality(DOMAIN publishers') <= MaxHandles
      BY <2>1, <2>2, FiniteRecords, Numbers DEF AgreeInv
    <2>4. QED
      BY <2>1, <2>3 DEF AgreeInv, IssuedInv
  <1>6. CASE UNCHANGED resourceVars
    BY <1>6 DEF resourceVars, AgreeInv, IssuedInv
  <1>7. QED
    BY <1>2, <1>3, <1>4, <1>5, <1>6, OperationCases

\* A publication that does not close the router changes its publisher's number and time
\* only.
LEMMA PublishRecord ==
  ASSUME TypeOK, NEW h \in DOMAIN publishers, NEW seq \in 0 .. MaxSeq, NEW called \in BOOLEAN,
         Publish(h, seq, called, FALSE)
  PROVE  /\ DOMAIN publishers' = DOMAIN publishers
         /\ \A k \in DOMAIN publishers : publishers'[k].topic = publishers[k].topic
         /\ \A k \in DOMAIN publishers : k # h => publishers'[k] = publishers[k]
         /\ publishers'[h].seq = seq /\ publishers'[h].nextAt = now + Interval
  <1>1. publishers' = [publishers EXCEPT ![h].seq = seq, ![h].nextAt = now + Interval]
    BY DEF Publish, Accepted
  <1>2. \A k \in DOMAIN publishers : publishers[k] \in Publisher
    BY DEF TypeOK, Publisher
  <1>3. /\ DOMAIN publishers' = DOMAIN publishers
        /\ publishers'[h] = [publishers[h] EXCEPT !.seq = seq, !.nextAt = now + Interval]
        /\ \A k \in DOMAIN publishers : k # h => publishers'[k] = publishers[k]
    BY <1>1
  <1>4. /\ publishers'[h].topic = publishers[h].topic /\ publishers'[h].seq = seq
        /\ publishers'[h].nextAt = now + Interval
    BY <1>2, <1>3 DEF Publisher
  <1>5. QED
    BY <1>3, <1>4

\* A closed router has nothing to disagree about.
LEMMA AgreeShut ==
  ASSUME Shut
  PROVE  AgreeInv' /\ RecordsAgree'
  <1>1. /\ granted' = {} /\ streams' = {} /\ listeners' = {} /\ DOMAIN publishers' = {}
    BY EmptyFunction DEF Shut
  <1>2. Cardinality(streams') + Cardinality(DOMAIN publishers') <= MaxHandles
    BY <1>1, FS_EmptySet, Numbers
  <1>3. QED
    BY <1>1, <1>2 DEF AgreeInv, IssuedInv, RecordsAgree

\* Every step keeps RecordsAgree.
LEMMA AgreeStep ==
  TypeOK /\ AgreeInv /\ RecordsAgree /\ [Next]_controlVars => AgreeInv' /\ RecordsAgree'
  <1> SUFFICES ASSUME TypeOK, AgreeInv, RecordsAgree, [Next]_controlVars
               PROVE  AgreeInv' /\ RecordsAgree'
    OBVIOUS
  <1>1. ASSUME AgreeInv', open' PROVE AgreeInv' /\ RecordsAgree'
    BY <1>1 DEF AgreeInv, RecordsAgree
  <1>2. CASE UNCHANGED <<resourceVars, open>>
    BY <1>2 DEF resourceVars, AgreeInv, IssuedInv, RecordsAgree
  <1>3. CASE Shut
    BY <1>3, AgreeShut
  <1>4. ASSUME NEW full \in BOOLEAN, NEW r \in Requests, NEW q \in Inputs, Execute(r, q, full)
        PROVE  AgreeInv' /\ RecordsAgree'
    <2>1. CASE full
      BY <1>3, <1>4, <2>1 DEF Execute
    <2>2. CASE ~full
      <3>1. Admitted(q) /\ Operation(q) /\ open'
        BY <1>4, <2>2 DEF Execute, Runs, TypeOK
      <3>2. QED
        BY <1>1, <3>1, AgreeOperation
    <2>3. QED
      BY <2>1, <2>2
  <1>5. ASSUME NEW full \in BOOLEAN, NEW h \in DOMAIN publishers, NEW seq \in 0 .. MaxSeq,
               NEW called \in BOOLEAN, Publish(h, seq, called, full)
        PROVE  AgreeInv' /\ RecordsAgree'
    <2>1. CASE full
      BY <1>3, <1>5, <2>1 DEF Publish
    <2>2. CASE ~full
      <3>1. UNCHANGED <<open, nextId, streams, listeners, granted>> /\ open
        BY <1>5, <2>2 DEF Publish, Publishable
      <3>2. full = FALSE
        BY <2>2
      <3>3. /\ DOMAIN publishers' = DOMAIN publishers
            /\ \A k \in DOMAIN publishers : publishers'[k].topic = publishers[k].topic
        BY <1>5, <3>2, PublishRecord
      <3>4. AgreeInv'
        BY <3>1, <3>3 DEF AgreeInv, IssuedInv
      <3>5. QED
        BY <1>1, <3>1, <3>4
    <2>3. QED
      BY <2>1, <2>2
  <1>6. ASSUME NEW full \in BOOLEAN, NEW i \in streams, StreamEnds(i, full)
        PROVE  AgreeInv' /\ RecordsAgree'
    <2>1. CASE full
      BY <1>3, <1>6, <2>1 DEF StreamEnds
    <2>2. CASE ~full
      <3>1. /\ [op |-> "unsubscribe", arg |-> i] \in Inputs
            /\ removeSubscription(i) /\ nextId' = nextId /\ open'
        BY <1>6, <2>2 DEF StreamEnds, Inputs, TypeOK
      <3>2. Admitted([op |-> "unsubscribe", arg |-> i]) /\ Operation([op |-> "unsubscribe", arg |-> i])
        BY <1>6, <3>1 DEF Admitted, Operation, NextId
      <3>3. QED
        BY <1>1, <3>1, <3>2, AgreeOperation
    <2>3. QED
      BY <2>1, <2>2
  <1>7. QED
    BY <1>2, <1>3, <1>4, <1>5, <1>6
       DEF Next, Hello, Refuse, Answer, ExecuteClosed, Close, Tick, controlVars, resourceVars

\* A new session has no records.
LEMMA AgreeInit == Init => AgreeInv /\ RecordsAgree
  <1> SUFFICES ASSUME Init PROVE AgreeInv /\ RecordsAgree
    OBVIOUS
  <1>1. DOMAIN publishers = {} /\ streams = {}
    BY EmptyFunction DEF Init
  <1>2. Cardinality(streams) + Cardinality(DOMAIN publishers) <= MaxHandles
    BY <1>1, FS_EmptySet, Numbers
  <1>3. QED
    BY <1>1, <1>2 DEF Init, AgreeInv, IssuedInv, RecordsAgree

\* Router, guard and ROS adapter agree on a session's streams and publishers at every
\* moment, within the limit they share; a closed router has nothing left anywhere.
THEOREM RecordsAlwaysAgree == Spec => []RecordsAgree
  BY TypeInit, TypeStep, AgreeInit, AgreeStep, PTL DEF Spec

-----------------------------------------------------------------------------

\* An entry of the history of publications.
LEMMA SentEntry ==
  ASSUME TypeOK, NEW i \in DOMAIN toRos
  PROVE  toRos[i].handle \in Ids /\ toRos[i].seq \in Nat /\ toRos[i].at \in Nat
  <1>1. toRos \in Seq([handle : Ids, seq : 0 .. MaxSeq, at : Nat])
    BY DEF TypeOK
  <1>2. toRos[i] \in [handle : Ids, seq : 0 .. MaxSeq, at : Nat]
    BY <1>1, EntryOf
  <1>3. QED
    BY <1>2, Numbers

\* A publisher's record as numbers.
LEMMA PublisherNumbers ==
  ASSUME TypeOK, NEW h \in DOMAIN publishers
  PROVE  publishers[h].seq \in Int /\ publishers[h].nextAt \in Nat
  <1>1. publishers[h] \in Publisher
    BY DEF TypeOK, Publisher
  <1>2. QED
    BY <1>1, Numbers DEF Publisher

\* Handles that stay keep their records, new ones are fresh.
LEMMA SentOperation ==
  ASSUME TypeOK, AgreeInv, SentInv, NEW q \in Inputs, Admitted(q), Operation(q), toRos' = toRos
  PROVE  SentInv'
  <1>1. ResourceTypes /\ nextId \in Nat
    BY TypeParts, Clock
  <1>2. ASSUME nextId' >= nextId, nextId' \in Nat,
               \A h \in DOMAIN publishers' :
                 \/ h = nextId + 1
                 \/ h \in DOMAIN publishers /\ publishers'[h] = publishers[h]
        PROVE  SentInv'
    <2>1. ASSUME NEW i \in DOMAIN toRos
          PROVE  /\ toRos[i].handle <= nextId'
                 /\ toRos[i].handle \in DOMAIN publishers' =>
                      /\ toRos[i].handle \in DOMAIN publishers
                      /\ publishers'[toRos[i].handle] = publishers[toRos[i].handle]
      <3>1. toRos[i].handle \in Nat /\ toRos[i].handle <= nextId
        BY SentEntry DEF SentInv, Ids
      <3>2. QED
        BY <1>1, <1>2, <3>1
    <2>2. QED
      BY <2>1 DEF SentInv
  <1>3. CASE /\ nextId' = nextId + 1 /\ UNCHANGED publishers
    BY <1>1, <1>2, <1>3
  <1>4. ASSUME NEW t \in Commands, nextId < MaxId, nextId' = nextId + 1,
               publishers' = With(publishers, nextId + 1, [topic |-> t, seq |-> -1, nextAt |-> 0])
        PROVE  SentInv'
    <2>1. /\ DOMAIN publishers' = DOMAIN publishers \cup {nextId + 1}
          /\ \A h \in DOMAIN publishers : h # nextId + 1 => publishers'[h] = publishers[h]
      BY <1>4 DEF With
    <2>2. nextId' >= nextId /\ nextId' \in Nat
      BY <1>1, <1>4
    <2>3. QED
      BY <1>2, <2>1, <2>2
  <1>5. ASSUME NEW k \in DOMAIN publishers, Unadvertise(k), nextId' = nextId PROVE SentInv'
    <2>1. /\ DOMAIN publishers' = DOMAIN publishers \ {k}
          /\ \A h \in DOMAIN publishers \ {k} : publishers'[h] = publishers[h]
      BY <1>1, <1>5, DropPublisher
    <2>2. nextId' >= nextId /\ nextId' \in Nat
      BY <1>1, <1>5
    <2>3. QED
      BY <1>2, <2>1, <2>2
  <1>6. CASE UNCHANGED <<nextId, publishers>>
    BY <1>1, <1>2, <1>6
  <1>7. QED
    BY <1>3, <1>4, <1>5, <1>6, OperationCases DEF removeSubscription, resourceVars

\* A publication is above and after everything its handle sent before.
LEMMA SentPublish ==
  ASSUME TypeOK, AgreeInv, SentInv, CalledOnce, NEW h \in DOMAIN publishers,
         NEW seq \in 0 .. MaxSeq, NEW called \in BOOLEAN, NEW full \in BOOLEAN,
         Publish(h, seq, called, full)
  PROVE  SentInv' /\ CalledOnce'
  <1>1. /\ seq > publishers[h].seq /\ now >= publishers[h].nextAt /\ nextId' = nextId
    BY DEF Publish, Publishable
  <1>2. \/ DOMAIN publishers' = {}
        \/ /\ DOMAIN publishers' = DOMAIN publishers
           /\ \A k \in DOMAIN publishers : k # h => publishers'[k] = publishers[k]
           /\ publishers'[h].seq = seq /\ publishers'[h].nextAt = now + Interval
    <2>1. CASE full
      BY <2>1, EmptyFunction DEF Publish, Shut
    <2>2. CASE ~full
      <3>1. full = FALSE
        BY <2>2
      <3>2. QED
        BY <3>1, PublishRecord
    <2>3. QED
      BY <2>1, <2>2
  <1>3. /\ seq \in Nat /\ now \in Nat /\ nextId \in Nat /\ h <= nextId
        /\ publishers[h].seq \in Int /\ publishers[h].nextAt \in Nat
    BY Numbers, Clock, PublisherNumbers DEF AgreeInv, IssuedInv
  <1>4. ASSUME NEW i \in DOMAIN toRos, toRos[i].handle = h
        PROVE  toRos[i].seq < seq /\ toRos[i].at + Interval <= now
    <2>1. toRos[i].seq <= publishers[h].seq /\ toRos[i].at + Interval <= publishers[h].nextAt
      BY <1>4 DEF SentInv
    <2>2. toRos[i].seq \in Nat /\ toRos[i].at \in Nat
      BY SentEntry
    <2>3. QED
      BY <1>1, <1>3, <2>1, <2>2, Numbers
  <1>5. ASSUME NEW i \in DOMAIN toRos
        PROVE  /\ toRos[i].handle <= nextId'
               /\ toRos[i].handle \in DOMAIN publishers' =>
                    /\ toRos[i].seq <= publishers'[toRos[i].handle].seq
                    /\ toRos[i].at + Interval <= publishers'[toRos[i].handle].nextAt
    <2>1. toRos[i].seq \in Nat /\ toRos[i].at \in Nat
      BY SentEntry
    <2>2. CASE toRos[i].handle = h
      BY <1>1, <1>2, <1>3, <1>4, <2>1, <2>2, Numbers
    <2>3. CASE toRos[i].handle # h
      BY <1>1, <1>2, <2>3 DEF SentInv
    <2>4. QED
      BY <2>2, <2>3
  <1>6. CASE toRos' = toRos
    BY <1>5, <1>6 DEF SentInv, CalledOnce
  <1>7. CASE toRos' = Append(toRos, [handle |-> h, seq |-> seq, at |-> now])
    <2>1. /\ Len(toRos) \in Nat /\ DOMAIN toRos = 1 .. Len(toRos)
          /\ DOMAIN toRos' = 1 .. Len(toRos) + 1
          /\ \A i \in 1 .. Len(toRos) : toRos'[i] = toRos[i]
          /\ toRos'[Len(toRos) + 1] = [handle |-> h, seq |-> seq, at |-> now]
      <3>1. [handle |-> h, seq |-> seq, at |-> now] \in [handle : Ids, seq : 0 .. MaxSeq, at : Nat]
        BY <1>3 DEF TypeOK
      <3>2. toRos \in Seq([handle : Ids, seq : 0 .. MaxSeq, at : Nat])
        BY DEF TypeOK
      <3>3. QED
        BY <1>7, <3>1, <3>2, AppendedEntry
    <2>2. SentInv'
      <3>1. ASSUME NEW i \in DOMAIN toRos'
            PROVE  /\ toRos'[i].handle <= nextId'
                   /\ toRos'[i].handle \in DOMAIN publishers' =>
                        /\ toRos'[i].seq <= publishers'[toRos'[i].handle].seq
                        /\ toRos'[i].at + Interval <= publishers'[toRos'[i].handle].nextAt
        <4>1. CASE i = Len(toRos) + 1
          <5>1. toRos'[i].handle = h /\ toRos'[i].seq = seq /\ toRos'[i].at = now
            BY <2>1, <4>1
          <5>2. QED
            BY <1>1, <1>2, <1>3, <5>1, Numbers
        <4>2. CASE i # Len(toRos) + 1
          <5>1. i \in DOMAIN toRos /\ toRos'[i] = toRos[i]
            BY <2>1, <3>1, <4>2
          <5>2. QED
            BY <1>5, <5>1
        <4>3. QED
          BY <4>1, <4>2
      <3>2. QED
        BY <3>1 DEF SentInv
    <2>3. ASSUME NEW i \in DOMAIN toRos', NEW j \in DOMAIN toRos', i < j,
                 toRos'[i].handle = toRos'[j].handle
          PROVE  toRos'[i].seq < toRos'[j].seq /\ toRos'[i].at + Interval <= toRos'[j].at
      <3>1. i \in DOMAIN toRos /\ toRos'[i] = toRos[i]
        BY <2>1, <2>3
      <3>2. CASE j = Len(toRos) + 1
        <4>1. toRos'[j].handle = h /\ toRos'[j].seq = seq /\ toRos'[j].at = now
          BY <2>1, <3>2
        <4>2. QED
          BY <1>4, <2>3, <3>1, <4>1
      <3>3. CASE j # Len(toRos) + 1
        <4>1. j \in DOMAIN toRos /\ toRos'[j] = toRos[j]
          BY <2>1, <2>3, <3>3
        <4>2. QED
          BY <2>3, <3>1, <4>1 DEF CalledOnce
      <3>4. QED
        BY <3>2, <3>3
    <2>4. QED
      BY <2>2, <2>3 DEF CalledOnce
  <1>8. QED
    BY <1>6, <1>7 DEF Publish

\* Every step keeps the order of the publications.
LEMMA SentStep ==
  TypeOK /\ AgreeInv /\ SentInv /\ CalledOnce /\ [Next]_controlVars => SentInv' /\ CalledOnce'
  <1> SUFFICES ASSUME TypeOK, AgreeInv, SentInv, CalledOnce, [Next]_controlVars
               PROVE  SentInv' /\ CalledOnce'
    OBVIOUS
  <1>1. ASSUME UNCHANGED <<toRos, nextId, publishers>> PROVE SentInv' /\ CalledOnce'
    BY <1>1 DEF SentInv, CalledOnce
  <1>2. CASE Shut /\ toRos' = toRos /\ nextId' >= nextId /\ nextId' \in Nat
    <2>1. DOMAIN publishers' = {}
      BY <1>2, EmptyFunction DEF Shut
    <2>2. ASSUME NEW i \in DOMAIN toRos PROVE toRos[i].handle <= nextId'
      <3>1. toRos[i].handle \in Nat /\ nextId \in Nat /\ toRos[i].handle <= nextId
        BY SentEntry, Clock DEF SentInv, Ids
      <3>2. QED
        BY <1>2, <3>1
    <2>3. QED
      BY <1>2, <2>1, <2>2 DEF SentInv, CalledOnce
  <1>3. ASSUME NEW full \in BOOLEAN, NEW r \in Requests, NEW q \in Inputs, Execute(r, q, full)
        PROVE  SentInv' /\ CalledOnce'
    <2>1. Admitted(q) /\ toRos' = toRos
      BY <1>3 DEF Execute, Runs
    <2>2. CASE full
      <3>1. Shut /\ nextId' = NextId(q)
        BY <1>3, <2>2 DEF Execute
      <3>2. NextId(q) \in Nat /\ NextId(q) >= nextId
        BY <2>1, NextIdType, Numbers
      <3>3. QED
        BY <1>2, <2>1, <3>1, <3>2
    <2>3. CASE ~full
      <3>1. Operation(q)
        BY <1>3, <2>3 DEF Execute
      <3>2. QED
        BY <2>1, <3>1, SentOperation DEF CalledOnce
    <2>4. QED
      BY <2>2, <2>3
  <1>4. ASSUME NEW full \in BOOLEAN, NEW h \in DOMAIN publishers, NEW seq \in 0 .. MaxSeq,
               NEW called \in BOOLEAN, Publish(h, seq, called, full)
        PROVE  SentInv' /\ CalledOnce'
    BY <1>4, SentPublish
  <1>5. CASE Shut /\ toRos' = toRos /\ nextId' = nextId
    <2>1. nextId \in Nat
      BY Clock
    <2>2. QED
      BY <1>2, <1>5, <2>1
  <1>6. QED
    BY <1>1, <1>3, <1>4, <1>5
       DEF Next, Hello, Refuse, Answer, Runs, ExecuteClosed, StreamEnds, removeSubscription, Close,
           Tick, resourceVars, historyVars, controlVars

\* ROS is called at most once for a sequence number of a handle, in increasing order and
\* no faster than the topic's rate, whatever calls failed or were refused in between.
THEOREM RosCalledOnce == Spec => []CalledOnce
  <1>1. Init => TypeOK /\ AgreeInv /\ RecordsAgree /\ SentInv /\ CalledOnce
    BY TypeInit, AgreeInit DEF Init, SentInv, CalledOnce
  <1>2. TypeOK /\ AgreeInv /\ RecordsAgree /\ SentInv /\ CalledOnce /\ [Next]_controlVars
          => (TypeOK /\ AgreeInv /\ RecordsAgree /\ SentInv /\ CalledOnce)'
    BY TypeStep, AgreeStep, SentStep
  <1>3. QED
    BY <1>1, <1>2, PTL DEF Spec

-----------------------------------------------------------------------------

\* Live entries are a finite part of the cache.
LEMMA LiveFinite ==
  ASSUME EntriesInv
  PROVE  IsFiniteSet(Live) /\ Cardinality(Live) \in Nat /\ Cardinality(Live) <= MaxRequests
  <1>1. Live \in SUBSET DOMAIN cache
    BY DEF Live
  <1>2. IsFiniteSet(Live) /\ Cardinality(Live) <= Cardinality(DOMAIN cache)
    BY <1>1, FS_Subset DEF EntriesInv
  <1>3. Cardinality(Live) \in Nat /\ Cardinality(DOMAIN cache) \in Nat
    BY <1>2, FS_CardinalityType DEF EntriesInv
  <1>4. QED
    BY <1>2, <1>3, Numbers DEF EntriesInv

\* The cache never holds more replies than configured, although a reply is stored
\* after its operation has run.
THEOREM CacheEntriesBounded == Spec => []EntriesInv
  <1>1. Init => TypeOK /\ EntriesInv
    <2> SUFFICES ASSUME Init PROVE TypeOK /\ EntriesInv
      OBVIOUS
    <2>1. DOMAIN cache = {}
      BY EmptyFunction DEF Init
    <2>2. QED
      BY <2>1, TypeInit, FS_EmptySet, Numbers DEF EntriesInv
  <1>2. TypeOK /\ EntriesInv /\ [Next]_controlVars => (TypeOK /\ EntriesInv)'
    <2> SUFFICES ASSUME TypeOK, EntriesInv, [Next]_controlVars PROVE EntriesInv'
      BY TypeStep
    <2>1. CASE UNCHANGED cache
      BY <2>1 DEF EntriesInv
    <2>2. CASE Prune
      BY <2>2, PruneCache, LiveFinite DEF EntriesInv
    <2>3. ASSUME NEW r \in Requests, NEW q \in Inputs, Runs(r, q), Store(r, q) PROVE EntriesInv'
      <3>1. DOMAIN cache' = Live \cup {r} /\ r \notin Live /\ Cardinality(Live) < MaxRequests
        BY <2>3, StoreCache DEF Runs, Reserved
      <3>2. IsFiniteSet(DOMAIN cache') /\ Cardinality(DOMAIN cache') = Cardinality(Live) + 1
        BY <3>1, LiveFinite, FS_AddElement
      <3>3. QED
        BY <3>1, <3>2, LiveFinite, Numbers DEF EntriesInv
    <2>4. CASE ClearCache
      <3>1. DOMAIN cache' = {}
        BY <2>4, ClearedCache
      <3>2. QED
        BY <3>1, FS_EmptySet, Numbers DEF EntriesInv
    <2>5. ASSUME NEW r \in Requests, NEW q \in Inputs, cache' = With(<<>>, r, Entry(r, q))
          PROVE  EntriesInv'
      <3>1. DOMAIN cache' = {r}
        BY <2>5, LateEntry
      <3>2. QED
        BY <3>1, FS_Singleton, Numbers DEF EntriesInv
    <2>6. QED
      BY <2>1, <2>2, <2>3, <2>4, <2>5
         DEF Next, Hello, Refuse, Answer, Execute, ExecuteClosed, Publish, StreamEnds, Close, Tick,
             controlVars
  <1>3. QED
    BY <1>1, <1>2, PTL DEF Spec

\* The bytes of the entries, as a function.
EntryBytes == [r \in DOMAIN cache |-> cache[r].bytes]

\* The byte count is what the entries hold, within the budget.
BytesInv ==
  /\ cacheBytes = SumFunctionOnSet(EntryBytes, DOMAIN cache)
  /\ cacheBytes <= CacheBytes

\* Every entry has a size.
LEMMA EntrySizes ==
  ASSUME TypeOK
  PROVE  \A r \in DOMAIN cache : EntryBytes[r] = cache[r].bytes /\ EntryBytes[r] \in Nat
  BY DEF TypeOK, EntryBytes

\* What lookup() leaves is what the surviving entries hold, and is within the budget.
LEMMA LiveSum ==
  ASSUME TypeOK, EntriesInv, BytesInv
  PROVE  /\ LiveBytes = SumFunctionOnSet(EntryBytes, Live)
         /\ LiveBytes \in Nat /\ LiveBytes <= CacheBytes
  <1> DEFINE D == DOMAIN cache
             f == EntryBytes
  <1>1. IsFiniteSet(D) /\ Live \in SUBSET D /\ \A r \in D : f[r] \in Nat
    BY EntrySizes DEF EntriesInv, Live
  <1>2. LiveBytes = cacheBytes - SumFunctionOnSet(f, D \ Live)
    BY DEF LiveBytes, EntryBytes
  <1> HIDE DEF D, f
  <1>3. SumFunctionOnSet(f, D) = SumFunctionOnSet(f, Live) + SumFunctionOnSet(f, D \ Live)
    BY <1>1, SumSplit
  <1>4. IsFiniteSet(Live) /\ IsFiniteSet(D \ Live)
    BY <1>1, FS_Subset
  <1>5. SumFunctionOnSet(f, Live) \in Nat /\ SumFunctionOnSet(f, D \ Live) \in Nat
    BY <1>1, <1>4, SumType
  <1>6. cacheBytes = SumFunctionOnSet(f, D) /\ cacheBytes <= CacheBytes
    BY DEF BytesInv, D, f
  <1> QED
    BY <1>2, <1>3, <1>5, <1>6, Numbers DEF f

\* The sum over a cache whose entries are partly those of the present one.
LEMMA SameEntries ==
  ASSUME TypeOK, EntriesInv, Live \subseteq DOMAIN cache',
         \A r \in Live : cache'[r].bytes = cache[r].bytes
  PROVE  SumFunctionOnSet(EntryBytes', Live) = SumFunctionOnSet(EntryBytes, Live)
  <1>1. IsFiniteSet(Live) /\ Live \subseteq DOMAIN cache
    BY LiveFinite DEF Live
  <1>2. EntryBytes' = [r \in DOMAIN cache' |-> cache'[r].bytes]
    BY DEF EntryBytes
  <1>3. \A r \in Live : EntryBytes'[r] = EntryBytes[r]
    BY <1>1, <1>2 DEF EntryBytes
  <1> QED
    BY <1>1, <1>3, SumSame

\* Every step keeps the byte count exact and within the budget.
LEMMA BytesStep ==
  ASSUME TypeOK, EntriesInv, BytesInv, [Next]_controlVars
  PROVE  BytesInv'
  <1>1. CASE UNCHANGED <<cache, cacheBytes>>
    BY <1>1 DEF BytesInv, EntryBytes
  <1>2. CASE Prune
    <2>1. DOMAIN cache' = Live /\ \A r \in Live : cache'[r] = cache[r]
      BY <1>2, PruneCache
    <2>2. cacheBytes' = LiveBytes
      BY <1>2 DEF Prune
    <2>3. SumFunctionOnSet(EntryBytes', Live) = SumFunctionOnSet(EntryBytes, Live)
      BY <2>1, SameEntries
    <2> QED
      BY <2>1, <2>2, <2>3, LiveSum DEF BytesInv
  <1>3. ASSUME NEW r \in Requests, NEW q \in Inputs, Runs(r, q), Store(r, q), Fits(r, q)
        PROVE  BytesInv'
    <2> DEFINE b == Entry(r, q).bytes
               D == DOMAIN cache'
               g == EntryBytes'
    <2>1. /\ D = Live \cup {r} /\ r \notin Live
          /\ \A x \in Live : cache'[x] = cache[x]
          /\ cache'[r].bytes = b
      BY <1>3, StoreCache DEF Runs
    <2>2. cacheBytes' = LiveBytes + b /\ MaxBytes + 2 * InputSize(r) <= CacheBytes - LiveBytes
      BY <1>3 DEF Store, Runs, Reserved
    <2>3. b \in Nat /\ b <= MaxBytes + 2 * InputSize(r) /\ InputSize(r) \in Nat
      BY <1>3, EntryFacts, Numbers DEF Fits
    <2>4. IsFiniteSet(D)
      BY <2>1, LiveFinite, FS_AddElement
    <2>5. g = [x \in D |-> cache'[x].bytes]
      BY DEF EntryBytes
    <2>6. g[r] = b /\ \A x \in D : g[x] \in Nat
      <3>1. g[r] = b
        BY <2>1, <2>5
      <3>2. Live \subseteq DOMAIN cache
        BY DEF Live
      <3>3. \A x \in Live : g[x] \in Nat
        BY <2>1, <2>5, <3>2, EntrySizes
      <3> QED
        BY <2>1, <2>3, <3>1, <3>3
    <2>7. SumFunctionOnSet(g, Live) = SumFunctionOnSet(EntryBytes, Live)
      BY <2>1, SameEntries
    <2>8. r \in D /\ D \ {r} = Live
      BY <2>1
    <2> HIDE DEF g, D, b
    <2>9. SumFunctionOnSet(g, D) = g[r] + SumFunctionOnSet(g, D \ {r})
      BY <2>4, <2>6, <2>8, SumRemove
    <2>10. cacheBytes' = SumFunctionOnSet(g, D) /\ cacheBytes' <= CacheBytes
      <3>1. /\ LiveBytes = SumFunctionOnSet(EntryBytes, Live)
            /\ LiveBytes \in Nat /\ CacheBytes \in Nat /\ MaxBytes \in Nat
        BY LiveSum, Numbers
      <3>2. SumFunctionOnSet(g, D) = b + LiveBytes
        BY <2>6, <2>7, <2>8, <2>9, <3>1
      <3>3. cacheBytes' = SumFunctionOnSet(g, D)
        BY <2>2, <2>3, <3>1, <3>2
      <3>4. cacheBytes' <= CacheBytes
        BY <2>2, <2>3, <3>1
      <3> QED
        BY <3>3, <3>4
    <2> QED
      BY <2>10 DEF BytesInv, g, D
  <1>4. CASE ClearCache
    <2>1. DOMAIN cache' = {} /\ cacheBytes' = 0
      BY <1>4, ClearedCache
    <2>2. SumFunctionOnSet(EntryBytes', {}) = 0
      BY SumEmpty
    <2> QED
      BY <2>1, <2>2, Numbers DEF BytesInv
  <1>5. ASSUME NEW r \in Requests, NEW q \in Inputs, Runs(r, q), Fits(r, q),
               cache' = With(<<>>, r, Entry(r, q)), cacheBytes' = Entry(r, q).bytes
        PROVE  BytesInv'
    <2> DEFINE g == EntryBytes'
               b == Entry(r, q).bytes
    <2>1. DOMAIN cache' = {r} /\ cache'[r].bytes = b
      BY <1>5, LateEntry
    <2>2. b \in Nat /\ b <= MaxBytes + 2 * InputSize(r) /\ InputSize(r) \in Nat
      BY <1>5, EntryFacts, Numbers DEF Fits
    <2>3. MaxBytes + 2 * InputSize(r) <= CacheBytes - LiveBytes
      BY <1>5 DEF Runs, Reserved
    <2>4. g = [x \in {r} |-> cache'[x].bytes]
      BY <2>1 DEF EntryBytes
    <2>5. g[r] = b /\ \A x \in {r} : g[x] \in Nat
      BY <2>1, <2>2, <2>4
    <2>6. IsFiniteSet({r}) /\ r \in {r} /\ {r} \ {r} = {}
      BY FS_Singleton
    <2> HIDE DEF g, b
    <2>7. SumFunctionOnSet(g, {r}) = g[r] + SumFunctionOnSet(g, {r} \ {r})
      BY <2>5, <2>6, SumRemove
    <2>8. SumFunctionOnSet(g, {}) = 0
      BY SumEmpty
    <2>9. cacheBytes' = SumFunctionOnSet(g, {r}) /\ cacheBytes' <= CacheBytes
      <3>1. cacheBytes' = b
        BY <1>5 DEF b
      <3>2. b <= CacheBytes
        BY <2>2, <2>3, LiveSum, Numbers
      <3> QED
        BY <2>2, <2>5, <2>6, <2>7, <2>8, <3>1, <3>2
    <2> QED
      BY <2>1, <2>9 DEF BytesInv, g
  <1> QED
    BY <1>1, <1>2, <1>3, <1>4, <1>5
       DEF Next, Hello, Refuse, Answer, Execute, ExecuteClosed, Publish, StreamEnds, Close, Tick,
           controlVars

\* The cache's byte count is exact and never passes its budget, although a reply is
\* stored after its operation has run: the room reserved before is enough.
THEOREM CacheAlwaysAccounted == Spec => []CacheAccounted
  <1>1. Init => BytesInv
    <2> SUFFICES ASSUME Init PROVE BytesInv
      OBVIOUS
    <2>1. DOMAIN cache = {} /\ cacheBytes = 0
      BY EmptyFunction DEF Init
    <2> QED
      BY <2>1, SumEmpty, Numbers DEF BytesInv
  <1>2. TypeOK /\ EntriesInv /\ BytesInv /\ [Next]_controlVars => BytesInv'
    BY BytesStep
  <1>3. EntriesInv /\ BytesInv => CacheAccounted
    <2> SUFFICES ASSUME EntriesInv, BytesInv PROVE CacheAccounted
      OBVIOUS
    <2>1. SumFunction(EntryBytes) = SumFunctionOnSet(EntryBytes, DOMAIN cache)
      BY DEF SumFunction, EntryBytes
    <2>2. cacheBytes = SumFunction([r \in DOMAIN cache |-> cache[r].bytes])
      BY <2>1 DEF BytesInv, EntryBytes
    <2> QED
      BY <2>2 DEF CacheAccounted, EntriesInv, BytesInv
  <1> QED
    BY <1>1, <1>2, <1>3, TypeCorrect, CacheEntriesBounded, PTL DEF Spec

=============================================================================
