------------------------- MODULE CommandGuardProofs -------------------------
(***************************************************************************)
(* Proofs about CommandGuard, for every number of sessions, handles,       *)
(* topics, lease times and nested hooks; the last section shows that the   *)
(* guard implements WriterAuthority.                                       *)
(***************************************************************************)
EXTENDS CommandGuard, SequenceTheorems, FiniteSetTheorems, TLAPS

\* Popping a stack keeps the frames below the top.
LEMMA PopProperties ==
  ASSUME NEW S, NEW q \in Seq(S), q # <<>>
  PROVE  LET p == SubSeq(q, 1, Len(q) - 1) IN
         /\ p \in Seq(S)
         /\ Len(p) = Len(q) - 1
         /\ \A i \in DOMAIN p : i \in DOMAIN q /\ p[i] = q[i]
         /\ Len(q) \in DOMAIN q
         /\ q[Len(q)] \in S
  <1>1. Len(q) \in Nat /\ Len(q) # 0
    BY EmptySeq
  <1> DEFINE p == SubSeq(q, 1, Len(q) - 1)
  <1>2. Len(q) - 1 \in 0 .. Len(q) /\ 1 \in 1 .. Len(q) + 1 /\ (Len(q) - 1) - 1 + 1 = Len(q) - 1
    BY <1>1
  <1>3. /\ p \in Seq(S)
        /\ Len(p) = Len(q) - 1
        /\ \A i \in 1 .. Len(q) - 1 : p[i] = q[i]
    BY <1>1, <1>2
  <1>4. DOMAIN p = 1 .. Len(q) - 1 /\ DOMAIN q = 1 .. Len(q)
    BY <1>1, <1>3
  <1>5. Len(q) \in DOMAIN q /\ q[Len(q)] \in S
    BY <1>1, <1>4
  <1> HIDE DEF p
  <1>6. QED
    BY <1>1, <1>3, <1>4, <1>5 DEF p

\* Pushing a frame, or appending to the history, keeps what was there.
LEMMA PushProperties ==
  ASSUME NEW S, NEW q \in Seq(S), NEW x \in S
  PROVE  LET p == Append(q, x) IN
         /\ p \in Seq(S)
         /\ Len(p) = Len(q) + 1
         /\ DOMAIN p = DOMAIN q \cup {Len(q) + 1}
         /\ \A i \in DOMAIN q : p[i] = q[i]
         /\ p[Len(q) + 1] = x
  BY AppendProperties

\* What the innermost frame is when an operation of a phase finishes.
LEMMA TopFrame ==
  ASSUME TypeOK, calls # <<>>
  PROVE  /\ Top \in Frame
         /\ Top.phase = "open" => /\ Top.session \in Ids /\ Top.handle \in Ids
                                  /\ Top.epoch \in Epochs /\ Top.topic \in Topics
                                  /\ Top.leaseMs \in LeaseTimes
         /\ Top.phase = "arm" => Top.session \in Ids /\ Top.handle \in Ids
         /\ Top.phase \in {"receive", "publish"} => Top.request \in Request
  <1>1. Top \in Frame
    BY PopProperties DEF TypeOK, Top
  <1>2. QED
    BY <1>1 DEF Frame

-----------------------------------------------------------------------------
(***************************************************************************)
(* Type correctness.                                                       *)
(***************************************************************************)

\* A request that a peer may name is a Request.
LEMMA WireRequest ==
  ASSUME TypeOK, NEW h \in DOMAIN handles, NEW e \in Epochs,
         NEW l \in WireLeases, NEW q \in Seqs
  PROVE  [session |-> handles[h].session, epoch |-> e,
          handle |-> h, lease |-> l, seq |-> q] \in Request
  <1>1. h \in Ids /\ handles[h] \in HandleState
    BY DEF TypeOK
  <1>2. \A k \in DOMAIN handles : handles[k].lease.id \in 0 .. MaxId
    BY DEF TypeOK, HandleState, Lease
  <1>3. \A r \in tickets : r.lease \in Ids
    BY DEF TypeOK, Request
  <1>4. \A i \in DOMAIN toRos : toRos[i].lease \in Ids
    <2>1. \A i \in DOMAIN toRos : toRos[i] \in Publication
      BY ElementOfSeq DEF TypeOK
    <2>2. QED
      BY <2>1 DEF Publication
  <1>5. \A k \in DOMAIN handles : handles[k].lease.id # 0 => handles[k].lease.id \in Ids
    BY <1>2, GuardAssumption DEF Ids
  <1>6. l \in Ids
    BY <1>3, <1>4, <1>5 DEF WireLeases
  <1>7. handles[h].session \in Ids
    BY <1>1 DEF HandleState
  <1>8. QED
    BY <1>1, <1>6, <1>7 DEF Request

\* A new guard has empty maps and one accepted clock reading.
LEMMA TypeInit == Init => TypeOK
  <1> SUFFICES ASSUME Init PROVE TypeOK
    OBVIOUS
  <1>1. DOMAIN sessions = {} /\ DOMAIN handles = {}
    BY DEF Init, NoEntries
  <1>2. calls \in Seq(Frame) /\ toRos \in Seq(Publication)
    BY DEF Init
  <1>3. nextId \in 0 .. MaxId
    BY GuardAssumption DEF Init
  <1>4. QED
    BY <1>1, <1>2, <1>3 DEF Init, TypeOK

\* openSession registers an issued identifier.
LEMMA TypeOpenSession ==
  ASSUME TypeOK, NEW e \in Epochs, OpenSession(e)
  PROVE  TypeOK'
  <1>1. nextId' \in 0 .. MaxId /\ nextId + 1 \in Ids
    BY GuardAssumption DEF TypeOK, OpenSession, IdLeft, Ids
  <1>2. /\ DOMAIN sessions' \subseteq Ids
        /\ \A s \in DOMAIN sessions' : sessions'[s] \in Epochs
    BY <1>1 DEF TypeOK, OpenSession
  <1>3. QED
    BY <1>1, <1>2 DEF TypeOK, OpenSession

\* The frame openHandle leaves while its hook runs is well formed.
LEMMA OpenFrameType ==
  ASSUME TypeOK, NEW s \in Ids, NEW t \in Topics, NEW ms \in LeaseTimes,
         OpenHandle(s, t, ms)
  PROVE  [phase |-> "open", session |-> s, epoch |-> sessions[s],
          handle |-> nextId + 1, topic |-> t, leaseMs |-> ms] \in Frame
  <1>1. nextId + 1 \in Ids
    BY GuardAssumption DEF TypeOK, OpenHandle, IdLeft, Ids
  <1>2. sessions[s] \in Epochs
    BY DEF TypeOK, OpenHandle
  <1> DEFINE f == [phase |-> "open", session |-> s, epoch |-> sessions[s],
                   handle |-> nextId + 1, topic |-> t, leaseMs |-> ms]
  <1>3. f \in [phase : {"open"}, session : Ids, epoch : Epochs, handle : Ids,
               topic : Topics, leaseMs : LeaseTimes]
    BY <1>1, <1>2
  <1> HIDE DEF f
  <1>4. f \in Frame
    BY <1>3 DEF Frame
  <1>5. QED
    BY <1>4 DEF f

\* openHandle spends an identifier and pushes that frame.
LEMMA TypeOpenHandle ==
  ASSUME TypeOK, NEW s \in Ids, NEW t \in Topics, NEW ms \in LeaseTimes,
         OpenHandle(s, t, ms)
  PROVE  TypeOK'
  <1>1. nextId' \in 0 .. MaxId
    BY GuardAssumption DEF TypeOK, OpenHandle, IdLeft
  <1> DEFINE f == [phase |-> "open", session |-> s, epoch |-> sessions[s],
                   handle |-> nextId + 1, topic |-> t, leaseMs |-> ms]
  <1>2. f \in Frame
    BY OpenFrameType
  <1>3. calls' = Append(calls, f)
    BY DEF OpenHandle, Enter
  <1> HIDE DEF f
  <1>4. calls' \in Seq(Frame)
    BY <1>2, <1>3, PushProperties DEF TypeOK
  <1>5. QED
    BY <1>1, <1>4 DEF TypeOK, OpenHandle

\* openHandle's return registers the handle its frame describes.
LEMMA TypeOpenHandleReturn ==
  ASSUME TypeOK, OpenHandleReturn
  PROVE  TypeOK'
  <1>1. calls # <<>> /\ Top.phase = "open" /\ calls' = SubSeq(calls, 1, Len(calls) - 1)
    BY DEF OpenHandleReturn, Leave
  <1>2. calls' \in Seq(Frame)
    BY <1>1, PopProperties DEF TypeOK
  <1> DEFINE c == Top
             new == [session |-> c.session, epoch |-> c.epoch,
                     topic |-> c.topic, leaseMs |-> c.leaseMs,
                     lease |-> NoLease, received |-> -1, published |-> -1]
  <1>3. NoLease \in Lease
    BY GuardAssumption DEF NoLease, Lease, Times
  <1>4. c.handle \in Ids /\ new \in HandleState
    BY <1>1, <1>3, TopFrame DEF HandleState
  <1>5. handles' = [h \in DOMAIN handles \cup {c.handle} |->
                      IF h = c.handle THEN new ELSE handles[h]]
    BY DEF OpenHandleReturn
  <1> HIDE DEF c, new
  <1>6. /\ DOMAIN handles' \subseteq Ids
        /\ \A h \in DOMAIN handles' : handles'[h] \in HandleState
    BY <1>4, <1>5 DEF TypeOK
  <1>7. QED
    BY <1>2, <1>6 DEF TypeOK, OpenHandleReturn

\* arm pushes a frame.
LEMMA TypeArm ==
  ASSUME TypeOK, NEW s \in Ids, NEW h \in Ids, Arm(s, h)
  PROVE  TypeOK'
  <1> DEFINE f == [phase |-> "arm", session |-> s, handle |-> h]
  <1>1. f \in Frame
    BY DEF Frame
  <1>2. calls' = Append(calls, f)
    BY DEF Arm, Enter
  <1> HIDE DEF f
  <1>3. calls' \in Seq(Frame)
    BY <1>1, <1>2, PushProperties DEF TypeOK
  <1>4. QED
    BY <1>3 DEF TypeOK, Arm

\* Granting a lease keeps the domain and every field but the lease.
LEMMA GrantLeaseProperties ==
  ASSUME TypeOK, NEW h \in DOMAIN handles, NEW lease \in Lease
  PROVE  LET g == GrantLease(h, lease) IN
         /\ DOMAIN g = DOMAIN handles
         /\ \A k \in DOMAIN handles :
              /\ g[k] \in HandleState
              /\ g[k].session = handles[k].session
              /\ g[k].topic = handles[k].topic
              /\ g[k].received = handles[k].received
              /\ g[k].published = handles[k].published
              /\ g[k].lease = IF k = h THEN lease
                              ELSE IF handles[k].topic = handles[h].topic
                                   THEN NoLease ELSE handles[k].lease
  <1>1. NoLease \in Lease
    BY GuardAssumption DEF NoLease, Lease, Times
  <1>2. \A k \in DOMAIN handles : handles[k] \in HandleState
    BY DEF TypeOK
  <1>3. QED
    BY <1>1, <1>2 DEF GrantLease, HandleState

\* arm's return stores a lease whose expiry is a representable time.
LEMMA TypeArmReturn ==
  ASSUME TypeOK, NEW now \in Times, ArmReturn(now)
  PROVE  TypeOK'
  <1>1. /\ calls # <<>> /\ calls' = SubSeq(calls, 1, Len(calls) - 1)
        /\ Top.handle \in DOMAIN handles
        /\ lastTime' = now
    BY DEF ArmReturn, Leave, Owned, ReadClock
  <1>2. calls' \in Seq(Frame)
    BY <1>1, PopProperties DEF TypeOK
  <1> DEFINE e == now + handles[Top.handle].leaseMs
             l == [id |-> nextId + 1, expiresAt |-> e]
  <1>3. CASE UNCHANGED <<handles, nextId>>
    BY <1>1, <1>2, <1>3 DEF TypeOK, ArmReturn
  <1>4. CASE /\ ~ClockExhausted(e) /\ IdLeft
             /\ nextId' = nextId + 1
             /\ handles' = GrantLease(Top.handle, l)
    <2>1. handles[Top.handle].leaseMs \in Nat
      BY <1>1, GuardAssumption DEF TypeOK, HandleState
    <2>2. nextId' \in 0 .. MaxId /\ nextId + 1 \in 0 .. MaxId /\ e \in Times
      BY <1>4, <2>1, GuardAssumption DEF TypeOK, IdLeft, ClockExhausted, Times
    <2>3. l \in Lease
      BY <2>2 DEF Lease
    <2> HIDE DEF l
    <2>4. /\ DOMAIN handles' = DOMAIN handles
          /\ \A k \in DOMAIN handles : handles'[k] \in HandleState
      BY <1>1, <1>4, <2>3, GrantLeaseProperties
    <2>5. QED
      BY <1>1, <1>2, <2>2, <2>4 DEF TypeOK, ArmReturn
  <1>5. QED
    BY <1>3, <1>4 DEF ArmReturn

\* prepare pushes the request it was given.
LEMMA TypePrepare ==
  ASSUME TypeOK, NEW r \in Request, Prepare(r)
  PROVE  TypeOK'
  <1> DEFINE f == [phase |-> "receive", request |-> r]
  <1>1. f \in Frame
    BY DEF Frame
  <1>2. calls' = Append(calls, f)
    BY DEF Prepare, Enter
  <1> HIDE DEF f
  <1>3. calls' \in Seq(Frame)
    BY <1>1, <1>2, PushProperties DEF TypeOK
  <1>4. QED
    BY <1>3 DEF TypeOK, Prepare

\* prepare's return reserves a sequence number and makes a ticket.
LEMMA TypePrepareReturn ==
  ASSUME TypeOK, NEW now \in Times, PrepareReturn(now)
  PROVE  TypeOK'
  <1> DEFINE r == Top.request
  <1>1. /\ calls # <<>> /\ calls' = SubSeq(calls, 1, Len(calls) - 1)
        /\ Top.phase = "receive" /\ lastTime' = now
    BY DEF PrepareReturn, Leave, ReadClock
  <1>2. calls' \in Seq(Frame) /\ r \in Request
    BY <1>1, PopProperties, TopFrame DEF TypeOK
  <1>3. r.seq \in Seqs
    BY <1>2 DEF Request
  <1>4. CASE UNCHANGED <<handles, tickets>>
    BY <1>1, <1>2, <1>4 DEF TypeOK, PrepareReturn
  <1>5. CASE /\ handles' = [handles EXCEPT ![r.handle].received = r.seq]
             /\ tickets' = tickets \cup {r}
    <2> HIDE DEF r
    <2>1. /\ DOMAIN handles' = DOMAIN handles
          /\ \A h \in DOMAIN handles : handles'[h] \in HandleState
      BY <1>3, <1>5 DEF TypeOK, HandleState
    <2>2. QED
      BY <1>1, <1>2, <1>5, <2>1 DEF TypeOK, PrepareReturn
  <1>6. QED
    BY <1>4, <1>5 DEF PrepareReturn

\* ticket.publish spends its ticket.
LEMMA TypePublish ==
  ASSUME TypeOK, NEW r \in tickets, Publish(r)
  PROVE  TypeOK'
  <1> DEFINE f == [phase |-> "publish", request |-> r]
  <1>1. r \in Request /\ f \in Frame
    BY DEF TypeOK, Frame
  <1>2. calls' = Append(calls, f) \/ calls' = calls
    BY DEF Publish, Enter
  <1> HIDE DEF f
  <1>3. calls' \in Seq(Frame)
    BY <1>1, <1>2, PushProperties DEF TypeOK
  <1>4. QED
    BY <1>3 DEF TypeOK, Publish

\* ticket.publish's return appends a publication.
LEMMA TypePublishReturn ==
  ASSUME TypeOK, NEW now \in Times, PublishReturn(now)
  PROVE  TypeOK'
  <1> DEFINE r == Top.request
             p == [topic |-> handles[r.handle].topic, session |-> r.session,
                   handle |-> r.handle, lease |-> r.lease, seq |-> r.seq]
  <1>1. /\ calls # <<>> /\ calls' = SubSeq(calls, 1, Len(calls) - 1)
        /\ Top.phase = "publish" /\ lastTime' = now
        /\ r.handle \in DOMAIN handles
    BY DEF PublishReturn, Leave, ReadClock, LeaseMatches, Owned
  <1>2. calls' \in Seq(Frame) /\ r \in Request
    BY <1>1, PopProperties, TopFrame DEF TypeOK
  <1>3. CASE UNCHANGED <<handles, toRos>>
    BY <1>1, <1>2, <1>3 DEF TypeOK, PublishReturn
  <1>4. CASE /\ handles' = [handles EXCEPT ![r.handle].published = r.seq]
             /\ toRos' = Append(toRos, p)
    <2> HIDE DEF r
    <2>1. /\ DOMAIN handles' = DOMAIN handles
          /\ \A h \in DOMAIN handles : handles'[h] \in HandleState
      BY <1>2, <1>4 DEF TypeOK, HandleState, Request
    <2>2. p \in Publication
      BY <1>1, <1>2 DEF TypeOK, HandleState, Publication, Request
    <2> HIDE DEF p
    <2>3. toRos' \in Seq(Publication)
      BY <1>4, <2>2, PushProperties DEF TypeOK
    <2>4. QED
      BY <1>1, <1>2, <2>1, <2>3 DEF TypeOK, PublishReturn
  <1>5. QED
    BY <1>3, <1>4 DEF PublishReturn

\* A failing operation only pops its frame.
LEMMA TypeThrow ==
  ASSUME TypeOK, Throw
  PROVE  TypeOK'
  BY PopProperties DEF TypeOK, Throw

\* closeHandle, revokeSession and close only remove entries.
LEMMA TypeRelease ==
  ASSUME TypeOK,
         \/ \E s, h \in Ids : CloseHandle(s, h)
         \/ \E s \in Ids : RevokeSession(s)
         \/ Close
  PROVE  TypeOK'
  BY DEF TypeOK, CloseHandle, RevokeSession, Close, Keep, NoEntries

\* Type correctness is inductive: every operation of the guard keeps it.
LEMMA TypeNext == TypeOK /\ [Next]_vars => TypeOK'
  <1> SUFFICES ASSUME TypeOK, [Next]_vars PROVE TypeOK'
    OBVIOUS
  <1>1. ASSUME NEW h \in DOMAIN handles, NEW e \in Epochs, NEW l \in WireLeases,
               NEW q \in Seqs,
               Prepare([session |-> handles[h].session, epoch |-> e,
                        handle |-> h, lease |-> l, seq |-> q])
        PROVE  TypeOK'
    BY <1>1, WireRequest, TypePrepare
  <1>2. CASE UNCHANGED vars
    BY <1>2 DEF TypeOK, vars
  <1>3. QED
    BY <1>1, <1>2, TypeOpenSession, TypeOpenHandle, TypeOpenHandleReturn, TypeArm,
       TypeArmReturn, TypePrepareReturn, TypePublish, TypePublishReturn, TypeThrow,
       TypeRelease DEF Next

\* Type correctness: the guard's maps never hold a malformed entry; in particular
\* arm never stores an expiry past MAX_SAFE_INTEGER.
THEOREM TypeCorrect == Spec => []TypeOK
  BY TypeInit, TypeNext, PTL DEF Spec

-----------------------------------------------------------------------------
(***************************************************************************)
(* The inductive invariant.  An action either pushes a frame, pops one or  *)
(* leaves the stack alone; the two lemmas say what that does to the frames *)
(* the invariant speaks of.                                                *)
(***************************************************************************)

\* Popping a frame makes no new frame of any phase.
LEMMA PopFrames ==
  ASSUME TypeOK, calls # <<>>, calls' = SubSeq(calls, 1, Len(calls) - 1)
  PROVE  /\ OpenFrames' \subseteq OpenFrames
         /\ PublishFrames' \subseteq PublishFrames
         /\ \A i \in DOMAIN calls' : calls'[i] = calls[i] /\ i # Len(calls)
         /\ Top.phase = "open" => Len(calls) \in OpenFrames
         /\ Top.phase = "publish" => Len(calls) \in PublishFrames
  <1>1. /\ calls' \in Seq(Frame)
        /\ Len(calls') = Len(calls) - 1
        /\ \A i \in DOMAIN calls' : i \in DOMAIN calls /\ calls'[i] = calls[i]
        /\ Len(calls) \in DOMAIN calls
    BY PopProperties DEF TypeOK
  <1>2. Len(calls) \in Nat /\ DOMAIN calls' = 1 .. Len(calls) - 1
    BY <1>1 DEF TypeOK
  <1>3. \A i \in DOMAIN calls' : i # Len(calls)
    BY <1>2
  <1>4. QED
    BY <1>1, <1>3 DEF OpenFrames, PublishFrames, Top

\* Pushing a frame adds at most itself to the frames of a phase.
LEMMA PushFrames ==
  ASSUME TypeOK, NEW f \in Frame, calls' = Append(calls, f)
  PROVE  LET n == Len(calls) + 1 IN
         /\ OpenFrames' = OpenFrames \cup (IF f.phase = "open" THEN {n} ELSE {})
         /\ PublishFrames' = PublishFrames \cup (IF f.phase = "publish" THEN {n} ELSE {})
         /\ \A i \in DOMAIN calls : calls'[i] = calls[i]
         /\ calls'[n] = f
         /\ n \notin DOMAIN calls
  <1> DEFINE n == Len(calls) + 1
  <1>1. /\ DOMAIN calls' = DOMAIN calls \cup {n}
        /\ \A i \in DOMAIN calls : calls'[i] = calls[i]
        /\ calls'[n] = f
    BY PushProperties DEF TypeOK
  <1>2. n \notin DOMAIN calls
    BY DEF TypeOK
  <1> HIDE DEF n
  <1>3. QED
    BY <1>1, <1>2 DEF OpenFrames, PublishFrames, n

\* A new guard satisfies the inductive invariant.
LEMMA InvInit == Init => GuardInv
  <1> SUFFICES ASSUME Init PROVE GuardInv
    OBVIOUS
  <1>1. /\ DOMAIN sessions = {} /\ DOMAIN handles = {} /\ DOMAIN toRos = {}
        /\ DOMAIN calls = {} /\ tickets = {} /\ closed = FALSE
    BY DEF Init, NoEntries
  <1>2. QED
    BY <1>1 DEF GuardInv, OneLeasePerTopic, HandlesHaveSessions, FencedByLease,
       PublishedInOrder, TicketsReserved, Issued, OpeningFresh, NewestLease,
       SeqBounds, OpenFrames, PublishFrames

\* The numbers the invariant compares.
LEMMA Numbers ==
  ASSUME TypeOK
  PROVE  /\ nextId \in Nat
         /\ \A h \in DOMAIN handles :
              /\ h \in Nat
              /\ handles[h].lease.id \in Nat
              /\ handles[h].received \in Int
              /\ handles[h].published \in Int
         /\ \A i \in DOMAIN toRos :
              toRos[i].handle \in Nat /\ toRos[i].lease \in Nat /\ toRos[i].seq \in Nat
         /\ \A r \in Request : r.handle \in Nat /\ r.lease \in Nat /\ r.lease > 0 /\ r.seq \in Nat
         /\ tickets \subseteq Request
         /\ \A i \in OpenFrames : calls[i].handle \in Nat
         /\ \A i \in PublishFrames : calls[i].request \in Request
  <1> USE GuardAssumption DEF Ids, Seqs
  <1>1. nextId \in Nat /\ tickets \subseteq Request
    BY DEF TypeOK
  <1>2. \A h \in DOMAIN handles :
          /\ h \in Nat
          /\ handles[h].lease.id \in Nat
          /\ handles[h].received \in Int
          /\ handles[h].published \in Int
    BY DEF TypeOK, HandleState, Lease
  <1>3. \A i \in DOMAIN toRos : toRos[i] \in Publication
    BY ElementOfSeq DEF TypeOK
  <1>4. \A i \in DOMAIN calls : calls[i] \in Frame
    BY ElementOfSeq DEF TypeOK
  <1>5. \A r \in Request : r.handle \in Nat /\ r.lease \in Nat /\ r.lease > 0 /\ r.seq \in Nat
    BY DEF Request
  <1>6. /\ \A i \in OpenFrames : calls[i].handle \in Nat
        /\ \A i \in PublishFrames : calls[i].request \in Request
    BY <1>4 DEF Frame, OpenFrames, PublishFrames
  <1>7. \A i \in DOMAIN toRos :
          toRos[i].handle \in Nat /\ toRos[i].lease \in Nat /\ toRos[i].seq \in Nat
    BY <1>3 DEF Publication
  <1>8. QED
    BY <1>1, <1>2, <1>5, <1>6, <1>7

\* openSession keeps the invariant: its identifier is new.
LEMMA InvOpenSession ==
  ASSUME TypeOK, GuardInv, NEW e \in Epochs, OpenSession(e)
  PROVE  GuardInv'
  <1>1. /\ UNCHANGED <<handles, closed, tickets, calls, toRos>>
        /\ DOMAIN sessions \subseteq DOMAIN sessions' /\ ~closed
        /\ nextId' = nextId + 1
    BY DEF OpenSession
  <1>2. OpenFrames' = OpenFrames /\ PublishFrames' = PublishFrames
    BY <1>1 DEF OpenFrames, PublishFrames
  <1>3. Issued'
    BY <1>1, <1>2, Numbers DEF GuardInv, Issued
  <1>4. QED
    BY <1>1, <1>2, <1>3 DEF GuardInv, OneLeasePerTopic, HandlesHaveSessions,
       FencedByLease, PublishedInOrder, TicketsReserved, OpeningFresh, NewestLease,
       SeqBounds

\* The identifier openHandle draws is above every identifier in use.
LEMMA InvOpenHandle ==
  ASSUME TypeOK, GuardInv, NEW s \in Ids, NEW t \in Topics, NEW ms \in LeaseTimes,
         OpenHandle(s, t, ms)
  PROVE  GuardInv'
  <1> DEFINE n == Len(calls) + 1
             f == [phase |-> "open", session |-> s, epoch |-> sessions[s],
                   handle |-> nextId + 1, topic |-> t, leaseMs |-> ms]
  <1>1. /\ UNCHANGED <<sessions, handles, closed, tickets, toRos>>
        /\ nextId' = nextId + 1
    BY DEF OpenHandle
  <1>2. calls' = Append(calls, f)
    BY DEF OpenHandle, Enter
  <1>3. f.phase = "open" /\ f.handle = nextId + 1
    OBVIOUS
  <1>4. f \in Frame
    BY OpenFrameType
  <1> HIDE DEF f, n
  <1>5. /\ OpenFrames' = OpenFrames \cup {n}
        /\ PublishFrames' = PublishFrames
        /\ \A i \in DOMAIN calls : calls'[i] = calls[i]
        /\ calls'[n] = f /\ n \notin DOMAIN calls
    BY <1>2, <1>3, <1>4, PushFrames DEF n
  <1>6. OpenFrames \subseteq DOMAIN calls /\ PublishFrames \subseteq DOMAIN calls
    BY DEF OpenFrames, PublishFrames
  <1>7. Issued'
    BY <1>1, <1>3, <1>5, <1>6, Numbers DEF GuardInv, Issued
  <1>8. OpeningFresh'
    BY <1>1, <1>3, <1>5, <1>6, Numbers DEF GuardInv, Issued, OpeningFresh
  <1>9. SeqBounds'
    BY <1>1, <1>5, <1>6 DEF GuardInv, SeqBounds
  <1>10. QED
    BY <1>1, <1>7, <1>8, <1>9 DEF GuardInv, OneLeasePerTopic, HandlesHaveSessions,
       FencedByLease, PublishedInOrder, TicketsReserved, NewestLease

\* The new handle is unknown to the history and to every ticket.
LEMMA InvOpenHandleReturn ==
  ASSUME TypeOK, GuardInv, OpenHandleReturn
  PROVE  GuardInv'
  <1> DEFINE c == Top
             new == [session |-> c.session, epoch |-> c.epoch,
                     topic |-> c.topic, leaseMs |-> c.leaseMs,
                     lease |-> NoLease, received |-> -1, published |-> -1]
  <1>1. /\ UNCHANGED <<sessions, nextId, closed, tickets, toRos>>
        /\ c.session \in DOMAIN sessions
    BY DEF OpenHandleReturn, SessionStillOpen
  <1>2. handles' = [h \in DOMAIN handles \cup {c.handle} |->
                      IF h = c.handle THEN new ELSE handles[h]]
    BY DEF OpenHandleReturn
  <1>3. calls # <<>> /\ c.phase = "open" /\ calls' = SubSeq(calls, 1, Len(calls) - 1)
    BY DEF OpenHandleReturn, Leave
  <1>4. /\ OpenFrames' \subseteq OpenFrames /\ PublishFrames' \subseteq PublishFrames
        /\ \A i \in DOMAIN calls' : calls'[i] = calls[i] /\ i # Len(calls)
        /\ Len(calls) \in OpenFrames /\ calls[Len(calls)] = c
    BY <1>3, PopFrames DEF Top
  <1>5. /\ new.session = c.session /\ new.topic = c.topic /\ new.lease = NoLease
        /\ NoLease.id = 0 /\ new.received = -1 /\ new.published = -1
    BY DEF NoLease
  <1>6. OpenFrames' \subseteq DOMAIN calls' /\ PublishFrames' \subseteq DOMAIN calls'
    BY DEF OpenFrames, PublishFrames
  <1> HIDE DEF c, new
  <1>7. /\ c.handle \notin DOMAIN handles
        /\ c.handle <= nextId
        /\ \A j \in DOMAIN toRos : toRos[j].handle # c.handle
        /\ \A r \in tickets : r.handle # c.handle
        /\ \A j \in PublishFrames : calls[j].request.handle # c.handle
        /\ \A j \in OpenFrames : j # Len(calls) => calls[j].handle # c.handle
    BY <1>4 DEF GuardInv, OpeningFresh, Issued
  <1>8. /\ DOMAIN handles' = DOMAIN handles \cup {c.handle}
        /\ handles'[c.handle] = new
        /\ \A h \in DOMAIN handles : handles'[h] = handles[h]
    BY <1>2, <1>7
  <1>9. OneLeasePerTopic' /\ HandlesHaveSessions'
    BY <1>1, <1>5, <1>8 DEF GuardInv, OneLeasePerTopic, HandlesHaveSessions
  <1>10. Issued'
    BY <1>1, <1>4, <1>5, <1>6, <1>7, <1>8, Numbers DEF GuardInv, Issued
  <1>11. OpeningFresh'
    BY <1>1, <1>4, <1>6, <1>7, <1>8 DEF GuardInv, OpeningFresh
  <1>12. TicketsReserved' /\ SeqBounds'
    BY <1>1, <1>4, <1>5, <1>6, <1>7, <1>8 DEF GuardInv, TicketsReserved, SeqBounds
  <1>13. FencedByLease' /\ PublishedInOrder' /\ NewestLease'
    BY <1>1, <1>5, <1>8 DEF GuardInv, FencedByLease, PublishedInOrder, NewestLease
  <1>14. QED
    BY <1>9, <1>10, <1>11, <1>12, <1>13 DEF GuardInv

\* A frame of phase arm or receive says nothing the invariant is about.
LEMMA InvEnter ==
  ASSUME TypeOK, GuardInv, NEW f \in Frame, f.phase \in {"arm", "receive"},
         calls' = Append(calls, f),
         UNCHANGED <<sessions, handles, nextId, closed, tickets, toRos>>
  PROVE  GuardInv'
  <1>1. /\ OpenFrames' = OpenFrames /\ PublishFrames' = PublishFrames
        /\ \A i \in DOMAIN calls : calls'[i] = calls[i]
    BY PushFrames
  <1>2. OpenFrames \subseteq DOMAIN calls /\ PublishFrames \subseteq DOMAIN calls
    BY DEF OpenFrames, PublishFrames
  <1>3. Issued' /\ OpeningFresh' /\ SeqBounds'
    BY <1>1, <1>2 DEF GuardInv, Issued, OpeningFresh, SeqBounds
  <1>4. QED
    BY <1>3 DEF GuardInv, OneLeasePerTopic, HandlesHaveSessions,
       FencedByLease, PublishedInOrder, TicketsReserved, NewestLease

\* An operation that throws after its hook.
LEMMA InvPop ==
  ASSUME TypeOK, GuardInv, calls # <<>>, calls' = SubSeq(calls, 1, Len(calls) - 1),
         UNCHANGED <<sessions, handles, nextId, closed, tickets, toRos>>
  PROVE  GuardInv'
  <1>1. /\ OpenFrames' \subseteq OpenFrames /\ PublishFrames' \subseteq PublishFrames
        /\ \A i \in DOMAIN calls' : calls'[i] = calls[i]
    BY PopFrames
  <1>2. OpenFrames' \subseteq DOMAIN calls' /\ PublishFrames' \subseteq DOMAIN calls'
    BY DEF OpenFrames, PublishFrames
  <1>3. Issued' /\ OpeningFresh' /\ SeqBounds'
    BY <1>1, <1>2 DEF GuardInv, Issued, OpeningFresh, SeqBounds
  <1>4. QED
    BY <1>3 DEF GuardInv, OneLeasePerTopic, HandlesHaveSessions,
       FencedByLease, PublishedInOrder, TicketsReserved, NewestLease

\* arm's return keeps the invariant: the new lease is newer than everything
\* published, and every other lease of the topic is cleared.
LEMMA InvArmReturn ==
  ASSUME TypeOK, GuardInv, NEW now \in Times, ArmReturn(now)
  PROVE  GuardInv'
  <1> DEFINE h == Top.handle
             e == now + handles[h].leaseMs
             l == [id |-> nextId + 1, expiresAt |-> e]
  <1>1. /\ calls # <<>> /\ calls' = SubSeq(calls, 1, Len(calls) - 1)
        /\ h \in DOMAIN handles
        /\ UNCHANGED <<sessions, closed, tickets, toRos>>
    BY DEF ArmReturn, Leave, Owned
  <1>2. CASE UNCHANGED <<handles, nextId>>
    BY <1>1, <1>2, InvPop
  <1>3. CASE /\ ~ClockExhausted(e) /\ IdLeft
             /\ nextId' = nextId + 1
             /\ handles' = GrantLease(h, l)
    <2>1. l \in Lease
      <3>1. handles[h].leaseMs \in Nat
        BY <1>1, GuardAssumption DEF TypeOK, HandleState
      <3>2. nextId + 1 \in 0 .. MaxId /\ e \in Times
        BY <1>3, <3>1, GuardAssumption DEF TypeOK, IdLeft, ClockExhausted, Times
      <3>3. QED
        BY <3>2 DEF Lease
    <2>2. l.id = nextId + 1 /\ NoLease.id = 0
      BY DEF NoLease
    <2> HIDE DEF l, h
    <2>3. /\ DOMAIN handles' = DOMAIN handles
          /\ \A k \in DOMAIN handles :
               /\ handles'[k].session = handles[k].session
               /\ handles'[k].topic = handles[k].topic
               /\ handles'[k].received = handles[k].received
               /\ handles'[k].published = handles[k].published
               /\ handles'[k].lease = IF k = h THEN l
                                      ELSE IF handles[k].topic = handles[h].topic
                                           THEN NoLease ELSE handles[k].lease
      BY <1>1, <1>3, <2>1, GrantLeaseProperties
    <2>4. /\ OpenFrames' \subseteq OpenFrames /\ PublishFrames' \subseteq PublishFrames
          /\ \A i \in DOMAIN calls' : calls'[i] = calls[i]
      BY <1>1, PopFrames
    <2>5. OpenFrames' \subseteq DOMAIN calls' /\ PublishFrames' \subseteq DOMAIN calls'
      BY DEF OpenFrames, PublishFrames
    <2>6. nextId' = nextId + 1 /\ UNCHANGED <<sessions, closed, tickets, toRos>>
      BY <1>1, <1>3
    <2>7. OneLeasePerTopic' /\ HandlesHaveSessions'
      BY <1>1, <2>3, <2>6 DEF GuardInv, OneLeasePerTopic, HandlesHaveSessions
    <2>8. Issued'
      BY <2>2, <2>3, <2>4, <2>5, <2>6, Numbers DEF GuardInv, Issued
    <2>9. NewestLease'
      <3> SUFFICES ASSUME NEW k \in DOMAIN handles, NEW i \in DOMAIN toRos,
                          handles'[k].lease # NoLease, toRos[i].topic = handles[k].topic
                   PROVE  toRos[i].lease <= handles'[k].lease.id
        BY <2>3, <2>6 DEF NewestLease
      <3>1. CASE k = h
        <4>1. toRos[i].lease <= nextId /\ toRos[i].lease \in Nat /\ nextId \in Nat
          BY Numbers DEF GuardInv, Issued
        <4>2. QED
          BY <2>2, <2>3, <3>1, <4>1
      <3>2. CASE k # h
        BY <2>3, <3>2 DEF GuardInv, NewestLease
      <3>3. QED
        BY <3>1, <3>2
    <2>10. OpeningFresh'
      BY <2>3, <2>4, <2>5, <2>6 DEF GuardInv, OpeningFresh
    <2>11. TicketsReserved' /\ SeqBounds'
      BY <2>3, <2>4, <2>5, <2>6 DEF GuardInv, TicketsReserved, SeqBounds
    <2>12. QED
      BY <2>6, <2>7, <2>8, <2>9, <2>10, <2>11
         DEF GuardInv, FencedByLease, PublishedInOrder
  <1>4. QED
    BY <1>2, <1>3 DEF ArmReturn

\* prepare's return keeps the invariant: the ticket carries a number above all
\* those received before it.
LEMMA InvPrepareReturn ==
  ASSUME TypeOK, GuardInv, NEW now \in Times, PrepareReturn(now)
  PROVE  GuardInv'
  <1> DEFINE r == Top.request
  <1>1. calls # <<>> /\ calls' = SubSeq(calls, 1, Len(calls) - 1) /\ Top.phase = "receive"
    BY DEF PrepareReturn, Leave
  <1>2. UNCHANGED <<sessions, nextId, closed, toRos>> /\ r.handle \in DOMAIN handles
    BY DEF PrepareReturn, LeaseMatches, Owned
  <1>3. CASE UNCHANGED <<handles, tickets>>
    BY <1>1, <1>2, <1>3, InvPop
  <1>4. CASE /\ r.seq > handles[r.handle].received
             /\ handles' = [handles EXCEPT ![r.handle].received = r.seq]
             /\ tickets' = tickets \cup {r}
    <2>1. r \in Request /\ r.seq \in Nat /\ r.handle \in Nat
      BY <1>1, TopFrame, Numbers
    <2> HIDE DEF r
    <2>2. \A k \in DOMAIN handles : handles[k] \in HandleState
      BY DEF TypeOK
    <2>3. /\ DOMAIN handles' = DOMAIN handles
          /\ \A k \in DOMAIN handles :
               /\ handles'[k].session = handles[k].session
               /\ handles'[k].topic = handles[k].topic
               /\ handles'[k].lease = handles[k].lease
               /\ handles'[k].published = handles[k].published
               /\ handles'[k].received = IF k = r.handle THEN r.seq
                                         ELSE handles[k].received
      BY <1>4, <2>2 DEF HandleState
    <2>4. /\ OpenFrames' \subseteq OpenFrames /\ PublishFrames' \subseteq PublishFrames
          /\ \A i \in DOMAIN calls' : calls'[i] = calls[i]
      BY <1>1, PopFrames
    <2>5. OpenFrames' \subseteq DOMAIN calls' /\ PublishFrames' \subseteq DOMAIN calls'
      BY DEF OpenFrames, PublishFrames
    <2>6. OneLeasePerTopic' /\ HandlesHaveSessions' /\ NewestLease'
      BY <1>2, <2>3 DEF GuardInv, OneLeasePerTopic, HandlesHaveSessions, NewestLease
    <2>7. Issued' /\ OpeningFresh'
      BY <1>2, <1>4, <2>3, <2>4, <2>5 DEF GuardInv, Issued, OpeningFresh
    <2>8. TicketsReserved'
      BY <1>2, <1>4, <2>1, <2>3, Numbers DEF GuardInv, TicketsReserved
    <2>9. SeqBounds'
      BY <1>2, <1>4, <2>1, <2>3, <2>4, <2>5, Numbers DEF GuardInv, SeqBounds
    <2>10. QED
      BY <1>2, <2>6, <2>7, <2>8, <2>9 DEF GuardInv, FencedByLease, PublishedInOrder
  <1>5. QED
    BY <1>3, <1>4 DEF PrepareReturn, NewerThanReceived

\* ticket.publish keeps the invariant: the spent ticket lives on in its frame.
LEMMA InvPublish ==
  ASSUME TypeOK, GuardInv, NEW r \in tickets, Publish(r)
  PROVE  GuardInv'
  <1> DEFINE f == [phase |-> "publish", request |-> r]
             n == Len(calls) + 1
  <1>1. /\ UNCHANGED <<sessions, handles, nextId, closed, toRos>>
        /\ tickets' = tickets \ {r}
    BY DEF Publish
  <1>2. f \in Frame /\ f.phase = "publish" /\ f.request = r
    BY DEF TypeOK, Frame
  <1>3. CASE calls' = calls
    <2>1. OpenFrames' = OpenFrames /\ PublishFrames' = PublishFrames
      BY <1>3 DEF OpenFrames, PublishFrames
    <2>2. QED
      BY <1>1, <1>3, <2>1 DEF GuardInv, OneLeasePerTopic, HandlesHaveSessions,
         FencedByLease, PublishedInOrder, TicketsReserved, Issued, OpeningFresh,
         NewestLease, SeqBounds
  <1>4. CASE calls' = Append(calls, f)
    <2> HIDE DEF f, n
    <2>1. /\ OpenFrames' = OpenFrames /\ PublishFrames' = PublishFrames \cup {n}
          /\ \A i \in DOMAIN calls : calls'[i] = calls[i]
          /\ calls'[n] = f /\ n \notin DOMAIN calls
      BY <1>2, <1>4, PushFrames DEF n
    <2>2. OpenFrames \subseteq DOMAIN calls /\ PublishFrames \subseteq DOMAIN calls
      BY DEF OpenFrames, PublishFrames
    <2>3. Issued' /\ OpeningFresh'
      BY <1>1, <1>2, <2>1, <2>2 DEF GuardInv, Issued, OpeningFresh
    <2>4. SeqBounds' /\ TicketsReserved'
      BY <1>1, <1>2, <2>1, <2>2 DEF GuardInv, SeqBounds, TicketsReserved
    <2>5. QED
      BY <1>1, <2>3, <2>4 DEF GuardInv, OneLeasePerTopic, HandlesHaveSessions,
         FencedByLease, PublishedInOrder, NewestLease
  <1>5. QED
    BY <1>3, <1>4 DEF Publish, Enter

\* The heart of the argument: the publisher holds the only lease of the topic,
\* the newest one, and its sequence number is above all it published.
LEMMA InvPublishReturn ==
  ASSUME TypeOK, GuardInv, NEW now \in Times, PublishReturn(now)
  PROVE  GuardInv'
  <1> DEFINE r == Top.request
             p == [topic |-> handles[r.handle].topic, session |-> r.session,
                   handle |-> r.handle, lease |-> r.lease, seq |-> r.seq]
             n == Len(toRos) + 1
  <1>1. calls # <<>> /\ calls' = SubSeq(calls, 1, Len(calls) - 1) /\ Top.phase = "publish"
    BY DEF PublishReturn, Leave
  <1>2. /\ UNCHANGED <<sessions, nextId, closed, tickets>>
        /\ r.handle \in DOMAIN handles /\ handles[r.handle].lease.id = r.lease
    BY DEF PublishReturn, LeaseMatches, Owned
  <1>3. CASE UNCHANGED <<handles, toRos>>
    BY <1>1, <1>2, <1>3, InvPop
  <1>4. CASE /\ r.seq > handles[r.handle].published
             /\ handles' = [handles EXCEPT ![r.handle].published = r.seq]
             /\ toRos' = Append(toRos, p)
    <2>1. /\ r \in Request /\ r.seq \in Nat /\ r.handle \in Nat
          /\ r.lease \in Nat /\ r.lease > 0
      BY <1>1, TopFrame, Numbers
    <2>2. /\ p.topic = handles[r.handle].topic /\ p.handle = r.handle
          /\ p.lease = r.lease /\ p.seq = r.seq
      OBVIOUS
    <2>3. Top = calls[Len(calls)] /\ Len(calls) \in PublishFrames
      BY <1>1, PopFrames DEF Top
    <2>4. r.seq <= handles[r.handle].received
      BY <1>2, <2>3 DEF GuardInv, SeqBounds
    <2>5. p \in Publication
      BY <1>2, <2>1 DEF TypeOK, HandleState, Publication, Request
    <2>6. handles[r.handle].lease # NoLease
      BY <1>2, <2>1 DEF NoLease
    <2> HIDE DEF r, p, n
    <2>7. \A k \in DOMAIN handles : handles[k] \in HandleState
      BY DEF TypeOK
    <2>8. /\ DOMAIN handles' = DOMAIN handles
          /\ \A k \in DOMAIN handles :
               /\ handles'[k].session = handles[k].session
               /\ handles'[k].topic = handles[k].topic
               /\ handles'[k].lease = handles[k].lease
               /\ handles'[k].received = handles[k].received
               /\ handles'[k].published = IF k = r.handle THEN r.seq
                                          ELSE handles[k].published
      BY <1>4, <2>7 DEF HandleState
    <2>9. /\ DOMAIN toRos' = DOMAIN toRos \cup {n}
          /\ \A i \in DOMAIN toRos : toRos'[i] = toRos[i] /\ i \in Nat /\ i < n
          /\ toRos'[n] = p /\ n \in Nat
      <3>1. \A i \in DOMAIN toRos : i \in Nat /\ i < n
        BY DEF TypeOK, n
      <3>2. n \in Nat
        BY DEF TypeOK, n
      <3>3. QED
        BY <1>4, <2>5, <3>1, <3>2, PushProperties DEF TypeOK, n
    <2>10. /\ OpenFrames' \subseteq OpenFrames /\ PublishFrames' \subseteq PublishFrames
           /\ \A i \in DOMAIN calls' : calls'[i] = calls[i]
      BY <1>1, PopFrames
    <2>11. OpenFrames' \subseteq DOMAIN calls' /\ PublishFrames' \subseteq DOMAIN calls'
      BY DEF OpenFrames, PublishFrames
    <2>12. OneLeasePerTopic' /\ HandlesHaveSessions'
      BY <1>2, <2>8 DEF GuardInv, OneLeasePerTopic, HandlesHaveSessions
    <2>13. Issued' /\ OpeningFresh'
      BY <1>2, <2>2, <2>8, <2>9, <2>10, <2>11 DEF GuardInv, Issued, OpeningFresh
    <2>14. TicketsReserved'
      BY <1>2, <2>4, <2>8 DEF GuardInv, TicketsReserved
    <2>15. SeqBounds'
      <3>1. r.seq > handles[r.handle].published
        BY <1>4
      <3>2. ASSUME NEW i \in DOMAIN toRos', toRos'[i].handle \in DOMAIN handles
            PROVE  toRos'[i].seq <= handles'[toRos'[i].handle].published
        <4>1. CASE i = n
          BY <2>1, <2>2, <2>8, <2>9, <3>2, <4>1
        <4>2. CASE i \in DOMAIN toRos
          <5>1. toRos[i].seq <= handles[toRos[i].handle].published
            BY <2>9, <3>2, <4>2 DEF GuardInv, SeqBounds
          <5>2. QED
            BY <2>1, <2>8, <2>9, <3>1, <3>2, <4>2, <5>1, Numbers
        <4>3. QED
          BY <2>9, <4>1, <4>2
      <3>3. ASSUME NEW i \in PublishFrames', calls'[i].request.handle \in DOMAIN handles
            PROVE  calls'[i].request.seq <= handles'[calls'[i].request.handle].received
        BY <2>8, <2>10, <2>11, <3>3 DEF GuardInv, SeqBounds
      <3>4. QED
        BY <2>8, <3>2, <3>3 DEF SeqBounds
    <2>16. \A i \in DOMAIN toRos : toRos[i].topic = p.topic => toRos[i].lease <= p.lease
      BY <1>2, <2>2, <2>6 DEF GuardInv, NewestLease
    <2>17. \A i \in DOMAIN toRos : toRos[i].handle = p.handle => toRos[i].seq < p.seq
      BY <1>2, <1>4, <2>1, <2>2, Numbers DEF GuardInv, SeqBounds
    <2>18. FencedByLease' /\ PublishedInOrder'
      BY <2>9, <2>16, <2>17 DEF GuardInv, FencedByLease, PublishedInOrder
    <2>19. NewestLease'
      BY <1>2, <2>1, <2>2, <2>6, <2>8, <2>9 DEF GuardInv, NewestLease, OneLeasePerTopic
    <2>20. QED
      BY <2>12, <2>13, <2>14, <2>15, <2>18, <2>19 DEF GuardInv
  <1>5. QED
    BY <1>3, <1>4 DEF PublishReturn, NewerThanPublished

\* Removing handles, with or without their sessions.
LEMMA InvRelease ==
  ASSUME TypeOK, GuardInv,
         \/ \E s, h \in Ids : CloseHandle(s, h)
         \/ \E s \in Ids : RevokeSession(s)
         \/ Close
  PROVE  GuardInv'
  <1>1. /\ UNCHANGED <<nextId, tickets, calls, toRos>>
        /\ DOMAIN handles' \subseteq DOMAIN handles
        /\ \A h \in DOMAIN handles' : handles'[h] = handles[h]
    BY DEF CloseHandle, RevokeSession, Close, Keep, NoEntries
  <1>2. OpenFrames' = OpenFrames /\ PublishFrames' = PublishFrames
    BY <1>1 DEF OpenFrames, PublishFrames
  <1>3. HandlesHaveSessions'
    <2>1. ASSUME NEW s \in Ids, NEW h \in Ids, CloseHandle(s, h)
          PROVE  HandlesHaveSessions'
      BY <1>1, <2>1 DEF GuardInv, HandlesHaveSessions, CloseHandle
    <2>2. ASSUME NEW s \in Ids, RevokeSession(s)
          PROVE  HandlesHaveSessions'
      <3>1. /\ DOMAIN sessions' = DOMAIN sessions \ {s} /\ closed' = closed
            /\ \A h \in DOMAIN handles' : handles[h].session # s
        BY <2>2 DEF RevokeSession, Keep, OthersHandles
      <3>2. QED
        BY <1>1, <3>1 DEF GuardInv, HandlesHaveSessions
    <2>3. CASE Close
      <3>1. DOMAIN handles' = {} /\ DOMAIN sessions' = {}
        BY <2>3 DEF Close, NoEntries
      <3>2. QED
        BY <3>1 DEF HandlesHaveSessions
    <2>4. QED
      BY <2>1, <2>2, <2>3
  <1>4. Issued' /\ OpeningFresh'
    BY <1>1, <1>2 DEF GuardInv, Issued, OpeningFresh
  <1>5. TicketsReserved' /\ SeqBounds' /\ NewestLease' /\ OneLeasePerTopic'
    BY <1>1, <1>2 DEF GuardInv, TicketsReserved, SeqBounds, NewestLease, OneLeasePerTopic
  <1>6. QED
    BY <1>1, <1>3, <1>4, <1>5 DEF GuardInv, FencedByLease, PublishedInOrder

\* The invariant is inductive: every operation of the guard keeps it.
LEMMA InvNext == TypeOK /\ GuardInv /\ [Next]_vars => GuardInv'
  <1> SUFFICES ASSUME TypeOK, GuardInv, [Next]_vars PROVE GuardInv'
    OBVIOUS
  <1>1. ASSUME NEW s \in Ids, NEW h \in Ids, Arm(s, h) PROVE GuardInv'
    <2> DEFINE f == [phase |-> "arm", session |-> s, handle |-> h]
    <2>1. f \in Frame /\ f.phase \in {"arm", "receive"}
      BY DEF Frame
    <2>2. /\ calls' = Append(calls, f)
          /\ UNCHANGED <<sessions, handles, nextId, closed, tickets, toRos>>
      BY <1>1 DEF Arm, Enter
    <2> HIDE DEF f
    <2>3. QED
      BY <2>1, <2>2, InvEnter
  <1>2. ASSUME NEW r \in Request, Prepare(r) PROVE GuardInv'
    <2> DEFINE f == [phase |-> "receive", request |-> r]
    <2>1. f \in Frame /\ f.phase \in {"arm", "receive"}
      BY DEF Frame
    <2>2. /\ calls' = Append(calls, f)
          /\ UNCHANGED <<sessions, handles, nextId, closed, tickets, toRos>>
      BY <1>2 DEF Prepare, Enter
    <2> HIDE DEF f
    <2>3. QED
      BY <2>1, <2>2, InvEnter
  <1>3. ASSUME NEW h \in DOMAIN handles, NEW e \in Epochs, NEW l \in WireLeases,
               NEW q \in Seqs,
               Prepare([session |-> handles[h].session, epoch |-> e,
                        handle |-> h, lease |-> l, seq |-> q])
        PROVE  GuardInv'
    BY <1>2, <1>3, WireRequest
  <1>4. CASE Throw
    BY <1>4, InvPop DEF Throw
  <1>5. CASE UNCHANGED vars
    BY <1>5 DEF vars, GuardInv, OneLeasePerTopic, HandlesHaveSessions, FencedByLease,
       PublishedInOrder, TicketsReserved, Issued, OpeningFresh, NewestLease, SeqBounds,
       OpenFrames, PublishFrames
  <1>6. QED
    BY <1>1, <1>3, <1>4, <1>5, InvOpenSession, InvOpenHandle, InvOpenHandleReturn,
       InvArmReturn, InvPrepareReturn, InvPublish, InvPublishReturn, InvRelease DEF Next

\* The inductive invariant holds of every behaviour of the guard, hooks that
\* call back into it included.
THEOREM GuardInvariant == Spec => []GuardInv
  BY TypeCorrect, InvInit, InvNext, PTL DEF Spec

\* A topic never has two writers at once, for any number of sessions and handles.
THEOREM SingleWriter == Spec => []OneLeasePerTopic
  <1>1. GuardInv => OneLeasePerTopic
    BY DEF GuardInv
  <1>2. QED
    BY <1>1, GuardInvariant, PTL

\* A command under a superseded lease never follows one under a newer lease.
THEOREM LeaseFencing == Spec => []FencedByLease
  <1>1. GuardInv => FencedByLease
    BY DEF GuardInv
  <1>2. QED
    BY <1>1, GuardInvariant, PTL

\* Commands of a handle reach ROS at most once and in sequence order.
THEOREM AtMostOnceInOrder == Spec => []PublishedInOrder
  <1>1. GuardInv => PublishedInOrder
    BY DEF GuardInv
  <1>2. QED
    BY <1>1, GuardInvariant, PTL

\* No handle outlives its session, whatever the hooks do.
THEOREM NoOrphanHandle == Spec => []HandlesHaveSessions
  <1>1. GuardInv => HandlesHaveSessions
    BY DEF GuardInv
  <1>2. QED
    BY <1>1, GuardInvariant, PTL

\* Only the holder of a live lease, in a registered session, reaches ROS.
THEOREM PublishSafety == Spec => PublishUnderLiveLease
  <1> DEFINE Safe ==
        \A i \in DOMAIN toRos' \ DOMAIN toRos :
          LET p == toRos'[i] IN
          /\ ~closed
          /\ p.session \in DOMAIN sessions
          /\ p.handle \in DOMAIN handles
          /\ handles[p.handle].session = p.session
          /\ handles[p.handle].lease.id = p.lease
          /\ lastTime' < handles[p.handle].lease.expiresAt
  <1>1. TypeOK /\ GuardInv /\ [Next]_vars => [Safe]_vars
    <2> SUFFICES ASSUME TypeOK, GuardInv, Next PROVE Safe
      OBVIOUS
    <2>1. CASE toRos' = toRos
      BY <2>1
    <2>2. ASSUME NEW now \in Times, PublishReturn(now), toRos' # toRos PROVE Safe
      <3> DEFINE r == Top.request
                 p == [topic |-> handles[r.handle].topic, session |-> r.session,
                       handle |-> r.handle, lease |-> r.lease, seq |-> r.seq]
      <3>1. /\ Owned(r.session, r.handle) /\ handles[r.handle].lease.id = r.lease
            /\ lastTime' = now /\ now < handles[r.handle].lease.expiresAt
            /\ toRos' = Append(toRos, p)
        BY <2>2 DEF PublishReturn, LeaseMatches, ReadClock, Unexpired
      <3>2. p.session = r.session /\ p.handle = r.handle /\ p.lease = r.lease
        OBVIOUS
      <3>3. TypeOK'
        BY <2>2, TypePublishReturn
      <3> HIDE DEF r, p
      <3>4. DOMAIN toRos' \ DOMAIN toRos \subseteq {Len(toRos) + 1} /\ toRos'[Len(toRos) + 1] = p
        BY <3>1, <3>3 DEF TypeOK
      <3>5. r.session \in DOMAIN sessions
        BY <3>1 DEF Owned, GuardInv, HandlesHaveSessions
      <3>6. QED
        BY <3>1, <3>2, <3>4, <3>5 DEF Owned
    <2>3. QED
      BY <2>1, <2>2 DEF Next, OpenSession, OpenHandle, OpenHandleReturn, Arm, ArmReturn,
         Prepare, PrepareReturn, Publish, Throw, CloseHandle, RevokeSession, Close
  <1>2. QED
    BY <1>1, TypeCorrect, GuardInvariant, PTL DEF Spec, PublishUnderLiveLease

\* The limits on sessions and handles are never passed: handles the hook registered
\* while openHandle waited are counted again after it.
THEOREM WithinLimits == Spec => []ResourceBounds
  <1>1. Init => ResourceBounds
    <2>1. ASSUME Init PROVE DOMAIN sessions = {} /\ DOMAIN handles = {}
      BY <2>1 DEF Init, NoEntries
    <2>2. QED
      BY <2>1, FS_EmptySet, GuardAssumption DEF ResourceBounds
  <1>2. TypeOK /\ ResourceBounds /\ [Next]_vars => ResourceBounds'
    <2> SUFFICES ASSUME TypeOK, ResourceBounds, [Next]_vars PROVE ResourceBounds'
      OBVIOUS
    <2>1. /\ IsFiniteSet(DOMAIN sessions) /\ Cardinality(DOMAIN sessions) \in Nat
          /\ IsFiniteSet(DOMAIN handles) /\ Cardinality(DOMAIN handles) \in Nat
      <3>1. IsFiniteSet(Ids)
        BY FS_Interval, GuardAssumption DEF Ids
      <3>2. DOMAIN sessions \in SUBSET Ids /\ DOMAIN handles \in SUBSET Ids
        BY DEF TypeOK
      <3>3. IsFiniteSet(DOMAIN sessions) /\ IsFiniteSet(DOMAIN handles)
        BY <3>1, <3>2, FS_Subset
      <3>4. QED
        BY <3>3, FS_CardinalityType
    <2>2. ASSUME NEW e \in Epochs, OpenSession(e) PROVE ResourceBounds'
      <3>1. DOMAIN sessions' = DOMAIN sessions \cup {nextId + 1} /\ handles' = handles
        BY <2>2 DEF OpenSession
      <3>2. \/ Cardinality(DOMAIN sessions') = Cardinality(DOMAIN sessions) + 1
            \/ Cardinality(DOMAIN sessions') = Cardinality(DOMAIN sessions)
        BY <2>1, <3>1, FS_AddElement
      <3>3. Cardinality(DOMAIN sessions') \in Nat
        BY <2>1, <3>1, FS_AddElement, FS_CardinalityType
      <3>4. QED
        BY <2>1, <2>2, <3>1, <3>2, <3>3, GuardAssumption DEF OpenSession, ResourceBounds
    <2>3. CASE OpenHandleReturn
      <3>1. DOMAIN handles' = DOMAIN handles \cup {Top.handle} /\ sessions' = sessions
        BY <2>3 DEF OpenHandleReturn
      <3>2. \/ Cardinality(DOMAIN handles') = Cardinality(DOMAIN handles) + 1
            \/ Cardinality(DOMAIN handles') = Cardinality(DOMAIN handles)
        BY <2>1, <3>1, FS_AddElement
      <3>3. Cardinality(DOMAIN handles') \in Nat
        BY <2>1, <3>1, FS_AddElement, FS_CardinalityType
      <3>4. QED
        BY <2>1, <2>3, <3>1, <3>2, <3>3, GuardAssumption
           DEF OpenHandleReturn, HandleRoom, ResourceBounds
    <2>4. CASE DOMAIN sessions' \subseteq DOMAIN sessions /\ DOMAIN handles' \subseteq DOMAIN handles
      <3>1. /\ Cardinality(DOMAIN sessions') <= Cardinality(DOMAIN sessions)
            /\ Cardinality(DOMAIN handles') <= Cardinality(DOMAIN handles)
            /\ Cardinality(DOMAIN sessions') \in Nat /\ Cardinality(DOMAIN handles') \in Nat
        BY <2>1, <2>4, FS_Subset, FS_CardinalityType
      <3>2. QED
        BY <2>1, <3>1, GuardAssumption DEF ResourceBounds
    <2>5. QED
      BY <2>2, <2>3, <2>4 DEF Next, vars, OpenHandle, Arm, ArmReturn, GrantLease, Prepare,
         PrepareReturn, Publish, PublishReturn, Throw, CloseHandle, RevokeSession, Close,
         Keep, NoEntries
  <1>3. QED
    BY <1>1, <1>2, TypeCorrect, PTL DEF Spec

\* A lease ends before its time only by its own session's rearm or with its handle.
THEOREM NoTheft == Spec => NoLeaseStolen
  <1> DEFINE Safe ==
        \A h \in DOMAIN handles \cap DOMAIN handles' :
          handles[h].lease # NoLease /\ handles'[h].lease # handles[h].lease
          => \/ lastTime' >= handles[h].lease.expiresAt
             \/ \E k \in DOMAIN handles :
                  /\ handles[k].session = handles[h].session
                  /\ handles'[k].lease.id > nextId
  <1>1. TypeOK /\ GuardInv /\ [Next]_vars => [Safe]_vars
    <2> SUFFICES ASSUME TypeOK, GuardInv, Next PROVE Safe
      OBVIOUS
    <2>1. CASE \A h \in DOMAIN handles \cap DOMAIN handles' : handles'[h].lease = handles[h].lease
      BY <2>1
    <2>2. ASSUME NEW now \in Times, ArmReturn(now), handles' # handles PROVE Safe
      <3> DEFINE g == Top.handle
                 l == [id |-> nextId + 1, expiresAt |-> now + handles[g].leaseMs]
      <3>1. /\ g \in DOMAIN handles /\ handles[g].session = Top.session /\ lastTime' = now
            /\ ~WriterBusy(Top.session, handles[g].topic, now)
            /\ ~ClockExhausted(now + handles[g].leaseMs) /\ IdLeft
            /\ handles' = GrantLease(g, l)
        BY <2>2 DEF ArmReturn, Owned, ReadClock
      <3>2. l \in Lease /\ l.id = nextId + 1 /\ nextId \in Nat
        <4>1. handles[g].leaseMs \in Nat
          BY <3>1, GuardAssumption DEF TypeOK, HandleState
        <4>2. QED
          BY <3>1, <4>1, GuardAssumption DEF TypeOK, Lease, IdLeft, ClockExhausted, Times
      <3> HIDE DEF g, l
      <3>3. /\ DOMAIN handles' = DOMAIN handles
            /\ \A k \in DOMAIN handles :
                 handles'[k].lease = IF k = g THEN l
                                     ELSE IF handles[k].topic = handles[g].topic
                                          THEN NoLease ELSE handles[k].lease
        BY <3>1, <3>2, GrantLeaseProperties
      <3>4. handles'[g].lease.id > nextId
        BY <3>1, <3>2, <3>3
      <3>5. ASSUME NEW h \in DOMAIN handles, handles[h].lease # NoLease,
                   handles'[h].lease # handles[h].lease, ~(now >= handles[h].lease.expiresAt)
            PROVE  handles[h].session = handles[g].session
        <4>1. now \in Int /\ handles[h].lease.expiresAt \in Int
          BY GuardAssumption DEF TypeOK, HandleState, Lease, Times
        <4>2. handles[h].topic = handles[g].topic
          BY <3>3, <3>5
        <4>3. QED
          BY <3>1, <3>5, <4>1, <4>2 DEF WriterBusy
      <3>6. QED
        BY <3>1, <3>4, <3>5
    <2>3. CASE OpenHandleReturn
      <3>1. Top = calls[Len(calls)] /\ Len(calls) \in OpenFrames
        BY <2>3, PopFrames DEF OpenHandleReturn, Leave, Top
      <3>2. Top.handle \notin DOMAIN handles
        BY <3>1 DEF GuardInv, OpeningFresh
      <3>3. \A h \in DOMAIN handles : handles'[h] = handles[h]
        BY <2>3, <3>2 DEF OpenHandleReturn
      <3>4. QED
        BY <2>1, <3>3
    <2>4. ASSUME NEW now \in Times, PrepareReturn(now) \/ PublishReturn(now) PROVE Safe
      <3>1. \A h \in DOMAIN handles : handles[h] \in HandleState
        BY DEF TypeOK
      <3>2. QED
        BY <2>1, <2>4, <3>1 DEF PrepareReturn, PublishReturn, HandleState
    <2>5. QED
      BY <2>1, <2>2, <2>3, <2>4 DEF Next, OpenSession, OpenHandle, Arm, Prepare, Publish,
         Throw, CloseHandle, RevokeSession, Close, Keep, NoEntries
  <1>2. QED
    BY <1>1, TypeCorrect, GuardInvariant, PTL DEF Spec, NoLeaseStolen

-----------------------------------------------------------------------------
(***************************************************************************)
(* The command guard implements WriterAuthority: every step of the guard   *)
(* is, under the refinement mapping Writer, a step of the abstract         *)
(* authority or leaves it alone.  The invariants above carry the argument: *)
(* a topic has one holder, whose lease is the newest.                      *)
(***************************************************************************)

\* What the mapping shows for a topic: its only holder, or nobody.
LEMMA WriterProperties ==
  ASSUME OneLeasePerTopic, NEW t \in Topics
  PROVE  /\ \A h \in Holders(t) : Writer[t] = WriterOf(h)
         /\ Holders(t) = {} => Writer[t] = Nobody
  <1>1. ASSUME NEW h \in Holders(t) PROVE Writer[t] = WriterOf(h)
    <2>1. (CHOOSE k \in Holders(t) : TRUE) \in Holders(t)
      BY <1>1
    <2>2. (CHOOSE k \in Holders(t) : TRUE) = h
      BY <1>1, <2>1 DEF OneLeasePerTopic, Holders
    <2>3. QED
      BY <1>1, <2>2 DEF Writer
  <1>2. QED
    BY <1>1 DEF Writer

\* The same after a step.
LEMMA WriterPropertiesNext ==
  ASSUME OneLeasePerTopic', NEW t \in Topics
  PROVE  /\ \A h \in Holders(t)' : Writer'[t] = WriterOf(h)'
         /\ Holders(t)' = {} => Writer'[t] = Nobody
  <1>1. ASSUME NEW h \in Holders(t)' PROVE Writer'[t] = WriterOf(h)'
    <2>1. (CHOOSE k \in Holders(t)' : TRUE) \in Holders(t)'
      BY <1>1
    <2>2. (CHOOSE k \in Holders(t)' : TRUE) = h
      BY <1>1, <2>1 DEF OneLeasePerTopic, Holders
    <2>3. QED
      BY <1>1, <2>2 DEF Writer
  <1>2. QED
    BY <1>1 DEF Writer

\* A topic keeps its writer when its holders and their leases stay.
LEMMA WriterKept ==
  ASSUME OneLeasePerTopic, OneLeasePerTopic', NEW t \in Topics,
         Holders(t)' = Holders(t), \A h \in Holders(t) : WriterOf(h)' = WriterOf(h)
  PROVE  Writer'[t] = Writer[t]
  <1>1. CASE Holders(t) = {}
    BY <1>1, WriterProperties, WriterPropertiesNext
  <1>2. CASE Holders(t) # {}
    <2>1. PICK h \in Holders(t) : TRUE
      BY <1>2
    <2>2. Writer[t] = WriterOf(h) /\ Writer'[t] = WriterOf(h)'
      BY <2>1, WriterProperties, WriterPropertiesNext
    <2>3. QED
      BY <2>1, <2>2
  <1>3. QED
    BY <1>1, <1>2

\* The abstract function of writers is given by its values.
LEMMA WriterFunction ==
  /\ Writer = [t \in Topics |-> Writer[t]]
  /\ Writer' = [t \in Topics |-> Writer'[t]]
  BY DEF Writer

\* Handles whose sessions, topics and leases stay show the same writers.
LEMMA WritersKept ==
  ASSUME OneLeasePerTopic, OneLeasePerTopic',
         \A h \in DOMAIN handles :
           /\ h \in DOMAIN handles'
           /\ handles'[h].session = handles[h].session
           /\ handles'[h].topic = handles[h].topic
           /\ handles'[h].lease = handles[h].lease,
         \A h \in DOMAIN handles' \ DOMAIN handles : handles'[h].lease = NoLease
  PROVE  Writer' = Writer
  <1>1. ASSUME NEW t \in Topics PROVE Writer'[t] = Writer[t]
    <2>1. Holders(t)' = Holders(t)
      BY DEF Holders
    <2>2. \A h \in Holders(t) : WriterOf(h)' = WriterOf(h)
      BY DEF Holders, WriterOf
    <2>3. QED
      BY <2>1, <2>2, WriterKept
  <1>2. QED
    BY <1>1, WriterFunction

-----------------------------------------------------------------------------

\* A new guard has no writers.
LEMMA RefineInit == Init => Authority!Init
  <1> SUFFICES ASSUME Init PROVE Authority!Init
    OBVIOUS
  <1>1. \A t \in Topics : Holders(t) = {}
    BY DEF Init, NoEntries, Holders
  <1>2. Writer = [t \in Topics |-> Nobody]
    BY <1>1 DEF Writer
  <1>3. lastTime \in Nat
    BY GuardAssumption DEF Init, Times
  <1>4. QED
    BY <1>2, <1>3 DEF Init, Authority!Init, Authority!Nobody, Nobody

\* Operations that grant and withdraw nothing pass time or identifiers at most.
LEMMA RefinePass ==
  ASSUME TypeOK, OneLeasePerTopic, OneLeasePerTopic', toRos' = toRos,
         lastTime' >= lastTime, nextId' >= nextId, Writer' = Writer
  PROVE  Authority!Next
  BY DEF Authority!Next, Authority!Pass

\* Removing handles withdraws the authority they held and no other.
LEMMA RefineWithdraw ==
  ASSUME OneLeasePerTopic, OneLeasePerTopic', UNCHANGED <<nextId, lastTime, toRos>>,
         DOMAIN handles' \subseteq DOMAIN handles,
         \A h \in DOMAIN handles' : handles'[h] = handles[h]
  PROVE  Authority!Next
  <1>1. ASSUME NEW t \in Topics PROVE Writer'[t] \in {Writer[t], Nobody}
    <2>1. CASE Holders(t)' = {}
      BY <2>1, WriterPropertiesNext
    <2>2. CASE Holders(t)' # {}
      <3>1. PICK h \in Holders(t)' : TRUE
        BY <2>2
      <3>2. h \in Holders(t) /\ WriterOf(h)' = WriterOf(h)
        BY <3>1 DEF Holders, WriterOf
      <3>3. QED
        BY <3>1, <3>2, WriterProperties, WriterPropertiesNext
    <2>3. QED
      BY <2>1, <2>2
  <1>2. QED
    BY <1>1, WriterFunction DEF Authority!Next, Authority!Withdraw, Authority!Nobody, Nobody

\* arm grants authority over a topic that is free, whose lease has expired, or whose
\* writer belongs to the same session; the other topics keep their writers.
LEMMA RefineArmReturn ==
  ASSUME TypeOK, GuardInv, GuardInv', NEW now \in Times, ArmReturn(now)
  PROVE  Authority!Next
  <1> PICK g, e, l, t :
        /\ g = Top.handle /\ e = now + handles[g].leaseMs
        /\ l = [id |-> nextId + 1, expiresAt |-> e] /\ t = handles[g].topic
    OBVIOUS
  <1>1. /\ g \in DOMAIN handles /\ handles[g].session = Top.session
        /\ now >= lastTime /\ lastTime' = now /\ toRos' = toRos
    BY DEF ArmReturn, Owned, ReadClock
  <1>2. OneLeasePerTopic /\ OneLeasePerTopic'
    BY DEF GuardInv
  <1>3. handles[g] \in HandleState /\ t \in Topics /\ handles[g].leaseMs \in Nat \ {0}
    BY <1>1, GuardAssumption DEF TypeOK, HandleState
  <1>4. lastTime \in Nat /\ now \in Nat /\ nextId \in Nat
    BY GuardAssumption DEF TypeOK, Times
  <1>5. CASE UNCHANGED <<handles, nextId>>
    <2>1. Writer' = Writer
      BY <1>5 DEF Writer, Holders, WriterOf
    <2>2. QED
      BY <1>1, <1>2, <1>4, <1>5, <2>1, RefinePass
  <1>6. CASE /\ ~WriterBusy(Top.session, t, now) /\ ~ClockExhausted(e) /\ IdLeft
             /\ nextId' = nextId + 1
             /\ handles' = GrantLease(g, l)
    <2>1. l \in Lease /\ l.id = nextId + 1 /\ l.expiresAt = e /\ e > now /\ l # NoLease
      BY <1>3, <1>4, <1>6, GuardAssumption
         DEF TypeOK, Lease, IdLeft, ClockExhausted, Times, NoLease
    <2>2. /\ DOMAIN handles' = DOMAIN handles
          /\ \A k \in DOMAIN handles :
               /\ handles'[k].session = handles[k].session
               /\ handles'[k].topic = handles[k].topic
               /\ handles'[k].lease = IF k = g THEN l
                                      ELSE IF handles[k].topic = t
                                           THEN NoLease ELSE handles[k].lease
      BY <1>1, <1>6, <2>1, GrantLeaseProperties
    <2>3. /\ g \in DOMAIN handles' /\ handles'[g].topic = t /\ handles'[g].lease = l
          /\ handles'[g].session = handles[g].session
      BY <1>1, <2>2
    <2>4. Writer'[t] = [session |-> handles[g].session, handle |-> g,
                        lease |-> nextId + 1, expiresAt |-> e]
      <3>1. g \in Holders(t)'
        BY <2>1, <2>3 DEF Holders
      <3>2. t \in Topics
        BY <1>3
      <3>3. Writer'[t] = WriterOf(g)'
        BY <1>2, <3>1, <3>2, WriterPropertiesNext
      <3>4. QED
        BY <2>1, <2>3, <3>3 DEF WriterOf
    <2>5. \/ Writer[t] = Nobody
          \/ Writer[t].expiresAt <= now
          \/ Writer[t].session = handles[g].session
      <3>1. CASE Holders(t) = {}
        BY <1>2, <1>3, <3>1, WriterProperties
      <3>2. ASSUME NEW h \in Holders(t) PROVE Writer[t].expiresAt <= now \/ Writer[t].session = handles[g].session
        <4>1. Writer[t] = WriterOf(h)
          BY <1>2, <1>3, WriterProperties
        <4>2. handles[h].lease.expiresAt \in Nat
          BY GuardAssumption DEF TypeOK, HandleState, Lease, Times, Holders
        <4>3. handles[h].session = Top.session \/ ~(now < handles[h].lease.expiresAt)
          BY <1>6 DEF WriterBusy, Holders
        <4>4. QED
          BY <1>1, <1>4, <4>1, <4>2, <4>3 DEF WriterOf
      <3>3. QED
        BY <3>1, <3>2
    <2>6. ASSUME NEW u \in Topics, u # t PROVE Writer'[u] = Writer[u]
      <3>1. Holders(u)' = Holders(u)
        BY <1>1, <2>2, <2>6 DEF Holders
      <3>2. \A h \in Holders(u) : WriterOf(h)' = WriterOf(h)
        BY <1>1, <2>2, <2>6 DEF Holders, WriterOf
      <3>3. QED
        BY <1>2, <3>1, <3>2, WriterKept
    <2>7. Writer' = [Writer EXCEPT ![t] = Writer'[t]]
      <3>1. \A u \in Topics : Writer'[u] = [Writer EXCEPT ![t] = Writer'[t]][u]
        BY <1>3, <2>6, WriterFunction
      <3>2. QED
        BY <3>1, WriterFunction
    <2>8. Authority!Grant(t)
      <3>1. /\ Writer'[t].lease = nextId + 1 /\ Writer'[t].expiresAt = e
            /\ Writer'[t].session = handles[g].session
        BY <2>4
      <3>2. nextId' = nextId + 1
        BY <1>6
      <3>3. QED
        BY <1>1, <1>4, <2>1, <2>5, <2>7, <3>1, <3>2 DEF Authority!Grant, Authority!Nobody, Nobody
    <2>9. QED
      BY <1>3, <2>8 DEF Authority!Next
  <1>7. QED
    BY <1>5, <1>6 DEF ArmReturn

\* ticket.publish reaches ROS only from the writer of the topic, before its lease
\* expires and above every sequence number it used.
LEMMA RefinePublishReturn ==
  ASSUME TypeOK, GuardInv, GuardInv', NEW now \in Times, PublishReturn(now)
  PROVE  Authority!Next
  <1> DEFINE r == Top.request
             t == handles[r.handle].topic
             p == [topic |-> t, session |-> r.session,
                   handle |-> r.handle, lease |-> r.lease, seq |-> r.seq]
  <1>1. /\ r.handle \in DOMAIN handles /\ handles[r.handle].session = r.session
        /\ handles[r.handle].lease.id = r.lease
        /\ now >= lastTime /\ lastTime' = now /\ nextId' = nextId
        /\ calls # <<>> /\ Top.phase = "publish"
    BY DEF PublishReturn, Leave, LeaseMatches, Owned, ReadClock
  <1>2. OneLeasePerTopic /\ OneLeasePerTopic'
    BY DEF GuardInv
  <1>3. lastTime \in Nat /\ now \in Nat /\ nextId \in Nat
    BY GuardAssumption DEF TypeOK, Times
  <1>4. \A h \in DOMAIN handles : handles[h] \in HandleState
    BY DEF TypeOK
  <1>5. Writer' = Writer
    <2>1. /\ DOMAIN handles' = DOMAIN handles
          /\ \A h \in DOMAIN handles :
               /\ handles'[h].session = handles[h].session
               /\ handles'[h].topic = handles[h].topic
               /\ handles'[h].lease = handles[h].lease
      BY <1>4 DEF PublishReturn, HandleState
    <2>2. QED
      BY <1>2, <2>1, WritersKept
  <1>6. CASE toRos' = toRos
    BY <1>1, <1>2, <1>3, <1>5, <1>6, RefinePass
  <1>7. CASE /\ r.seq > handles[r.handle].published
             /\ now < handles[r.handle].lease.expiresAt
             /\ toRos' = Append(toRos, p)
    <2>1. r \in Request /\ r.seq \in Nat /\ r.lease \in Nat /\ r.lease > 0
      BY <1>1, TopFrame, Numbers
    <2>2. t \in Topics /\ r.handle \in Holders(t)
      BY <1>1, <1>4, <2>1 DEF HandleState, Holders, NoLease
    <2>3. Writer[t] = [session |-> r.session, handle |-> r.handle, lease |-> r.lease,
                       expiresAt |-> handles[r.handle].lease.expiresAt]
      BY <1>1, <1>2, <2>2, WriterProperties DEF WriterOf
    <2>4. /\ p.topic = t /\ p.session = r.session /\ p.handle = r.handle
          /\ p.lease = r.lease /\ p.seq = r.seq
      OBVIOUS
    <2> HIDE DEF r, t, p
    <2>5. Len(toRos') = Len(toRos) + 1 /\ toRos'[Len(toRos')] = p
      BY <1>7 DEF TypeOK
    <2>6. \A i \in DOMAIN toRos : toRos[i].handle = p.handle => toRos[i].seq < p.seq
      BY <1>1, <1>7, <2>1, <2>4, Numbers DEF GuardInv, SeqBounds
    <2>7. Writer[t] # Nobody
      BY <2>1, <2>3 DEF Nobody
    <2>8. Authority!Publish(t)
      BY <1>1, <1>3, <1>5, <1>7, <2>3, <2>4, <2>5, <2>6, <2>7
         DEF Authority!Publish, Authority!Nobody, Nobody
    <2>9. QED
      BY <2>2, <2>8 DEF Authority!Next
  <1>8. QED
    BY <1>6, <1>7 DEF PublishReturn, Unexpired, NewerThanPublished

\* Every step of the guard is a step of the authority or a stuttering step.
LEMMA RefineNext ==
  TypeOK /\ GuardInv /\ GuardInv' /\ [Next]_vars => [Authority!Next]_(Authority!authorityVars)
  <1> SUFFICES ASSUME TypeOK, GuardInv, GuardInv', [Next]_vars
               PROVE  Authority!Next \/ UNCHANGED Authority!authorityVars
    OBVIOUS
  <1>1. OneLeasePerTopic /\ OneLeasePerTopic'
    BY DEF GuardInv
  <1>2. lastTime \in Nat /\ nextId \in Nat
    BY GuardAssumption DEF TypeOK, Times
  <1>3. CASE handles' = handles /\ toRos' = toRos /\ lastTime' >= lastTime /\ nextId' >= nextId
    <2>1. Writer' = Writer
      BY <1>3 DEF Writer, Holders, WriterOf
    <2>2. QED
      BY <1>1, <1>3, <2>1, RefinePass
  <1>4. CASE OpenHandleReturn
    <2>1. Top = calls[Len(calls)] /\ Len(calls) \in OpenFrames
      BY <1>4, PopFrames DEF OpenHandleReturn, Leave, Top
    <2>2. Top.handle \notin DOMAIN handles
      BY <2>1 DEF GuardInv, OpeningFresh
    <2>3. /\ \A h \in DOMAIN handles : h \in DOMAIN handles' /\ handles'[h] = handles[h]
          /\ \A h \in DOMAIN handles' \ DOMAIN handles : handles'[h].lease = NoLease
      BY <1>4, <2>2 DEF OpenHandleReturn
    <2>4. Writer' = Writer
      BY <1>1, <2>3, WritersKept
    <2>5. QED
      BY <1>1, <1>2, <1>4, <2>4, RefinePass DEF OpenHandleReturn
  <1>5. ASSUME NEW now \in Times, PrepareReturn(now) PROVE Authority!Next
    <2>1. \A h \in DOMAIN handles : handles[h] \in HandleState
      BY DEF TypeOK
    <2>2. /\ DOMAIN handles' = DOMAIN handles
          /\ \A h \in DOMAIN handles :
               /\ handles'[h].session = handles[h].session
               /\ handles'[h].topic = handles[h].topic
               /\ handles'[h].lease = handles[h].lease
      BY <1>5, <2>1 DEF PrepareReturn, HandleState
    <2>3. Writer' = Writer
      BY <1>1, <2>2, WritersKept
    <2>4. QED
      BY <1>1, <1>2, <1>5, <2>3, RefinePass DEF PrepareReturn, ReadClock
  <1>6. ASSUME \/ \E s, h \in Ids : CloseHandle(s, h)
               \/ \E s \in Ids : RevokeSession(s)
               \/ Close
        PROVE  Authority!Next
    <2>1. /\ UNCHANGED <<nextId, lastTime, toRos>>
          /\ DOMAIN handles' \subseteq DOMAIN handles
          /\ \A h \in DOMAIN handles' : handles'[h] = handles[h]
      BY <1>6 DEF CloseHandle, RevokeSession, Close, Keep, NoEntries
    <2>2. QED
      BY <1>1, <2>1, RefineWithdraw
  <1>7. ASSUME NEW e \in Epochs, OpenSession(e)
        PROVE  Authority!Next \/ UNCHANGED Authority!authorityVars
    BY <1>2, <1>3, <1>7 DEF OpenSession
  <1>8. ASSUME NEW s \in Ids, NEW t \in Topics, NEW ms \in LeaseTimes, OpenHandle(s, t, ms)
        PROVE  Authority!Next \/ UNCHANGED Authority!authorityVars
    BY <1>2, <1>3, <1>8 DEF OpenHandle
  <1>9. CASE UNCHANGED <<handles, nextId, lastTime, toRos>>
    BY <1>2, <1>3, <1>9
  <1>10. QED
    BY <1>4, <1>5, <1>6, <1>7, <1>8, <1>9, RefineArmReturn, RefinePublishReturn
       DEF Next, vars, Arm, Prepare, Publish, Throw

\* The guard implements the abstract single-writer authority, for every number of
\* sessions, handles, topics and nested hooks.
THEOREM GuardImplementsAuthority == Spec => ImplementsAuthority
  BY RefineInit, RefineNext, TypeCorrect, GuardInvariant, PTL
     DEF Spec, ImplementsAuthority, Authority!Spec

=============================================================================
