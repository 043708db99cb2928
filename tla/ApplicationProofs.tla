------------------------- MODULE ApplicationProofs -------------------------
(***************************************************************************)
(* What the peers' life and the application's own keep for any offers, any *)
(* limits and any number of tracks.  LifecycleInv relates requests,        *)
(* endpoints, slots and counters of PeerLifecycle; StageInv says what      *)
(* every stage of startApp() and close() holds.                            *)
(***************************************************************************)
EXTENDS Application, FiniteSetTheorems, TLAPS

\* The requests the handler has not replied to.
Requests == {p \in Offers : request[p] \in InProgress}

\* The counter is the number of requests in progress.
PendingInv == IsFiniteSet(Requests) /\ pending = Cardinality(Requests)

\* The slots taken are the endpoints alive, within the limit.
SlotInv ==
  /\ peers = Alive
  /\ IsFiniteSet(peers) /\ Cardinality(peers) <= MaxPeers
  /\ sessions = {p \in Offers : endpoint[p] = "open"}
  /\ timer \subseteq sessions

\* Where a request is tells where its endpoint is.
RequestInv ==
  \A p \in Offers :
    /\ request[p] \in {"none", "reading"} => endpoint[p] = "none"
    /\ request[p] = "negotiating" => endpoint[p] = "open"
    /\ request[p] = "rejecting" => endpoint[p] = "closing"

\* Shutdown closes every peer it finds and lets no other in.
StopInv ==
  /\ stopped => sessions = {}
  /\ released => stopped /\ PeersSettled

LifecycleInv == PendingInv /\ SlotInv /\ RequestInv /\ StopInv

-----------------------------------------------------------------------------

\* The media plane a start ends with.
FullMedia == media = IF Tracks = 0 THEN "none" ELSE "open"

AllProved == \A t \in Track : verdict[t] = "ok" /\ worker[t] = "gone"

\* No offer arrived yet.
Untouched == \A p \in Offers : endpoint[p] = "none"

\* The probes run one after the other, each on the success of the one before.
ProbeInv ==
  /\ stage = "initializing" => probing = 0
  /\ stage = "probing" =>
       \A t \in Track : t < probing => verdict[t] = "ok" /\ worker[t] = "gone"

\* What a start in progress holds.
StartingInv ==
  /\ stage = "initializing" =>
       media = "none" /\ context = "none" /\ guard = "none" /\ adapter = "none"
  /\ stage \in {"probing", "wiring"} =>
       FullMedia /\ context = "open" /\ guard = "none" /\ adapter = "none"
  /\ stage \in {"wiring", "listening"} => AllProved
  /\ stage = "listening" =>
       FullMedia /\ context = "open" /\ guard = "open" /\ adapter = "running"

\* What a serving application holds until its peers have settled.
ServingInv ==
  stage = "serving" =>
    /\ AllProved
    /\ server # "none"
    /\ ~(stopped /\ PeersSettled) =>
         /\ FullMedia /\ context = "open" /\ guard = "open" /\ adapter = "running"
         /\ server = "open"

\* What is left at the end.
EndInv ==
  /\ stage = "failed" \/ released =>
       /\ guard # "open" /\ media # "open" /\ context # "open" /\ adapter # "running"
       /\ server # "open"
  /\ adapter = "running" => context = "open"
  /\ stopped => stage \in {"serving", "failing", "failed"}
  /\ released => stage \in {"serving", "failed"}
  /\ stage # "serving" => Untouched /\ server = "none"

StageInv == ProbeInv /\ StartingInv /\ ServingInv /\ EndInv

-----------------------------------------------------------------------------

\* Counting a finite set one element up and one element down.
LEMMA CountUp ==
  ASSUME NEW S, IsFiniteSet(S), NEW x, x \notin S
  PROVE  /\ IsFiniteSet(S \cup {x}) /\ Cardinality(S \cup {x}) = Cardinality(S) + 1
         /\ Cardinality(S) \in Nat
  BY FS_AddElement, FS_CardinalityType

\* The same, one element down.
LEMMA CountDown ==
  ASSUME NEW S, IsFiniteSet(S), NEW x \in S
  PROVE  /\ IsFiniteSet(S \ {x}) /\ Cardinality(S \ {x}) = Cardinality(S) - 1
         /\ Cardinality(S) \in Nat \ {0} /\ Cardinality(S) - 1 \in Nat
  <1>1. IsFiniteSet(S \ {x}) /\ Cardinality(S \ {x}) = Cardinality(S) - 1
    BY FS_RemoveElement
  <1>2. Cardinality(S) \in Nat /\ Cardinality(S) - 1 \in Nat
    BY <1>1, FS_CardinalityType
  <1>3. QED
    BY <1>1, <1>2

\* The types and the invariant of the peers' life together.
PeersInv == TypeOK /\ LifecycleInv

\* A request that starts is counted.
LEMMA PeersPost ==
  ASSUME PeersInv, NEW p \in Offers, Post(p)
  PROVE  PeersInv'
  <1>1. /\ request[p] = "none" /\ request' = [request EXCEPT ![p] = "reading"]
        /\ pending < MaxPending /\ pending' = pending + 1
        /\ UNCHANGED <<endpoint, timer, connected, sessions, peers, stopped, released>>
    BY DEF Post
  <1>2. Requests' = Requests \cup {p} /\ p \notin Requests
    BY <1>1 DEF Requests, InProgress, PeersInv, TypeOK
  <1>3. PendingInv'
    BY <1>1, <1>2, CountUp DEF PeersInv, LifecycleInv, PendingInv
  <1>4. TypeOK'
    BY <1>1, LifecycleAssumption DEF PeersInv, TypeOK, InProgress
  <1>5. RequestInv'
    BY <1>1 DEF PeersInv, TypeOK, LifecycleInv, RequestInv
  <1>6. SlotInv' /\ StopInv'
    BY <1>1 DEF PeersInv, LifecycleInv, SlotInv, StopInv, Alive, PeersSettled
  <1>7. QED
    BY <1>3, <1>4, <1>5, <1>6 DEF PeersInv, LifecycleInv

\* A reply at the limit counts nothing.
LEMMA PeersPostBusy ==
  ASSUME PeersInv, NEW p \in Offers, PostBusy(p)
  PROVE  PeersInv'
  <1>1. /\ request[p] = "none" /\ request' = [request EXCEPT ![p] = "refused"]
        /\ UNCHANGED <<endpoint, timer, connected, sessions, peers, pending, stopped, released>>
    BY DEF PostBusy
  <1>2. Requests' = Requests
    BY <1>1 DEF Requests, InProgress, PeersInv, TypeOK
  <1>3. PendingInv'
    BY <1>1, <1>2 DEF PeersInv, LifecycleInv, PendingInv
  <1>4. TypeOK' /\ RequestInv'
    BY <1>1 DEF PeersInv, TypeOK, InProgress, LifecycleInv, RequestInv
  <1>5. SlotInv' /\ StopInv'
    BY <1>1 DEF PeersInv, LifecycleInv, SlotInv, StopInv, Alive, PeersSettled
  <1>6. QED
    BY <1>3, <1>4, <1>5 DEF PeersInv, LifecycleInv

\* A reply to a request in progress uncounts it.
LEMMA Replied ==
  ASSUME PeersInv, NEW p \in Offers, request[p] \in InProgress,
         NEW r \in {"answered", "refused"}, request' = [request EXCEPT ![p] = r],
         pending' = pending - 1
  PROVE  PendingInv' /\ pending' \in 0 .. MaxPending
  <1>1. Requests' = Requests \ {p} /\ p \in Requests
    BY DEF Requests, InProgress, PeersInv, TypeOK
  <1>2. PendingInv' /\ pending' \in Nat
    BY <1>1, CountDown DEF PeersInv, LifecycleInv, PendingInv
  <1>3. QED
    BY <1>2, LifecycleAssumption DEF PeersInv, TypeOK

\* A refused body leaves nothing behind.
LEMMA PeersRefuse ==
  ASSUME PeersInv, NEW p \in Offers, Refuse(p)
  PROVE  PeersInv'
  <1>1. /\ request[p] = "reading" /\ request' = [request EXCEPT ![p] = "refused"]
        /\ pending' = pending - 1
        /\ UNCHANGED <<endpoint, timer, connected, sessions, peers, stopped, released>>
    BY DEF Refuse
  <1>2. PendingInv' /\ pending' \in 0 .. MaxPending
    BY <1>1, Replied DEF InProgress
  <1>3. TypeOK' /\ RequestInv'
    BY <1>1, <1>2 DEF PeersInv, TypeOK, InProgress, LifecycleInv, RequestInv
  <1>4. SlotInv' /\ StopInv'
    BY <1>1 DEF PeersInv, LifecycleInv, SlotInv, StopInv, Alive, PeersSettled
  <1>5. QED
    BY <1>2, <1>3, <1>4 DEF PeersInv, LifecycleInv

\* An offer that is accepted, valid or not, takes a free slot.
LEMMA PeersAccept ==
  ASSUME PeersInv, NEW p \in Offers, Accept(p) \/ AcceptInvalid(p)
  PROVE  PeersInv'
  <1>1. /\ request[p] = "reading" /\ ~stopped /\ Cardinality(peers) < MaxPeers
        /\ peers' = peers \cup {p} /\ UNCHANGED <<connected, pending, stopped, released>>
    BY DEF Accept, AcceptInvalid, AddSlot, SlotFree
  <1>2. \/ /\ request' = [request EXCEPT ![p] = "negotiating"]
           /\ endpoint' = [endpoint EXCEPT ![p] = "open"]
           /\ sessions' = sessions \cup {p} /\ timer' = timer \cup {p}
        \/ /\ request' = [request EXCEPT ![p] = "rejecting"]
           /\ endpoint' = [endpoint EXCEPT ![p] = "closing"]
           /\ UNCHANGED <<sessions, timer>>
    BY DEF Accept, AcceptInvalid
  <1>3. endpoint[p] = "none" /\ ~released
    BY <1>1 DEF PeersInv, LifecycleInv, RequestInv, StopInv
  <1>4. TypeOK'
    BY <1>1, <1>2 DEF PeersInv, TypeOK, InProgress
  <1>5. Requests' = Requests
    BY <1>1, <1>2 DEF Requests, InProgress, PeersInv, TypeOK
  <1>6. PendingInv'
    BY <1>1, <1>5 DEF PeersInv, LifecycleInv, PendingInv
  <1>7. SlotInv'
    <2>1. peers' = Alive' /\ p \notin peers
      BY <1>1, <1>2, <1>3 DEF PeersInv, TypeOK, LifecycleInv, SlotInv, Alive
    <2>2. IsFiniteSet(peers') /\ Cardinality(peers') <= MaxPeers
      <3>1. IsFiniteSet(peers)
        BY DEF PeersInv, LifecycleInv, SlotInv
      <3>2. IsFiniteSet(peers') /\ Cardinality(peers') = Cardinality(peers) + 1
            /\ Cardinality(peers) \in Nat
        BY <1>1, <2>1, <3>1, CountUp
      <3>3. QED
        BY <1>1, <3>2, LifecycleAssumption
    <2>3. sessions' = {q \in Offers : endpoint'[q] = "open"} /\ timer' \subseteq sessions'
      BY <1>2, <1>3 DEF PeersInv, TypeOK, LifecycleInv, SlotInv
    <2>4. QED
      BY <2>1, <2>2, <2>3 DEF SlotInv
  <1>8. RequestInv'
    BY <1>1, <1>2 DEF PeersInv, TypeOK, LifecycleInv, RequestInv
  <1>9. StopInv'
    BY <1>1, <1>3 DEF StopInv
  <1>10. QED
    BY <1>4, <1>6, <1>7, <1>8, <1>9 DEF PeersInv, LifecycleInv

\* An answer, and the opening of the channels after it, keep slot and session.
LEMMA PeersAnswer ==
  ASSUME PeersInv, NEW p \in Offers, Answer(p) \/ Opened(p)
  PROVE  PeersInv'
  <1>1. CASE Answer(p)
    <2>1. /\ request[p] = "negotiating" /\ request' = [request EXCEPT ![p] = "answered"]
          /\ pending' = pending - 1
          /\ UNCHANGED <<endpoint, timer, connected, sessions, peers, stopped, released>>
      BY <1>1 DEF Answer
    <2>2. PendingInv' /\ pending' \in 0 .. MaxPending
      BY <2>1, Replied DEF InProgress
    <2>3. TypeOK' /\ RequestInv'
      BY <2>1, <2>2 DEF PeersInv, TypeOK, InProgress, LifecycleInv, RequestInv
    <2>4. SlotInv' /\ StopInv'
      BY <2>1 DEF PeersInv, LifecycleInv, SlotInv, StopInv, Alive, PeersSettled
    <2>5. QED
      BY <2>2, <2>3, <2>4 DEF PeersInv, LifecycleInv
  <1>2. CASE Opened(p)
    <2>1. /\ connected' = connected \cup {p} /\ timer' = timer \ {p}
          /\ UNCHANGED <<request, endpoint, sessions, peers, pending, stopped, released>>
      BY <1>2 DEF Opened
    <2>2. TypeOK' /\ PendingInv' /\ RequestInv'
      BY <2>1 DEF PeersInv, TypeOK, LifecycleInv, PendingInv, Requests, RequestInv
    <2>3. SlotInv' /\ StopInv'
      BY <2>1 DEF PeersInv, LifecycleInv, SlotInv, StopInv, Alive, PeersSettled
    <2>4. QED
      BY <2>2, <2>3 DEF PeersInv, LifecycleInv
  <1>3. QED
    BY <1>1, <1>2

\* Closing endpoints, one or all, revokes their sessions and keeps their slots; the
\* requests that waited for an answer stay counted until the close is over.
LEMMA PeersClose ==
  ASSUME PeersInv, NEW P \in SUBSET Offers, Close(P), UNCHANGED <<peers, pending, released>>,
         \/ UNCHANGED stopped
         \/ stopped' = TRUE /\ sessions \subseteq P
  PROVE  PeersInv'
  <1> PICK ending \in SUBSET Offers : ending = {p \in P : endpoint[p] = "open"}
    OBVIOUS
  <1>1. /\ endpoint' = [p \in Offers |-> IF p \in ending THEN "closing" ELSE endpoint[p]]
        /\ timer' = timer \ ending /\ connected' = connected \ ending
        /\ sessions' = sessions \ ending
        /\ request' = [p \in Offers |->
             IF p \in ending /\ request[p] = "negotiating" THEN "rejecting" ELSE request[p]]
    BY Zenon DEF Close
  <1>2. TypeOK'
    <2>1. /\ request' \in [Offers -> InProgress \cup {"none", "answered", "refused"}]
          /\ endpoint' \in [Offers -> {"none", "open", "closing", "closed"}]
      BY <1>1 DEF PeersInv, TypeOK, InProgress
    <2>2. QED
      BY <1>1, <2>1 DEF PeersInv, TypeOK
  <1>3. Requests' = Requests
    BY <1>1 DEF Requests, InProgress
  <1>4. PendingInv'
    BY <1>3 DEF PeersInv, LifecycleInv, PendingInv
  <1>5. Alive' = Alive
    BY <1>1 DEF Alive
  <1>6. SlotInv'
    BY <1>1, <1>5 DEF PeersInv, LifecycleInv, SlotInv
  <1>7. RequestInv'
    BY <1>1 DEF PeersInv, LifecycleInv, RequestInv
  <1>8. StopInv'
    <2>1. released => ending = {}
      BY DEF PeersInv, LifecycleInv, StopInv, PeersSettled
    <2>2. released' => stopped' /\ PeersSettled'
      BY <1>1, <2>1 DEF PeersInv, LifecycleInv, StopInv, PeersSettled
    <2>3. stopped' => sessions' = {}
      BY <1>1 DEF PeersInv, LifecycleInv, SlotInv, StopInv
    <2>4. QED
      BY <2>2, <2>3 DEF StopInv
  <1>9. QED
    BY <1>2, <1>4, <1>6, <1>7, <1>8 DEF PeersInv, LifecycleInv

\* The end of a close gives the slot back and rejects the request that waited for it.
LEMMA PeersCloseEnds ==
  ASSUME PeersInv, NEW p \in Offers, CloseEnds(p)
  PROVE  PeersInv'
  <1>1. /\ endpoint[p] = "closing" /\ endpoint' = [endpoint EXCEPT ![p] = "closed"]
        /\ peers' = peers \ {p}
        /\ request' = [request EXCEPT ![p] =
             IF request[p] = "rejecting" THEN "refused" ELSE request[p]]
        /\ pending' = IF request[p] = "rejecting" THEN pending - 1 ELSE pending
        /\ UNCHANGED <<timer, connected, sessions, stopped, released>>
    BY DEF CloseEnds
  <1>2. PendingInv' /\ pending' \in 0 .. MaxPending
    <2>1. CASE request[p] = "rejecting"
      BY <1>1, <2>1, Replied DEF InProgress
    <2>2. CASE request[p] # "rejecting"
      <3>1. request' = request /\ pending' = pending
        BY <1>1, <2>2 DEF PeersInv, TypeOK
      <3>2. QED
        BY <3>1 DEF PeersInv, TypeOK, LifecycleInv, PendingInv, Requests
    <2>3. QED
      BY <2>1, <2>2
  <1>3. TypeOK'
    BY <1>1, <1>2 DEF PeersInv, TypeOK, InProgress
  <1>4. SlotInv'
    <2>1. p \in peers /\ IsFiniteSet(peers)
      BY <1>1 DEF PeersInv, LifecycleInv, SlotInv, Alive
    <2>2. IsFiniteSet(peers') /\ Cardinality(peers') = Cardinality(peers) - 1
          /\ Cardinality(peers) \in Nat
      BY <1>1, <2>1, CountDown
    <2>3. Cardinality(peers') <= MaxPeers
      BY <2>2, LifecycleAssumption DEF PeersInv, LifecycleInv, SlotInv
    <2>4. peers' = Alive' /\ sessions' = {q \in Offers : endpoint'[q] = "open"}
      BY <1>1 DEF PeersInv, TypeOK, LifecycleInv, SlotInv, Alive
    <2>5. QED
      BY <1>1, <2>2, <2>3, <2>4 DEF PeersInv, LifecycleInv, SlotInv
  <1>5. RequestInv'
    BY <1>1 DEF PeersInv, TypeOK, LifecycleInv, RequestInv
  <1>6. StopInv'
    BY <1>1 DEF PeersInv, TypeOK, LifecycleInv, StopInv, PeersSettled
  <1>7. QED
    BY <1>2, <1>3, <1>4, <1>5, <1>6 DEF PeersInv, LifecycleInv

\* Every step of an offer keeps the invariant of the peers' life.
LEMMA PeersOffer ==
  ASSUME PeersInv, NEW p \in Offers, OfferStep(p)
  PROVE  PeersInv'
  <1>1. CASE Lose(p) \/ Deadline(p)
    <2>1. Close({p}) /\ UNCHANGED <<peers, pending, stopped, released>>
      BY <1>1 DEF Lose, Deadline
    <2>2. {p} \in SUBSET Offers
      OBVIOUS
    <2>3. QED
      BY <2>1, <2>2, PeersClose, Zenon
  <1>2. QED
    BY <1>1, PeersPost, PeersPostBusy, PeersRefuse, PeersAccept, PeersAnswer, PeersCloseEnds
       DEF OfferStep

\* So does the shutdown.
LEMMA PeersShutdown ==
  ASSUME PeersInv, Shutdown
  PROVE  PeersInv'
  <1>1. peers \in SUBSET Offers /\ sessions \subseteq peers
    BY DEF PeersInv, TypeOK, LifecycleInv, SlotInv, Alive
  <1>2. QED
    BY <1>1, PeersClose DEF Shutdown

\* And its end.
LEMMA PeersRelease ==
  ASSUME PeersInv, Release
  PROVE  PeersInv'
  BY DEF Release, PeersInv, TypeOK, LifecycleInv, PendingInv, Requests, SlotInv, Alive,
         RequestInv, StopInv, PeersSettled

\* A step that leaves the peers alone.
LEMMA PeersStutter ==
  ASSUME PeersInv, UNCHANGED lifecycleVars
  PROVE  PeersInv'
  BY DEF lifecycleVars, PeersInv, TypeOK, LifecycleInv, PendingInv, Requests, SlotInv, Alive,
         RequestInv, StopInv, PeersSettled

\* Without offers the invariant holds.
LEMMA PeersInit == Init => PeersInv
  <1> SUFFICES ASSUME Init PROVE PeersInv
    OBVIOUS
  <1>1. Requests = {} /\ Alive = {}
    BY DEF Init, Requests, InProgress, Alive
  <1>2. IsFiniteSet({}) /\ Cardinality({}) = 0
    BY FS_EmptySet
  <1>3. TypeOK
    <2>1. 0 \in 0 .. MaxPending
      BY LifecycleAssumption
    <2>2. /\ request \in [Offers -> InProgress \cup {"none", "answered", "refused"}]
          /\ endpoint \in [Offers -> {"none", "open", "closing", "closed"}]
      BY DEF Init
    <2>3. {timer, connected, sessions, peers} \subseteq SUBSET Offers
      BY DEF Init
    <2>4. QED
      BY <2>1, <2>2, <2>3 DEF Init, TypeOK
  <1>4. PendingInv /\ SlotInv
    BY <1>1, <1>2, LifecycleAssumption DEF Init, PendingInv, SlotInv
  <1>5. RequestInv /\ StopInv
    BY DEF Init, RequestInv, StopInv
  <1>6. QED
    BY <1>3, <1>4, <1>5 DEF PeersInv, LifecycleInv

-----------------------------------------------------------------------------

\* The application's steps are steps of the peers' life or leave it alone.
LEMMA PeersStep == PeersInv /\ [AppNext]_appVars => PeersInv'
  <1> SUFFICES ASSUME PeersInv, [AppNext]_appVars PROVE PeersInv'
    OBVIOUS
  <1>1. CASE PeerStep
    BY <1>1, PeersOffer DEF PeerStep
  <1>2. CASE Stop \/ Abort
    BY <1>2, PeersShutdown DEF Stop, Abort
  <1>3. CASE CloseRest
    BY <1>3, PeersRelease DEF CloseRest
  <1>4. CASE UNCHANGED lifecycleVars
    BY <1>4, PeersStutter
  <1>5. QED
    BY <1>1, <1>2, <1>3, <1>4
       DEF AppNext, RefuseStart, InitializeFails, Initialized, ConfigRefused, Probe, ProbeAnswer,
           ProbeDeadline, Probed, WorkerGone, Wire, WireFails, Listen, ListenFails, CloseGuard,
           CloseMedia, appVars

\* The invariant is about what a run checks.
LEMMA PeersAccounted == PeersInv => SlotsAccounted
  <1> SUFFICES ASSUME PeersInv PROVE SlotsAccounted
    OBVIOUS
  <1>1. pending = Cardinality({p \in Offers : request[p] \in InProgress})
    BY DEF PeersInv, LifecycleInv, PendingInv, Requests
  <1>2. pending <= MaxPending
    BY LifecycleAssumption DEF PeersInv, TypeOK
  <1>3. sessions = {p \in peers : endpoint[p] = "open"}
    BY DEF PeersInv, LifecycleInv, SlotInv, Alive
  <1>4. QED
    BY <1>1, <1>2, <1>3 DEF PeersInv, LifecycleInv, SlotInv, SlotsAccounted

\* The peers' life by itself keeps its invariant, whenever its shutdown comes.
THEOREM LifecycleInvariant == Spec => [](TypeOK /\ LifecycleInv)
  <1>1. PeersInv /\ [Next]_lifecycleVars => PeersInv'
    BY PeersOffer, PeersShutdown, PeersRelease, PeersStutter DEF Next
  <1>2. PeersInv => TypeOK /\ LifecycleInv
    BY DEF PeersInv
  <1>3. QED
    BY <1>1, <1>2, PeersInit, PTL DEF Spec

\* Within the application too: never more connections than maxPeers, a guard session for
\* exactly the open endpoints, a pending counter that counts the requests in progress.
THEOREM SlotsAlwaysAccounted == AppSpec => []SlotsAccounted
  <1>1. AppInit => PeersInv
    BY PeersInit DEF AppInit
  <1>2. QED
    BY <1>1, PeersStep, PeersAccounted, PTL DEF AppSpec

-----------------------------------------------------------------------------

\* The types of the application's own variables.
StageTypes ==
  /\ stage \in {"initializing", "probing", "wiring", "listening", "serving", "failing", "failed"}
  /\ probing \in 0 .. Tracks
  /\ verdict \in [Track -> {"none", "waiting", "ok", "failed", "expired"}]
  /\ worker \in [Track -> {"none", "asked", "stopping", "gone"}]
  /\ guard \in {"none", "open", "closed"} /\ media \in {"none", "open", "closed"}
  /\ server \in {"none", "open", "closed"}
  /\ context \in {"none", "open", "closed", "stuck"}
  /\ adapter \in {"none", "running", "closed"}

\* Every step keeps them.
LEMMA StageTypesStep == StageTypes /\ [AppNext]_appVars => StageTypes'
  <1> SUFFICES ASSUME StageTypes, [AppNext]_appVars PROVE StageTypes'
    OBVIOUS
  <1> USE ApplicationAssumption DEF StageTypes
  <1>1. CASE RefuseStart
    BY <1>1 DEF RefuseStart, sharedVars
  <1>2. CASE InitializeFails
    BY <1>2 DEF InitializeFails
  <1>3. CASE Initialized
    BY <1>3 DEF Initialized
  <1>4. CASE ConfigRefused
    BY <1>4 DEF ConfigRefused
  <1>5. CASE Probe
    BY <1>5 DEF Probe, sharedVars, Track
  <1>6. ASSUME NEW ok \in BOOLEAN, ProbeAnswer(ok) PROVE StageTypes'
    BY <1>6 DEF ProbeAnswer, sharedVars
  <1>7. CASE ProbeDeadline
    BY <1>7 DEF ProbeDeadline, StopExpired, sharedVars
  <1>8. CASE Probed
    BY <1>8 DEF Probed, ProbeEnds, sharedVars
  <1>9. ASSUME NEW t \in Track, WorkerGone(t) PROVE StageTypes'
    BY <1>9 DEF WorkerGone, sharedVars
  <1>10. CASE Wire \/ WireFails
    BY <1>10 DEF Wire, WireFails
  <1>11. CASE Listen \/ ListenFails
    BY <1>11 DEF Listen, ListenFails, sharedVars
  <1>12. CASE CloseGuard \/ CloseMedia
    BY <1>12 DEF CloseGuard, CloseMedia, startVars
  <1>13. CASE CloseRest
    BY <1>13 DEF CloseRest, CloseBackend, Closed, Serving
  <1>14. CASE UNCHANGED <<startVars, sharedVars>>
    BY <1>14 DEF startVars, sharedVars
  <1>15. QED
    BY <1>1, <1>2, <1>3, <1>4, <1>5, <1>6, <1>7, <1>8, <1>9, <1>10, <1>11, <1>12, <1>13, <1>14
       DEF AppNext, Stop, Abort, PeerStep, appVars

-----------------------------------------------------------------------------

\* The state of the peers that the application's invariant reads.
LEMMA PeersUntouched ==
  ASSUME UNCHANGED lifecycleVars
  PROVE  /\ Untouched' = Untouched
         /\ PeersSettled' = PeersSettled
         /\ UNCHANGED <<stopped, released>>
  BY DEF lifecycleVars, Untouched, PeersSettled

\* The first awaits of startApp().
LEMMA StageBegin ==
  ASSUME StageTypes, StageInv, RefuseStart \/ InitializeFails \/ Initialized \/ ConfigRefused
  PROVE  StageInv'
  <1>1. /\ stage = "initializing" /\ UNCHANGED <<probing, verdict, worker>>
        /\ UNCHANGED <<guard, adapter, server>> /\ UNCHANGED lifecycleVars
    BY DEF RefuseStart, InitializeFails, Initialized, ConfigRefused, sharedVars
  <1>2. /\ media = "none" /\ context = "none" /\ guard = "none" /\ adapter = "none"
        /\ server = "none" /\ Untouched /\ ~stopped /\ ~released
    BY <1>1 DEF StageInv, StartingInv, EndInv
  <1>3. Untouched' /\ ~stopped' /\ ~released'
    BY <1>1, <1>2, PeersUntouched
  <1>4. CASE RefuseStart \/ InitializeFails \/ ConfigRefused
    <2>1. stage' \in {"failed", "failing"} /\ media' = "none"
          /\ (stage' = "failed" => context' # "open")
      BY <1>2, <1>4 DEF RefuseStart, InitializeFails, ConfigRefused, sharedVars
    <2>2. QED
      BY <1>1, <1>2, <1>3, <2>1 DEF StageInv, ProbeInv, StartingInv, ServingInv, EndInv
  <1>5. CASE Initialized
    <2>1. /\ context' = "open" /\ FullMedia'
          /\ stage' = IF Tracks = 0 THEN "wiring" ELSE "probing"
      BY <1>5 DEF Initialized, FullMedia
    <2>2. AllProved' \/ stage' = "probing"
      BY <2>1 DEF AllProved, Track
    <2>3. ProbeInv'
      BY <1>1, <2>1, ApplicationAssumption DEF StageInv, ProbeInv, Track
    <2>4. QED
      BY <1>1, <1>2, <1>3, <2>1, <2>2, <2>3 DEF StageInv, StartingInv, ServingInv, EndInv
  <1>6. QED
    BY <1>4, <1>5


\* The probes: a new one starts when the last said ok, a worker that stops stays gone.
LEMMA StageProbing ==
  ASSUME StageTypes, StageInv,
         \/ Probe \/ ProbeDeadline \/ (\E ok \in BOOLEAN : ProbeAnswer(ok))
         \/ \E t \in Track : WorkerGone(t)
  PROVE  StageInv'
  <1>1. UNCHANGED lifecycleVars /\ UNCHANGED sharedVars
    BY DEF Probe, ProbeDeadline, ProbeAnswer, WorkerGone
  <1>2. \/ stage' = stage
        \/ stage = "probing" /\ stage' = "failing"
    BY DEF Probe, ProbeDeadline, StopExpired, ProbeAnswer, WorkerGone
  <1>3. stage # "probing" => UNCHANGED <<probing, verdict>>
    BY DEF Probe, ProbeDeadline, ProbeAnswer, WorkerGone
  <1>4. ASSUME NEW t \in Track, verdict[t] = "ok", worker[t] = "gone",
               stage = "probing" => t < probing
        PROVE  verdict'[t] = "ok" /\ worker'[t] = "gone"
    <2>1. t \in Nat /\ probing \in Nat
      BY ApplicationAssumption DEF StageTypes, Track
    <2>2. CASE stage = "probing"
      <3>1. CASE Probe
        BY <1>4, <2>1, <2>2, <3>1 DEF Probe, StageTypes
      <3>2. CASE ProbeDeadline
        BY <1>4, <2>1, <2>2, <3>2 DEF ProbeDeadline, StopExpired, StageTypes
      <3>3. ASSUME NEW ok \in BOOLEAN, ProbeAnswer(ok) PROVE verdict'[t] = "ok" /\ worker'[t] = "gone"
        BY <1>4, <2>1, <2>2, <3>3 DEF ProbeAnswer, StageTypes
      <3>4. ASSUME NEW u \in Track, WorkerGone(u) PROVE verdict'[t] = "ok" /\ worker'[t] = "gone"
        BY <1>4, <3>4 DEF WorkerGone, StageTypes
      <3>5. QED
        BY <3>1, <3>2, <3>3, <3>4
    <2>3. CASE stage # "probing"
      <3>1. PICK u \in Track : WorkerGone(u)
        BY <2>3 DEF Probe, ProbeDeadline, ProbeAnswer
      <3>2. QED
        BY <1>4, <3>1 DEF WorkerGone, StageTypes
    <2>4. QED
      BY <2>2, <2>3
  <1>5. AllProved /\ stage # "probing" => AllProved'
    BY <1>4 DEF AllProved
  <1>6. ProbeInv'
    <2>1. stage' = "initializing" => probing' = 0
      BY <1>2, <1>3 DEF StageInv, ProbeInv
    <2>2. ASSUME stage' = "probing", NEW t \in Track, t < probing'
          PROVE  verdict'[t] = "ok" /\ worker'[t] = "gone"
      <3>1. t \in Nat /\ probing \in Nat /\ stage = "probing"
        BY <1>2, <2>2, ApplicationAssumption DEF StageTypes, Track
      <3>2. CASE t < probing
        <4>1. verdict[t] = "ok" /\ worker[t] = "gone"
          BY <2>2, <3>1, <3>2 DEF StageInv, ProbeInv
        <4>2. QED
          BY <1>4, <3>2, <4>1
      <3>3. CASE ~(t < probing)
        <4>1. Probe
          BY <2>2, <3>1, <3>3 DEF ProbeDeadline, ProbeAnswer, WorkerGone
        <4>2. t = probing /\ t # probing + 1 /\ probing > 0
          BY <2>2, <3>1, <3>3, <4>1, ApplicationAssumption DEF Probe, Track
        <4>3. verdict[t] = "ok" /\ worker[t] = "gone"
          BY <4>1, <4>2 DEF Probe
        <4>4. QED
          BY <4>1, <4>2, <4>3 DEF Probe, StageTypes
      <3>4. QED
        BY <3>2, <3>3
    <2>3. QED
      BY <2>1, <2>2 DEF ProbeInv
  <1>7. /\ Untouched' = Untouched /\ PeersSettled' = PeersSettled
        /\ UNCHANGED <<stopped, released>> /\ FullMedia' = FullMedia
    BY <1>1, PeersUntouched DEF sharedVars, FullMedia
  <1>8. StartingInv' /\ ServingInv' /\ EndInv'
    BY <1>1, <1>2, <1>5, <1>7 DEF sharedVars, StageInv, StartingInv, ServingInv, EndInv
  <1>9. QED
    BY <1>6, <1>8 DEF StageInv

\* The last probe proved, or the first one failed.
LEMMA StageProbed ==
  ASSUME StageTypes, StageInv, Probed
  PROVE  StageInv'
  <1>1. /\ stage = "probing" /\ worker[probing] = "gone" /\ probing > 0
        /\ UNCHANGED <<probing, verdict, worker>>
        /\ UNCHANGED lifecycleVars /\ UNCHANGED sharedVars
    BY DEF Probed
  <1>2. CASE verdict[probing] = "ok" /\ probing = Tracks /\ stage' = "wiring"
    <2>1. AllProved'
      <3>1. ASSUME NEW t \in Track PROVE verdict[t] = "ok" /\ worker[t] = "gone"
        BY <1>1, <1>2, ApplicationAssumption DEF StageInv, ProbeInv, Track
      <3>2. QED
        BY <1>1, <3>1 DEF AllProved
    <2>2. QED
      BY <1>1, <1>2, <2>1, PeersUntouched
         DEF sharedVars, StageInv, ProbeInv, StartingInv, FullMedia, ServingInv, EndInv
  <1>3. CASE stage' = "failing"
    BY <1>1, <1>3, PeersUntouched
       DEF sharedVars, StageInv, ProbeInv, StartingInv, FullMedia, ServingInv, EndInv
  <1>4. QED
    BY <1>2, <1>3 DEF Probed, ProbeEnds

\* Guard, adapter and listener.
LEMMA StageOpening ==
  ASSUME StageTypes, StageInv, Wire \/ WireFails \/ Listen \/ ListenFails
  PROVE  StageInv'
  <1>1. /\ UNCHANGED <<probing, verdict, worker, media>> /\ UNCHANGED lifecycleVars
        /\ stage \in {"wiring", "listening"}
    BY DEF Wire, WireFails, Listen, ListenFails, sharedVars
  <1>2. AllProved /\ FullMedia /\ server = "none" /\ Untouched /\ ~stopped /\ ~released
    BY <1>1 DEF StageInv, StartingInv, EndInv
  <1>3. AllProved' /\ FullMedia' /\ Untouched' /\ ~stopped' /\ ~released'
    BY <1>1, <1>2, PeersUntouched DEF AllProved, FullMedia
  <1>4. CASE Wire
    BY <1>2, <1>3, <1>4 DEF Wire, StageInv, ProbeInv, StartingInv, ServingInv, EndInv
  <1>5. CASE WireFails
    BY <1>2, <1>3, <1>5 DEF WireFails, StageInv, ProbeInv, StartingInv, ServingInv, EndInv
  <1>6. CASE Listen
    BY <1>2, <1>3, <1>6 DEF Listen, StageInv, ProbeInv, StartingInv, ServingInv, EndInv
  <1>7. CASE ListenFails
    BY <1>2, <1>3, <1>7
       DEF ListenFails, sharedVars, StageInv, ProbeInv, StartingInv, ServingInv, EndInv
  <1>8. QED
    BY <1>4, <1>5, <1>6, <1>7

\* A shutdown begins: what is open stays open until the peers have settled.
LEMMA StageShutdown ==
  ASSUME PeersInv, StageTypes, StageInv, Stop \/ Abort
  PROVE  StageInv'
  <1>1. /\ UNCHANGED <<startVars, sharedVars>> /\ stage \in {"serving", "failing"}
        /\ ~stopped /\ stopped' = TRUE /\ released' = released /\ Close(peers)
    BY DEF Stop, Abort, Shutdown, Serving
  <1>2. stage = "serving" => FullMedia /\ context = "open" /\ guard = "open" /\ adapter = "running" /\ server = "open"
    BY <1>1 DEF StageInv, ServingInv
  <1>3. Untouched => Untouched'
    BY <1>1 DEF Untouched, Close
  <1>4. AllProved' = AllProved /\ FullMedia' = FullMedia
    BY <1>1 DEF AllProved, FullMedia, startVars, sharedVars
  <1>5. QED
    BY <1>1, <1>2, <1>3, <1>4
       DEF startVars, sharedVars, StageInv, ProbeInv, StartingInv, ServingInv, EndInv

\* The rest of close().
LEMMA StageClosing ==
  ASSUME PeersInv, StageTypes, StageInv, CloseGuard \/ CloseMedia \/ CloseRest
  PROVE  StageInv'
  <1>1. /\ stopped /\ PeersSettled /\ UNCHANGED <<probing, verdict, worker>>
        /\ UNCHANGED <<endpoint, stopped>>
    BY DEF CloseGuard, CloseMedia, CloseRest, Release, startVars, lifecycleVars
  <1>2. stage \in {"serving", "failing", "failed"} /\ PeersSettled' /\ stopped'
    BY <1>1 DEF StageInv, EndInv, PeersSettled
  <1>3. Untouched' = Untouched /\ AllProved' = AllProved
    BY <1>1 DEF Untouched, AllProved
  <1>4. CASE CloseGuard
    BY <1>2, <1>3, <1>4
       DEF CloseGuard, startVars, lifecycleVars, StageInv, ProbeInv, StartingInv, ServingInv, EndInv
  <1>5. CASE CloseMedia
    BY <1>2, <1>3, <1>5
       DEF CloseMedia, startVars, lifecycleVars, StageInv, ProbeInv, StartingInv, ServingInv, EndInv
  <1>6. CASE CloseRest
    BY <1>2, <1>3, <1>6
       DEF CloseRest, CloseBackend, Closed, Release, Serving, StageTypes, StageInv, ProbeInv,
           StartingInv, ServingInv, EndInv
  <1>7. QED
    BY <1>4, <1>5, <1>6

\* Peers come and go while the application serves; none comes once it is stopping.
LEMMA StagePeers ==
  ASSUME PeersInv, StageTypes, StageInv, PeerStep
  PROVE  StageInv'
  <1>1. stage = "serving" /\ UNCHANGED <<startVars, sharedVars>>
    BY DEF PeerStep, Serving
  <1>2. PICK p \in Offers : OfferStep(p)
    BY DEF PeerStep
  <1>3. UNCHANGED <<stopped, released>>
    BY <1>2 DEF OfferStep, Post, PostBusy, Refuse, Accept, AcceptInvalid, Answer, Opened, Lose,
                Deadline, CloseEnds
  <1>4. stopped /\ PeersSettled => PeersSettled'
    BY <1>2 DEF PeersInv, TypeOK, LifecycleInv, SlotInv, PeersSettled, OfferStep, Post, PostBusy,
                Refuse, Accept, AcceptInvalid, SlotFree, Answer, Opened, Lose, Deadline, Close,
                CloseEnds
  <1>5. AllProved' = AllProved /\ FullMedia' = FullMedia
    BY <1>1 DEF AllProved, FullMedia, startVars, sharedVars
  <1>6. QED
    BY <1>1, <1>3, <1>4, <1>5
       DEF startVars, sharedVars, StageInv, ProbeInv, StartingInv, ServingInv, EndInv

\* Every step keeps the invariant of the application.
LEMMA StageStep == PeersInv /\ StageTypes /\ StageInv /\ [AppNext]_appVars => StageInv'
  <1> SUFFICES ASSUME PeersInv, StageTypes, StageInv, [AppNext]_appVars PROVE StageInv'
    OBVIOUS
  <1>1. CASE UNCHANGED appVars
    <2>1. UNCHANGED lifecycleVars /\ UNCHANGED startVars /\ UNCHANGED sharedVars
      BY <1>1 DEF appVars
    <2>2. AllProved' = AllProved /\ FullMedia' = FullMedia
      BY <2>1 DEF AllProved, FullMedia, startVars, sharedVars
    <2>3. QED
      BY <2>1, <2>2, PeersUntouched
         DEF startVars, sharedVars, StageInv, ProbeInv, StartingInv, ServingInv, EndInv
  <1>2. QED
    BY <1>1, StageBegin, StageProbing, StageProbed, StageOpening, StageShutdown, StageClosing,
       StagePeers DEF AppNext

\* The invariants together hold of a start that has not begun.
LEMMA StageInit == AppInit => PeersInv /\ StageTypes /\ StageInv
  <1> SUFFICES ASSUME AppInit PROVE PeersInv /\ StageTypes /\ StageInv
    OBVIOUS
  <1>1. PeersInv
    BY PeersInit DEF AppInit
  <1>2. StageTypes
    BY ApplicationAssumption DEF AppInit, StageTypes
  <1>3. StageInv
    BY DEF AppInit, Init, StageInv, ProbeInv, StartingInv, ServingInv, EndInv, Untouched
  <1>4. QED
    BY <1>1, <1>2, <1>3

\* The application's inductive invariant: what every stage of startApp() and close() holds,
\* over the invariant of its peers.
THEOREM ApplicationInvariant == AppSpec => [](AppTypeOK /\ LifecycleInv /\ StageInv)
  <1>1. PeersInv /\ StageTypes /\ StageInv => AppTypeOK /\ LifecycleInv /\ StageInv
    BY DEF PeersInv, StageTypes, AppTypeOK
  <1>2. QED
    BY <1>1, StageInit, PeersStep, StageTypesStep, StageStep, PTL DEF AppSpec

\* The listener is open only over proved backends, a peer is alive only over an open
\* context, guard and media plane, and a failed start or an ended close holds nothing.
THEOREM HeldWholeOrNotAtAll == AppSpec => []HoldsAllOrNothing
  <1>1. AppTypeOK /\ LifecycleInv /\ StageInv => HoldsAllOrNothing
    <2> SUFFICES ASSUME AppTypeOK, LifecycleInv, StageInv PROVE HoldsAllOrNothing
      OBVIOUS
    <2>1. ASSUME server # "none", NEW t \in Track PROVE verdict[t] = "ok" /\ worker[t] = "gone"
      BY <2>1 DEF StageInv, EndInv, ServingInv, AllProved
    <2>2. ASSUME Alive # {} \/ sessions # {}
          PROVE  /\ server = "open"
                 /\ adapter = "running" /\ context = "open" /\ guard = "open" /\ FullMedia
      <3>1. ~PeersSettled /\ ~Untouched
        BY <2>2 DEF Alive, PeersSettled, Untouched, LifecycleInv, SlotInv
      <3>2. QED
        BY <3>1 DEF StageInv, EndInv, ServingInv
    <2>3. ASSUME stage = "failed" \/ released
          PROVE  /\ Alive = {} /\ sessions = {} /\ peers = {}
                 /\ guard # "open" /\ media # "open" /\ context # "open" /\ adapter # "running"
                 /\ server # "open"
      <3>1. Untouched \/ PeersSettled
        BY <2>3 DEF StageInv, EndInv, LifecycleInv, StopInv
      <3>2. Alive = {} /\ sessions = {} /\ peers = {}
        BY <3>1 DEF Untouched, PeersSettled, Alive, LifecycleInv, SlotInv
      <3>3. QED
        BY <2>3, <3>2 DEF StageInv, EndInv
    <2>4. QED
      BY <2>1, <2>2, <2>3 DEF HoldsAllOrNothing, FullMedia
  <1>2. QED
    BY <1>1, ApplicationInvariant, PTL

=============================================================================
