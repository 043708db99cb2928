---------------------------- MODULE PeerLifecycle ----------------------------
(***************************************************************************)
(* The life of a peer from its offer to its last resource: the HTTPS       *)
(* handler (signaling/handler.ts), accept() and close() of the application *)
(* (app/runtime.ts) and WebRtcEndpoint (transport/endpoint.ts).            *)
(*                                                                         *)
(* A step runs until the next await.  Reading a body, negotiating, closing *)
(* a PeerConnection and the application's shutdown are suspended           *)
(* operations; the deadlines that bound them may fire at any moment.       *)
(* Application starts and stops the whole, with the fairness of timers.    *)
(***************************************************************************)
EXTENDS Integers, FiniteSets

CONSTANTS
  Offers,      \* POST /offer requests; the peer made for one has its name
  MaxPeers,    \* limits.maxPeers
  MaxPending   \* handler limit on requests in progress, configured as maxPeers

ASSUME LifecycleAssumption == MaxPeers \in Nat \ {0} /\ MaxPending \in Nat \ {0}

VARIABLES
  request,     \* offer -> progress of its HTTP request
  endpoint,    \* offer -> state of its WebRtcEndpoint and PeerConnection
  timer,       \* endpoints whose negotiation deadline is armed
  connected,   \* endpoints whose three data channels are open
  sessions,    \* endpoints whose router holds a guard session
  peers,       \* the application's set of endpoints: the peer slots taken
  pending,     \* the handler's counter
  stopped,     \* application shutdown has begun
  released     \* shutdown is over: guard, media, ROS context and listener closed

lifecycleVars ==
  <<request, endpoint, timer, connected, sessions, peers, pending, stopped, released>>

InProgress == {"reading", "negotiating", "rejecting"}

-----------------------------------------------------------------------------

Close_NoCancel(P) ==
  LET ending == {p \in P : endpoint[p] = "open"} IN
  /\ endpoint' = [p \in Offers |-> IF p \in ending THEN "closing" ELSE endpoint[p]]
  /\ timer' = timer \ ending
  /\ connected' = connected \ ending
  /\ sessions' = sessions \ ending
  /\ UNCHANGED request

\* WebRtcEndpoint.close() of each of P, idempotent: the deadline is cleared, a
\* pending answer() is cancelled and will reject once the close is over, the router
\* revokes its session, and the PeerConnection starts closing.
Close(P) ==
  LET ending == {p \in P : endpoint[p] = "open"} IN
  /\ endpoint' = [p \in Offers |-> IF p \in ending THEN "closing" ELSE endpoint[p]]
  /\ timer' = timer \ ending
  /\ connected' = connected \ ending
  /\ sessions' = sessions \ ending
  /\ request' = [p \in Offers |->
       IF p \in ending /\ request[p] = "negotiating" THEN "rejecting" ELSE request[p]]

-----------------------------------------------------------------------------

\* An authenticated POST /offer below the pending limit.
Post(p) ==
  /\ ~released
  /\ request[p] = "none"
  /\ pending < MaxPending
  /\ pending' = pending + 1
  /\ request' = [request EXCEPT ![p] = "reading"]
  /\ UNCHANGED <<endpoint, timer, connected, sessions, peers, stopped, released>>

\* 503 at the limit.
PostBusy(p) ==
  /\ ~released
  /\ request[p] = "none"
  /\ pending >= MaxPending
  /\ request' = [request EXCEPT ![p] = "refused"]
  /\ UNCHANGED <<endpoint, timer, connected, sessions, peers, pending, stopped, released>>

\* The body is too large, late, aborted or malformed, or accept() refuses it.
Refuse(p) ==
  /\ request[p] = "reading"
  /\ request' = [request EXCEPT ![p] = "refused"]
  /\ pending' = pending - 1
  /\ UNCHANGED <<endpoint, timer, connected, sessions, peers, stopped, released>>

SlotFree == ~stopped /\ Cardinality(peers) < MaxPeers

AddSlot_Late(p) == UNCHANGED peers

\* peers.add before the first await of answer().
AddSlot(p) == peers' = peers \cup {p}

\* accept() and answer() up to the first await: slot, endpoint, router with its
\* guard session, deadline.
Accept(p) ==
  /\ request[p] = "reading"
  /\ SlotFree
  /\ AddSlot(p)
  /\ request' = [request EXCEPT ![p] = "negotiating"]
  /\ endpoint' = [endpoint EXCEPT ![p] = "open"]
  /\ sessions' = sessions \cup {p}
  /\ timer' = timer \cup {p}
  /\ UNCHANGED <<connected, pending, stopped, released>>

\* The offer's SDP is refused before a router exists: answer() closes and rejects.
AcceptInvalid(p) ==
  /\ request[p] = "reading"
  /\ SlotFree
  /\ AddSlot(p)
  /\ request' = [request EXCEPT ![p] = "rejecting"]
  /\ endpoint' = [endpoint EXCEPT ![p] = "closing"]
  /\ UNCHANGED <<timer, connected, sessions, pending, stopped, released>>

Answer_StopTimer(p) ==
  /\ request[p] = "negotiating"
  /\ endpoint[p] = "open"
  /\ request' = [request EXCEPT ![p] = "answered"]
  /\ pending' = pending - 1
  /\ timer' = timer \ {p}
  /\ UNCHANGED <<endpoint, connected, sessions, peers, stopped, released>>

\* The negotiation succeeds: the deadline stays armed until the channels are open.
Answer(p) ==
  /\ request[p] = "negotiating"
  /\ endpoint[p] = "open"
  /\ request' = [request EXCEPT ![p] = "answered"]
  /\ pending' = pending - 1
  /\ UNCHANGED <<endpoint, timer, connected, sessions, peers, stopped, released>>

\* opened(): the third channel is open.
Opened(p) ==
  /\ request[p] = "answered"
  /\ endpoint[p] = "open"
  /\ p \notin connected
  /\ connected' = connected \cup {p}
  /\ timer' = timer \ {p}
  /\ UNCHANGED <<request, endpoint, sessions, peers, pending, stopped, released>>

\* A failed negotiation, a lost connection, a forbidden channel or message, or a
\* router that closed itself.
Lose(p) ==
  /\ endpoint[p] = "open"
  /\ Close({p})
  /\ UNCHANGED <<peers, pending, stopped, released>>

Deadline(p) ==
  /\ p \in timer
  /\ Close({p})
  /\ UNCHANGED <<peers, pending, stopped, released>>

\* peer.close() ends, or its own deadline does: the slot is freed, and an answer()
\* that waited for it rejects its request.
CloseEnds(p) ==
  /\ endpoint[p] = "closing"
  /\ endpoint' = [endpoint EXCEPT ![p] = "closed"]
  /\ peers' = peers \ {p}
  /\ request' = [request EXCEPT ![p] = IF @ = "rejecting" THEN "refused" ELSE @]
  /\ pending' = IF request[p] = "rejecting" THEN pending - 1 ELSE pending
  /\ UNCHANGED <<timer, connected, sessions, stopped, released>>

Shutdown_NoClose ==
  /\ ~stopped
  /\ stopped' = TRUE
  /\ UNCHANGED <<request, endpoint, timer, connected, sessions, peers, pending, released>>

\* close() of the application: stop accepting, then close every peer.
Shutdown ==
  /\ ~stopped
  /\ stopped' = TRUE
  /\ Close(peers)
  /\ UNCHANGED <<peers, pending, released>>

PeersSettled_Skip == TRUE

\* Promise.allSettled over the peers found by Shutdown.
PeersSettled == \A p \in Offers : endpoint[p] \in {"none", "closed"}

\* Then guard, media plane, ROS context and listener.
Release ==
  /\ stopped /\ ~released
  /\ PeersSettled
  /\ released' = TRUE
  /\ UNCHANGED <<request, endpoint, timer, connected, sessions, peers, pending, stopped>>

-----------------------------------------------------------------------------

Init ==
  /\ request = [p \in Offers |-> "none"]
  /\ endpoint = [p \in Offers |-> "none"]
  /\ timer = {} /\ connected = {} /\ sessions = {} /\ peers = {}
  /\ pending = 0
  /\ stopped = FALSE /\ released = FALSE

OfferStep(p) ==
  \/ Post(p) \/ PostBusy(p) \/ Refuse(p) \/ Accept(p) \/ AcceptInvalid(p)
  \/ Answer(p) \/ Opened(p) \/ Lose(p) \/ Deadline(p) \/ CloseEnds(p)

Next == Shutdown \/ Release \/ \E p \in Offers : OfferStep(p)

Spec == Init /\ [][Next]_lifecycleVars

-----------------------------------------------------------------------------

\* Type invariant; the handler never holds more requests than its limit.
TypeOK ==
  /\ request \in [Offers -> InProgress \cup {"none", "answered", "refused"}]
  /\ endpoint \in [Offers -> {"none", "open", "closing", "closed"}]
  /\ {timer, connected, sessions, peers} \subseteq SUBSET Offers
  /\ pending \in 0 .. MaxPending
  /\ stopped \in BOOLEAN
  /\ released \in BOOLEAN

Alive == {p \in Offers : endpoint[p] \in {"open", "closing"}}

\* Slots, endpoints, guard sessions and requests agree on every path: never more
\* PeerConnections than configured, a session for exactly the open endpoints that hold
\* a slot, so that openSession, whose limit is the same number, never refuses an
\* accepted offer, and a pending counter that is the number of requests in progress.
SlotsAccounted ==
  /\ Cardinality(Alive) <= MaxPeers
  /\ Alive \subseteq peers
  /\ sessions = {p \in peers : endpoint[p] = "open"}
  /\ pending = Cardinality({p \in Offers : request[p] \in InProgress})
  /\ pending <= MaxPending

\* Every request gets a reply, whatever the peer and the transport do.
RequestsEnd ==
  \A p \in Offers : request[p] \in InProgress ~> request[p] \notin InProgress

\* A slot is used by a connected peer or comes back.
SlotsComeBack ==
  \A p \in Offers : p \in peers ~> p \in connected \/ p \notin peers

\* Shutdown completes.
ShutdownEnds == stopped ~> released

=============================================================================
