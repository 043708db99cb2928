----------------------------- MODULE VideoRouter -----------------------------
(***************************************************************************)
(* router/video.ts: the video control operations of every connected peer,  *)
(* composed with the media plane they share.  A peer's viewer of a track is *)
(* identified with the peer: a binding has one viewer for its whole life.  *)
(*                                                                         *)
(* Every operation of a peer, and every video.state event sent to it, ends *)
(* in SessionRouter.flush, which re-evaluates the peer's authorization     *)
(* before anything is sent; Settle is that common end of a step.           *)
(***************************************************************************)
EXTENDS MediaService

CONSTANTS
  MaxSlots,         \* video sections a peer has negotiated
  Overflowing       \* peers whose control queue may be full inside video.subscribe

ASSUME RouterAssumption == MaxSlots \in Nat \ {0} /\ Overflowing \subseteq Viewers

VARIABLES
  open,       \* peers whose session router is not closed
  allowed,    \* tracks whose scope the credential holds (the authorize hook)
  bound,      \* peer -> tracks one of its slots is bound to
  watching,   \* peer -> tracks the peer believes it watches
  attached    \* peer -> tracks whose viewer the media plane holds

routerVars == <<open, allowed, bound, watching, attached>>
videoVars == <<src, closed, open, allowed, bound, watching, attached>>

Peers == Viewers

\* release(track) for the tracks drop[p] of each peer p: detach what is attached.
Released(s, a, drop) ==
  [t \in Tracks |-> removeAll(s[t], {p \in Peers : t \in drop[p] \cap a[p]})]

\* Watched tracks the scope was withdrawn from, for the peers that flush.
Lost(w, flushed) == [p \in Peers |-> IF p \in flushed \cap open THEN w[p] \ allowed ELSE {}]

\* The end of a step that leaves the sources s, beliefs w and attachments a, after
\* the peers `flushed` have run revalidate().
Settle(s, w, a, flushed) ==
  LET lost == Lost(w, flushed) IN
  /\ src' = Released(s, a, lost)
  /\ watching' = [p \in Peers |-> w[p] \ lost[p]]
  /\ attached' = [p \in Peers |-> a[p] \ lost[p]]

\* bind(): the slot a track has, or a free one of its profile.
Bindable(p, t) == t \in bound[p] \/ Cardinality(bound[p]) < MaxSlots

Bind(p, t) ==
  /\ Bindable(p, t)
  /\ bound' = [bound EXCEPT ![p] = @ \cup {t}]

-----------------------------------------------------------------------------

SubscribeHead(p, t) == p \in open /\ t \in allowed /\ Bind(p, t)

\* video.subscribe, the media plane accepts the viewer.
Subscribe(p, t) ==
  /\ SubscribeHead(p, t)
  /\ t \notin watching[p]
  /\ attachable(t)
  /\ CanMake(src[t])
  /\ Settle([src EXCEPT ![t] = add(@, p)], [watching EXCEPT ![p] = @ \cup {t}],
            [attached EXCEPT ![p] = @ \cup {t}], {p})
  /\ UNCHANGED <<closed, open, allowed>>

\* The pipeline bound or the retry window refuses it: the slot stays bound, and
\* the error response ends in a flush too.
SubscribeRefused(p, t) ==
  /\ SubscribeHead(p, t)
  /\ t \notin watching[p]
  /\ ~attachable(t)
  /\ Settle(src, watching, attached, {p})
  /\ UNCHANGED <<closed, open, allowed>>

\* Any other message, and a subscribe to a track already watched.
OtherTraffic(p) ==
  /\ p \in open
  /\ Settle(src, watching, attached, {p})
  /\ UNCHANGED <<closed, open, allowed, bound>>

Unsubscribe(p, t) ==
  /\ p \in open
  /\ t \in bound[p]
  /\ LET drop == [q \in Peers |-> IF q = p THEN {t} ELSE {}] IN
     Settle(Released(src, attached, drop), [watching EXCEPT ![p] = @ \ {t}],
            [attached EXCEPT ![p] = @ \ {t}], {p})
  /\ UNCHANGED <<closed, open, allowed, bound>>

\* VideoRouter.close: the peer closes for any reason.  A control queue that
\* overflows while a notification of the media plane is sent is such a reason;
\* it closes the peer before the next step.
PeerClose(p) ==
  /\ p \in open
  /\ open' = open \ {p}
  /\ src' = Released(src, attached, [q \in Peers |-> IF q = p THEN bound[p] ELSE {}])
  /\ watching' = [watching EXCEPT ![p] = {}]
  /\ attached' = [attached EXCEPT ![p] = {}]
  /\ UNCHANGED <<closed, allowed, bound>>

\* The exception: attach() notifies the new viewer before video.subscribe has
\* recorded the attachment, so a close inside it releases every track but this one.
SubscribeOverflow(p, t) ==
  /\ p \in Overflowing
  /\ SubscribeHead(p, t)
  /\ t \notin watching[p]
  /\ attachable(t)
  /\ CanMake(src[t])
  /\ open' = open \ {p}
  /\ src' = Released([src EXCEPT ![t] = add(@, p)], attached,
                     [q \in Peers |-> IF q = p THEN bound[p] ELSE {}])
  /\ watching' = [watching EXCEPT ![p] = {t}]
  /\ attached' = [attached EXCEPT ![p] = {t}]
  /\ UNCHANGED <<closed, allowed>>

\* External: the deployment withdraws a scope.
Revoke(t) ==
  /\ t \in allowed
  /\ allowed' = allowed \ {t}
  /\ UNCHANGED <<src, closed, open, bound, watching, attached>>

-----------------------------------------------------------------------------
(***************************************************************************)
(* Steps of the media plane, with what its notifications do to the peers.  *)
(***************************************************************************)

Failed_KeepAttached(t, f) ==
  LET told == src[t].viewers
      Forget(b) == [p \in Peers |-> IF p \in told THEN b[p] \ {t} ELSE b[p]]
  IN
  /\ Settle([src EXCEPT ![t] = f], Forget(watching), attached, told)
  /\ UNCHANGED <<closed, open, allowed, bound>>

\* finish('failed') reports to every viewer, whose binding forgets the track.
Failed(t, f) ==
  LET told == src[t].viewers
      Forget(b) == [p \in Peers |-> IF p \in told THEN b[p] \ {t} ELSE b[p]]
  IN
  /\ Settle([src EXCEPT ![t] = f], Forget(watching), Forget(attached), told)
  /\ UNCHANGED <<closed, open, allowed, bound>>

SourceFails(t) ==
  \/ DeadlineDue(t) /\ Failed(t, finish(src[t], "failed"))
  \/ \E e \in src[t].live :
       /\ FailureDue(t, e)
       /\ Failed(t, finish([src[t] EXCEPT !.settled = @ \cup {e}], "failed"))

\* The first packet: every viewer is told the track is active.
SourceActive(t) ==
  \E e \in src[t].live :
    /\ PacketDue(t, e)
    /\ Settle([src EXCEPT ![t] = deliver(@)], watching, attached, src[t].viewers)
    /\ UNCHANGED <<closed, open, allowed, bound>>

\* Steps nobody is told of.
SourceQuiet(t) ==
  /\ \/ GraceExpires(t) \/ CoolingEnds(t) \/ QuietEnds(t) \/ StopEnds(t)
     \/ \E e \in src[t].live : WorkerStarted(t, e)
  /\ UNCHANGED routerVars

\* A decoder's request is forwarded only while its peer watches.
ForwardKeyframe(p, t) ==
  /\ p \in open
  /\ t \in watching[p]
  /\ KeyframeRequest(t)
  /\ UNCHANGED routerVars

\* runtime.ts close(): the media plane goes after every peer has closed.
Shutdown ==
  /\ open = {}
  /\ Close
  /\ UNCHANGED routerVars

-----------------------------------------------------------------------------

NoTracks == [p \in Peers |-> {}]

RouterInit ==
  /\ Init
  /\ open = Peers
  /\ allowed = Tracks
  /\ bound = NoTracks /\ watching = NoTracks /\ attached = NoTracks

PeerStep(p) ==
  \/ PeerClose(p)
  \/ OtherTraffic(p)
  \/ \E t \in Tracks :
       \/ Subscribe(p, t) \/ SubscribeRefused(p, t) \/ SubscribeOverflow(p, t)
       \/ Unsubscribe(p, t) \/ ForwardKeyframe(p, t)

RouterNext ==
  \/ \E p \in Peers : PeerStep(p)
  \/ \E t \in Tracks : Revoke(t) \/ SourceFails(t) \/ SourceActive(t) \/ SourceQuiet(t)
  \/ Shutdown

RouterSpec == RouterInit /\ [][RouterNext]_videoVars

\* As for the media plane: timers fire and a worker told to stop exits.
RouterFairSpec ==
  /\ RouterSpec
  /\ \A t \in Tracks :
       /\ WF_videoVars(GraceExpires(t) /\ UNCHANGED routerVars)
       /\ WF_videoVars(StopEnds(t) /\ UNCHANGED routerVars)
       /\ WF_videoVars(DeadlineDue(t) /\ Failed(t, finish(src[t], "failed")))

-----------------------------------------------------------------------------

\* Type invariant.
RouterTypeOK ==
  /\ TypeOK
  /\ open \subseteq Peers
  /\ allowed \subseteq Tracks
  /\ {bound, watching, attached} \subseteq [Peers -> SUBSET Tracks]

\* Watching ends with the peer (docs/design.md section 15): a closed peer leaves no
\* viewer behind that would keep an encoder running and receive its packets.
ClosedPeersHoldNothing ==
  \A t \in Tracks : src[t].viewers \subseteq open

\* What the routers record agrees with the media plane across refusals, failures,
\* revocations and restarts: the attachments are the viewers the running media plane
\* holds, so that nothing is detached twice or never; a peer told it watches a track is
\* served by it, so that subscribing again may be a no-op; slots are never overbooked;
\* and a closed peer whose control queue never overflowed has left nothing.
RecordsMatchMedia ==
  \A p \in Peers :
    /\ ~closed => attached[p] = {t \in Tracks : p \in src[t].viewers}
    /\ p \in open => \A t \in watching[p] :
                       p \in src[t].viewers /\ src[t].phase \in {"starting", "active"}
    /\ Cardinality(bound[p]) <= MaxSlots
    /\ p \notin open \cup Overflowing => \A t \in Tracks : p \notin src[t].viewers

=============================================================================
