---------------------------- MODULE Application ----------------------------
(***************************************************************************)
(* The whole life of the bridge: startApp() and close() of app/runtime.ts  *)
(* around the peers of PeerLifecycle, with the probes that prove every     *)
(* video backend before the listener opens (MediaService.probe,            *)
(* VideoSource.probe and the worker of media/worker.ts).                   *)
(*                                                                         *)
(* A step runs until the next await: the ROS context, each probe, the stop *)
(* of its worker, the listener, the media plane's close.  Tracks are       *)
(* numbered in the order of the configuration.                             *)
(***************************************************************************)
EXTENDS PeerLifecycle

CONSTANT Tracks   \* number of configured video tracks

ASSUME ApplicationAssumption == Tracks \in Nat

VARIABLES
  stage,       \* how far startApp() is, or how it ended
  probing,     \* the track being probed, 0 before the first
  verdict,     \* track -> its probe: none, waiting, ok, failed (it said so or exited), expired
  worker,      \* track -> its probe worker: none, asked, stopping, gone
  guard,       \* the command guard: none, open, closed
  media,       \* the media service: none, open, closed
  context,     \* the ROS context: none, open, closed, stuck (its shutdown threw)
  adapter,     \* the ROS adapter: none, running, closed
  server       \* the HTTPS listener: none, open, closed

startVars == <<stage, probing, verdict, worker>>
sharedVars == <<guard, media, context, adapter, server>>
appVars == <<lifecycleVars, startVars, sharedVars>>

Track == 1 .. Tracks
Serving == stage = "serving"

-----------------------------------------------------------------------------
(***************************************************************************)
(* startApp()                                                              *)
(***************************************************************************)

\* launch() or startApp() refuses the environment, files, configuration, limits or
\* credential before anything is made.
RefuseStart ==
  /\ stage = "initializing"
  /\ stage' = "failed"
  /\ UNCHANGED <<lifecycleVars, probing, verdict, worker, sharedVars>>

\* initialize() rejects after shutting down the context it made.
InitializeFails ==
  /\ stage = "initializing"
  /\ stage' = "failed"
  /\ context' \in {"closed", "stuck"}
  /\ UNCHANGED <<lifecycleVars, probing, verdict, worker, guard, media, adapter, server>>

\* The ROS context is there and the configuration parses; media exists with a video
\* section, whose tracks are probed next.
Initialized ==
  /\ stage = "initializing"
  /\ context' = "open"
  /\ media' = IF Tracks = 0 THEN "none" ELSE "open"
  /\ stage' = IF Tracks = 0 THEN "wiring" ELSE "probing"
  /\ UNCHANGED <<lifecycleVars, probing, verdict, worker, guard, adapter, server>>

\* The part of the configuration that needs the context is refused.
ConfigRefused ==
  /\ stage = "initializing"
  /\ context' = "open"
  /\ stage' = "failing"
  /\ UNCHANGED <<lifecycleVars, probing, verdict, worker, guard, media, adapter, server>>

\* The probe before answered ok: spawn the next track's worker, ask it, arm the deadline.
Probe ==
  /\ stage = "probing"
  /\ probing < Tracks
  /\ probing > 0 => verdict[probing] = "ok" /\ worker[probing] = "gone"
  /\ probing' = probing + 1
  /\ verdict' = [verdict EXCEPT ![probing + 1] = "waiting"]
  /\ worker' = [worker EXCEPT ![probing + 1] = "asked"]
  /\ UNCHANGED <<lifecycleVars, stage, sharedVars>>

\* probe_result, failed, garbage or an exit: the worker's own probe() stops it.
ProbeAnswer(ok) ==
  /\ stage = "probing"
  /\ probing > 0 /\ verdict[probing] = "waiting"
  /\ verdict' = [verdict EXCEPT ![probing] = IF ok THEN "ok" ELSE "failed"]
  /\ worker' = [worker EXCEPT ![probing] = "stopping"]
  /\ UNCHANGED <<lifecycleVars, stage, probing, sharedVars>>

StopExpired_Race ==
  /\ stage' = "failing"
  /\ UNCHANGED worker

\* source.stop() after the deadline: the worker is ours to end and its end is awaited;
\* one that its own probe is already stopping is not (child is undefined).
StopExpired ==
  IF worker[probing] = "asked"
  THEN worker' = [worker EXCEPT ![probing] = "stopping"] /\ UNCHANGED stage
  ELSE stage' = "failing" /\ UNCHANGED worker

ProbeDeadline ==
  /\ stage = "probing"
  /\ probing > 0
  /\ verdict[probing] \in {"waiting", "ok", "failed"}
  /\ worker[probing] \in {"asked", "stopping"}
  /\ verdict' = [verdict EXCEPT ![probing] = "expired"]
  /\ StopExpired
  /\ UNCHANGED <<lifecycleVars, probing, sharedVars>>

\* worker.stop(): the worker exits on shutdown, or is killed after its grace period.
WorkerGone(t) ==
  /\ worker[t] = "stopping"
  /\ worker' = [worker EXCEPT ![t] = "gone"]
  /\ UNCHANGED <<lifecycleVars, stage, probing, verdict, sharedVars>>

\* The race settles when the worker is gone: on to the guard and the adapter after the
\* last track, out with the first failure.
ProbeEnds ==
  IF verdict[probing] = "ok" THEN probing = Tracks /\ stage' = "wiring"
  ELSE stage' = "failing"

Probed ==
  /\ stage = "probing"
  /\ probing > 0 /\ worker[probing] = "gone"
  /\ ProbeEnds
  /\ UNCHANGED <<lifecycleVars, probing, verdict, worker, sharedVars>>

\* Guard, adapter and its entities, up to the await of listen().
Wire ==
  /\ stage = "wiring"
  /\ guard' = "open"
  /\ adapter' = "running"
  /\ stage' = "listening"
  /\ UNCHANGED <<lifecycleVars, probing, verdict, worker, media, context, server>>

\* adapter.start() throws, after closing itself and the backend.
WireFails ==
  /\ stage = "wiring"
  /\ guard' = "open"
  /\ adapter' = "closed"
  /\ context' \in {"closed", "stuck"}
  /\ stage' = "failing"
  /\ UNCHANGED <<lifecycleVars, probing, verdict, worker, media, server>>

Listen ==
  /\ stage = "listening"
  /\ server' = "open"
  /\ stage' = "serving"
  /\ UNCHANGED <<lifecycleVars, probing, verdict, worker, guard, media, context, adapter>>

ListenFails ==
  /\ stage = "listening"
  /\ stage' = "failing"
  /\ UNCHANGED <<lifecycleVars, probing, verdict, worker, sharedVars>>

-----------------------------------------------------------------------------
(***************************************************************************)
(* close(), after a signal or by the catch clause of startApp().           *)
(***************************************************************************)

\* stop() of the CLI.
Stop == Serving /\ Shutdown /\ UNCHANGED <<startVars, sharedVars>>

\* The catch clause.
Abort == stage = "failing" /\ Shutdown /\ UNCHANGED <<startVars, sharedVars>>

Closed(r) == IF r = "none" THEN "none" ELSE "closed"

\* The peers have settled: the guard closes and the media plane starts to.
CloseGuard ==
  /\ stopped /\ PeersSettled
  /\ guard = "open"
  /\ guard' = "closed"
  /\ UNCHANGED <<lifecycleVars, startVars, media, context, adapter, server>>

\* media.close() ends once its encoders' stops have.
CloseMedia ==
  /\ stopped /\ PeersSettled /\ guard # "open"
  /\ media = "open"
  /\ media' = "closed"
  /\ UNCHANGED <<lifecycleVars, startVars, guard, context, adapter, server>>

\* adapter.close(), or backend.close() without an adapter; an exception is reported.
CloseBackend ==
  IF context = "open"
  THEN adapter' = Closed(adapter) /\ context' \in {"closed", "stuck"}
  ELSE UNCHANGED <<adapter, context>>

\* Adapter or backend, then the listener; startApp() rejects when it was starting.
CloseRest ==
  /\ guard # "open" /\ media # "open"
  /\ Release
  /\ CloseBackend
  /\ server' = Closed(server)
  /\ stage' = IF Serving THEN stage ELSE "failed"
  /\ UNCHANGED <<probing, verdict, worker, guard, media>>

-----------------------------------------------------------------------------

\* The listener hands requests to the handler only while it is open.
PeerStep ==
  /\ Serving
  /\ \E p \in Offers : OfferStep(p)
  /\ UNCHANGED <<startVars, sharedVars>>

AppInit ==
  /\ Init
  /\ stage = "initializing"
  /\ probing = 0
  /\ verdict = [t \in Track |-> "none"]
  /\ worker = [t \in Track |-> "none"]
  /\ guard = "none" /\ media = "none" /\ context = "none" /\ adapter = "none"
  /\ server = "none"

AppNext ==
  \/ RefuseStart \/ InitializeFails \/ Initialized \/ ConfigRefused
  \/ Probe \/ (\E ok \in BOOLEAN : ProbeAnswer(ok)) \/ ProbeDeadline \/ Probed
  \/ \E t \in Track : WorkerGone(t)
  \/ Wire \/ WireFails \/ Listen \/ ListenFails
  \/ Stop \/ Abort \/ CloseGuard \/ CloseMedia \/ CloseRest
  \/ PeerStep

AppSpec == AppInit /\ [][AppNext]_appVars

Keeping == UNCHANGED <<startVars, sharedVars>>

\* Timers bound a body, a negotiation, a closing peer, a probe and a worker's stop; the
\* rest of startApp() and close() only waits for those.  A worker need not answer, and
\* initialize() and listen() need not return.
AppFairSpec ==
  /\ AppSpec
  /\ \A p \in Offers :
       /\ WF_appVars(Refuse(p) /\ Keeping)
       /\ WF_appVars(Deadline(p) /\ Keeping)
       /\ WF_appVars(CloseEnds(p) /\ Keeping)
  /\ \A t \in Track : WF_appVars(WorkerGone(t))
  /\ WF_appVars(Probe) /\ WF_appVars(ProbeDeadline) /\ WF_appVars(Probed)
  /\ WF_appVars(Wire \/ WireFails)
  /\ WF_appVars(Abort)
  /\ WF_appVars(CloseGuard) /\ WF_appVars(CloseMedia) /\ WF_appVars(CloseRest)

-----------------------------------------------------------------------------

\* Type invariant.
AppTypeOK ==
  /\ TypeOK
  /\ stage \in {"initializing", "probing", "wiring", "listening", "serving", "failing", "failed"}
  /\ probing \in 0 .. Tracks
  /\ verdict \in [Track -> {"none", "waiting", "ok", "failed", "expired"}]
  /\ worker \in [Track -> {"none", "asked", "stopping", "gone"}]
  /\ {guard, media, server} \subseteq {"none", "open", "closed"}
  /\ context \in {"none", "open", "closed", "stuck"}
  /\ adapter \in {"none", "running", "closed"}

\* The listener is open only when every backend has been proved and its probe worker
\* is gone; a peer can be alive only over an open context, guard and media plane
\* ("Revoke sessions first and close the ROS context last"); and a start that failed,
\* like a close that ended, holds nothing ("partial failures release all resources").
HoldsAllOrNothing ==
  /\ server # "none" => \A t \in Track : verdict[t] = "ok" /\ worker[t] = "gone"
  /\ Alive # {} \/ sessions # {} =>
       /\ server = "open"
       /\ adapter = "running" /\ context = "open" /\ guard = "open"
       /\ media = (IF Tracks = 0 THEN "none" ELSE "open")
  /\ stage = "failed" \/ released =>
       /\ Alive = {} /\ sessions = {} /\ peers = {}
       /\ guard # "open" /\ media # "open" /\ context # "open" /\ adapter # "running"
       /\ server # "open"

\* Once the context is there the start is decided except while listen() is pending,
\* whatever the probe workers do, and no probe worker outlives it for good: one that
\* never answers does not leave the bridge without a listener, an error or an exit.
StartEnds ==
  /\ stage = "probing" ~> stage \in {"listening", "serving", "failed"}
  /\ \A t \in Track : worker[t] # "none" ~> worker[t] = "gone"

=============================================================================
