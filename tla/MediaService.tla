---------------------------- MODULE MediaService ----------------------------
(***************************************************************************)
(* media/source.ts (VideoSource) and media/index.ts (MediaService), with   *)
(* the worker backend of media/worker.ts as the encoder: one source per    *)
(* configured track, an encoder process only while somebody watches.       *)
(*                                                                         *)
(* The bridge is single threaded; a step below is one run of the event     *)
(* loop: a call from a peer's router, a timer, a worker's packet, failure  *)
(* or exit, or the end of a worker's stop() with the continuations that    *)
(* were waiting for it.  Timers and the retry window are abstracted to     *)
(* "armed" and "inside": they may end at any later step.                   *)
(***************************************************************************)
EXTENDS Integers, FiniteSets, FiniteSetsExt

CONSTANTS
  Tracks,         \* configured video tracks
  Viewers,        \* sinks that may be attached
  MaxPipelines,   \* limits.maxPipelines
  SlowStop,       \* may stop() outlast the grace window and the start deadline?
  MaxEncoders     \* bound of the model: encoders started per track

ASSUME MediaAssumption ==
  /\ IsFiniteSet(Tracks)
  /\ MaxPipelines \in Nat \ {0}
  /\ SlowStop \in BOOLEAN
  /\ MaxEncoders \in Nat \ {0}

VARIABLES
  src,       \* track -> the state of its VideoSource
  closed     \* MediaService.closed

mediaVars == <<src, closed>>

\* Encoders of a track are numbered as they are created; 0 is none.
Encoder == 0 .. MaxEncoders

Source ==
  [viewers : SUBSET Viewers,
   phase : {"idle", "starting", "active", "failed"},
   encoder : Encoder,          \* this.source
   grace : BOOLEAN,            \* cancelGrace: the stop timer is armed
   deadline : BOOLEAN,         \* cancelStart: the start timer is armed
   release : Encoder,          \* this.release: the encoder whose stop() is awaited
   waiting : Nat,              \* begin() calls suspended on that release
   live : SUBSET (1 .. MaxEncoders),     \* worker processes that exist
   settled : SUBSET (1 .. MaxEncoders),  \* workers whose start() has resolved or rejected
   made : Encoder,             \* encoders created so far
   cooling : BOOLEAN,          \* inside retryMinIntervalMs after a failure
   quiet : BOOLEAN]            \* inside pliMinIntervalMs after a keyframe request

IdleSource ==
  [viewers |-> {}, phase |-> "idle", encoder |-> 0, grace |-> FALSE,
   deadline |-> FALSE, release |-> 0, waiting |-> 0, live |-> {}, settled |-> {},
   made |-> 0, cooling |-> FALSE, quiet |-> FALSE]

-----------------------------------------------------------------------------
(***************************************************************************)
(* The methods of VideoSource, as functions of its state.                  *)
(***************************************************************************)

running(s) == s.release # 0 \/ s.phase \notin {"idle", "failed"}

\* begin() once nothing is left to wait for: create the encoder and start it.
CreateEncoder(s) ==
  [s EXCEPT !.made = @ + 1, !.encoder = s.made + 1, !.live = @ \cup {s.made + 1}]

begin_NoWait(s) ==
  CreateEncoder([s EXCEPT !.phase = "starting", !.deadline = TRUE])

begin_NoDeadline(s) ==
  LET b == [s EXCEPT !.phase = "starting"] IN
  IF s.release # 0 THEN [b EXCEPT !.waiting = @ + 1] ELSE CreateEncoder(b)

\* begin() up to its first await: it waits only when a release is pending.
begin(s) ==
  LET b == [s EXCEPT !.phase = "starting", !.deadline = TRUE] IN
  IF s.release # 0 THEN [b EXCEPT !.waiting = @ + 1] ELSE CreateEncoder(b)

requestKeyframe(s) == [s EXCEPT !.quiet = TRUE]

add(s, v) ==
  LET a == [s EXCEPT !.viewers = @ \cup {v}, !.grace = FALSE] IN
  IF s.phase \in {"idle", "failed"} THEN begin(a)
  ELSE IF s.phase = "active" THEN requestKeyframe(a) ELSE a

removeAll_ActiveOnly(s, V) ==
  [s EXCEPT !.viewers = @ \ V,
            !.grace = @ \/ (s.viewers \cap V # {} /\ s.viewers \subseteq V /\ s.phase = "active")]

\* remove(), for the viewers V one after the other: the last to leave arms the timer.
removeAll(s, V) ==
  [s EXCEPT !.viewers = @ \ V,
            !.grace = @ \/ (s.viewers \cap V # {} /\ s.viewers \subseteq V /\ s.phase # "idle")]

\* finish(): both timers are cancelled, the encoder is dropped and stopped; a
\* failure also drops the viewers it was reported to.  With no encoder to stop
\* a pending release is left alone.
finish(s, phase) ==
  [s EXCEPT !.deadline = FALSE, !.grace = FALSE, !.encoder = 0, !.phase = phase,
            !.cooling = @ \/ phase = "failed",
            !.viewers = IF phase = "failed" THEN {} ELSE @,
            !.release = IF s.encoder # 0 THEN s.encoder ELSE @]

resume_Unconditionally(s) ==
  [s EXCEPT !.waiting = 0, !.made = @ + s.waiting,
            !.encoder = IF s.waiting > 0 THEN s.made + s.waiting ELSE @,
            !.live = @ \cup (s.made + 1 .. s.made + s.waiting)]

\* The begin() calls that waited run one after the other, before any other
\* event: each creates an encoder if the source still wants to start.
resume(s) ==
  IF s.phase = "starting" /\ s.viewers # {}
  THEN [s EXCEPT !.waiting = 0, !.made = @ + s.waiting,
                 !.encoder = IF s.waiting > 0 THEN s.made + s.waiting ELSE @,
                 !.live = @ \cup (s.made + 1 .. s.made + s.waiting)]
  ELSE [s EXCEPT !.waiting = 0]

\* finish() after stop(): the process is gone, the release is over.
stopped(s) == resume([s EXCEPT !.live = @ \ {s.release}, !.release = 0])

deliver(s) == [s EXCEPT !.phase = "active", !.deadline = FALSE]

-----------------------------------------------------------------------------

CanMake(s) == s.made + s.waiting < MaxEncoders

attachable_IgnoresRelease(t) ==
  /\ ~closed
  /\ \/ src[t].phase \notin {"idle", "failed"}
     \/ Cardinality({u \in Tracks : src[u].phase \notin {"idle", "failed"}}) < MaxPipelines
  /\ ~src[t].cooling

\* MediaService.attach accepts: the pipeline bound and the retry window.
attachable(t) ==
  /\ ~closed
  /\ \/ running(src[t])
     \/ Cardinality({u \in Tracks : running(src[u])}) < MaxPipelines
  /\ ~src[t].cooling

Attach(t, v) ==
  /\ v \notin src[t].viewers
  /\ attachable(t)
  /\ CanMake(src[t])
  /\ src' = [src EXCEPT ![t] = add(@, v)]
  /\ UNCHANGED closed

Detach(t, v) ==
  /\ ~closed
  /\ v \in src[t].viewers
  /\ src' = [src EXCEPT ![t] = removeAll(@, {v})]
  /\ UNCHANGED closed

\* A worker is told to stop within 3 s (SIGKILL).  Unless SlowStop, the grace
\* window and the start deadline are configured longer than that.
TimersMayFire(t) == SlowStop \/ src[t].release = 0

GraceExpires(t) ==
  /\ src[t].grace
  /\ TimersMayFire(t)
  /\ src' = [src EXCEPT ![t] = finish([@ EXCEPT !.grace = FALSE], "idle")]
  /\ UNCHANGED closed

DeadlineDue(t) == src[t].deadline /\ TimersMayFire(t)

StartDeadline(t) ==
  /\ DeadlineDue(t)
  /\ src' = [src EXCEPT ![t] = finish(@, "failed")]
  /\ UNCHANGED closed

CoolingEnds(t) ==
  /\ src[t].cooling
  /\ src' = [src EXCEPT ![t].cooling = FALSE]
  /\ UNCHANGED closed

\* A decoder asks for an IDR; requests inside the interval are dropped.
KeyframeRequest(t) ==
  /\ ~closed
  /\ ~src[t].quiet
  /\ src' = [src EXCEPT ![t] = requestKeyframe(@)]
  /\ UNCHANGED closed

QuietEnds(t) ==
  /\ src[t].quiet
  /\ src' = [src EXCEPT ![t].quiet = FALSE]
  /\ UNCHANGED closed

WorkerStarted(t, e) ==
  /\ e \in src[t].live \ src[t].settled
  /\ e # src[t].release
  /\ src' = [src EXCEPT ![t].settled = @ \cup {e}]
  /\ UNCHANGED closed

fromCurrent_Any(t, e) == TRUE

\* The guard of both callbacks handed to start(): this.source === source.
fromCurrent(t, e) == src[t].encoder = e

\* The first packet of a worker; one may still be in flight while it is stopped.
PacketDue(t, e) ==
  /\ e \in src[t].live
  /\ fromCurrent(t, e)
  /\ src[t].phase # "active"

Packet(t, e) ==
  /\ PacketDue(t, e)
  /\ src' = [src EXCEPT ![t] = deliver(@)]
  /\ UNCHANGED closed

\* A worker reports a failure or exits on its own.  The supervisor ignores one it
\* was told to stop; before start() resolved the failure rejects it, which begin()
\* answers with finish('failed') whatever this.source is by then.
FailureDue(t, e) ==
  /\ e \in src[t].live
  /\ e # src[t].release
  /\ fromCurrent(t, e) \/ e \notin src[t].settled

WorkerFails(t, e) ==
  /\ FailureDue(t, e)
  /\ src' = [src EXCEPT ![t] = finish([src[t] EXCEPT !.settled = @ \cup {e}], "failed")]
  /\ UNCHANGED closed

StopEnds(t) ==
  /\ src[t].release # 0
  /\ src' = [src EXCEPT ![t] = stopped(@)]
  /\ UNCHANGED closed

\* VideoSource.close(): the viewers are forgotten and the encoder stopped.
closeSource(s) == finish([s EXCEPT !.viewers = {}], "idle")

\* MediaService.close() closes every source.
Close ==
  /\ ~closed
  /\ closed' = TRUE
  /\ src' = [t \in Tracks |-> closeSource(src[t])]

-----------------------------------------------------------------------------

Init ==
  /\ src = [t \in Tracks |-> IdleSource]
  /\ closed = FALSE

\* What happens without anybody asking: timers and worker processes.
Timers(t) == GraceExpires(t) \/ StartDeadline(t) \/ CoolingEnds(t) \/ QuietEnds(t)

Workers(t) ==
  \/ StopEnds(t)
  \/ \E e \in src[t].live : WorkerStarted(t, e) \/ Packet(t, e) \/ WorkerFails(t, e)

Requests(t) ==
  \/ \E v \in Viewers : Attach(t, v) \/ Detach(t, v)
  \/ KeyframeRequest(t)

Next == Close \/ \E t \in Tracks : Timers(t) \/ Workers(t) \/ Requests(t)

Spec == Init /\ [][Next]_mediaVars

-----------------------------------------------------------------------------

\* Type invariant: the fields of the sources.
TypeOK ==
  /\ src \in [Tracks -> Source]
  /\ closed \in BOOLEAN

\* One track never holds two encoders, and the one it holds is the one the source
\* refers to or is releasing (source.ts, the comment on `release`): no worker runs
\* that nothing in the state machine can reach.
OneEncoderPerTrack ==
  \A t \in Tracks :
    src[t].live = {e \in {src[t].encoder, src[t].release} : e # 0} /\ Cardinality(src[t].live) <= 1

\* max_pipelines bounds the worker processes that exist, the ones in their grace
\* window and the ones still going away included (MediaService.attach).
PipelineBound ==
  Quantify(Tracks, LAMBDA t : src[t].live # {}) <= MaxPipelines

\* A source somebody watches is on its way to frames: starting with a deadline
\* armed, or active with an encoder.  A source nobody watches that still holds an
\* encoder has its grace timer armed, so it cannot stay on unwatched.  And a timer
\* never outlives what it was armed for: the start deadline fails only a start, the
\* grace timer stops only an encoder nobody watches.
NoStuckSource ==
  \A t \in Tracks :
    /\ src[t].deadline => src[t].phase = "starting"
    /\ src[t].grace => src[t].viewers = {} /\ src[t].phase \in {"starting", "active"}
    /\ src[t].viewers # {} =>
         \/ src[t].phase = "starting" /\ src[t].deadline
         \/ src[t].phase = "active" /\ src[t].encoder # 0
    /\ src[t].viewers = {} /\ src[t].encoder # 0 => src[t].grace

\* After a failure no encoder of that track is created inside the retry window,
\* whatever the peers ask and whatever start was already pending.
RetriesAreSpaced ==
  [][\A t \in Tracks : src'[t].made > src[t].made => ~src[t].cooling]_mediaVars

\* A watched start is decided: frames, or a failure every viewer is told of.
StartsAreDecided ==
  \A t \in Tracks : src[t].phase = "starting" ~> src[t].phase # "starting"

\* An encoder nobody watches goes away unless somebody comes back.
UnwatchedEncodersStop ==
  \A t \in Tracks :
    src[t].live # {} /\ src[t].viewers = {} ~> src[t].live = {} \/ src[t].viewers # {}

\* close() ends with every worker gone and none appearing afterwards.
CloseReleasesAll ==
  closed ~> [](\A t \in Tracks : src[t].live = {})

=============================================================================
