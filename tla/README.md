# Verification of ros-webrtc-bridge

The bridge (`packages/bridge/src`, Node.js) lets a browser peer exchange ROS 2
messages over WebRTC data channels and watch camera tracks over WebRTC video. This
directory holds TLA+ models of its state machines, TLC configurations that check them
on small instances, and TLAPS proofs of every safety property that the passing runs check.
`PROJECT.json` is the index: components, runs, mutants, the map from definitions to
source lines, findings, hazards and theorems.

File names below are relative to `packages/bridge/src` unless they start with another
directory of the repository.

## 1. Inventory

The bridge is one Node.js process: single threaded, so an operation is atomic up to its
next `await`, callback into injected code, or return to the event loop. What makes it
hard is what happens at those points, the timers that race them, and the resources that
several peers share.

| Part | State | Operations | Interacts with | What makes it correct |
|---|---|---|---|---|
| Signaling handler (`signaling/handler.ts`) | pending counter | `POST /offer`, `/health`, documents | calls `accept` of the runtime | every request gets a reply; the counter is exact on every path |
| Application runtime (`app/runtime.ts`) | set of endpoints, `stopped`, shared guard, media, adapter, listener | start, accept, close | owns everything below | a start holds everything or nothing; peers never exceed `maxPeers`; shared resources are released last; start and shutdown end |
| WebRTC endpoint (`transport/endpoint.ts`) | data channels, deadline, router, video slots | answer, close, channel events, send | PeerConnection (external), router | an unconnected peer gives its slot back; a refused send is resumed |
| SDP parser (`transport/sdp.ts`) | none | parseOffer | endpoint | accepts only the supported offer shape |
| Session router (`router/index.ts`, `protocol.ts`, `request-cache.ts`) | subscriptions, publishers, request cache, rate window | control requests, publish, sample, flush, close | guard, queue, ROS adapter, video router | a retransmitted request runs once (but see finding 4); samples stay ordered and bounded; a closed router holds nothing |
| Delivery queue (`session/delivery-queue.ts`) | per-stream queues, shared byte count | register, enqueue, peek, dequeue, closeStream, clear | router | bytes are exact and bounded; reliable streams lose nothing silently |
| Command guard (`session/command-guard.ts`) | sessions, handles with leases, clock, tickets | openSession, openHandle, arm, prepare, ticket.publish, closeHandle, revokeSession, close | router; calls the injected `authorize` hook | one writer per topic, fenced by lease, in order, at most once |
| Video router (`router/video.ts`) | per peer: slot bindings, watched and attached tracks | video.subscribe, video.unsubscribe, revalidate, close, viewer callbacks | media service | its record of what is attached agrees with the media plane |
| Media service and sources (`media/index.ts`, `media/source.ts`) | per track: viewers, phase, encoder, timers, pending release | attach, detach, requestKeyframe, probe, close | encoders, video routers | one encoder per track, bounded processes, nothing runs for nobody |
| Worker supervision (`media/worker.ts`, `app/cli.ts` workerPort) | one child process per encoder | probe, start, keyframe, stop, deframing | media source, child process | a start is decided; a stop ends; packets are whole however they arrive |
| ROS adapter (`ros/adapter.ts`, `ros/rclnodejs.ts`) | one ROS subscription or publisher per binding, listeners | start, subscribe, publish, close | router, rclnodejs (external) | listeners are isolated from one another; partial starts are undone |
| Codec, descriptors, configuration (`codec/`, `ros/descriptor.ts`, `ros/representation.ts`, `config/`) | none | pure conversion and validation | startup, router | only valid values and configurations pass |
| Media worker (`worker/media_worker.py`) | GStreamer pipeline in a child process | line protocol, RTP output | worker supervision | external |
| Credential store (`scripts/credential-store.mjs`) | a credential file | ensure, read | host setup | created once, never partly written, whatever races or crashes |
| Launch file, test fixture, vendored WebRTC stack (`launch/`, `media/fixture.ts`, `vendor/`) | – | – | – | not the bridge's own state |

Hard behaviours, each listed with its line under `hazards` in `PROJECT.json`:

- *re-entrancy*: the guard calls `authorize` half-way through an operation; `attach`
  calls back into the subscribing peer before it returns; a ROS listener may remove
  others, or close the adapter, in the middle of a delivery;
- *suspended operations*: `begin()` waits for the release of an earlier encoder,
  `answer()` for a negotiation, `startApp()` for each probe, `close()` for every peer;
- *timers against events*: lease expiry, negotiation and close deadlines, grace window,
  start and probe deadlines, retry window;
- *partial failure and crashes*: a start that fails half-way, a cleanup that throws, a
  credential file interrupted by a power loss;
- *byte streams*: packets cut anywhere, numbers that wrap, encoders that are replaced;
- *shared limits*: peers, sessions, handles, pipelines, bytes of one peer, bytes of one
  channel;
- *lost wake-ups*: the low-water event of a channel, the last viewer's departure.

## 2. Modules

| Module | Models | Composes |
|---|---|---|
| `CommandGuard` | `session/command-guard.ts` | refines `WriterAuthority` |
| `WriterAuthority` | the promise of the guard: abstract specification | – |
| `CommandGuardProofs` | theorems about `CommandGuard`; that it implements `WriterAuthority` | `CommandGuard` |
| `MediaService` | `media/source.ts`, `media/index.ts`, worker life from `media/worker.ts` | – |
| `RtpStream` | RTP deframing of `media/worker.ts`, delivery and renumbering of `media/source.ts` | `MediaService` |
| `VideoRouter` | `router/video.ts` for every peer | `MediaService` |
| `DeliveryQueue` | `session/delivery-queue.ts`, as operators | – |
| `PeerDelivery` | sending side of `router/index.ts` and `transport/endpoint.ts` | `DeliveryQueue` |
| `SessionControl` | receiving side of `router/index.ts`, `router/request-cache.ts` | – |
| `PeerLifecycle` | `signaling/handler.ts`, accept and close of `app/runtime.ts`, `transport/endpoint.ts` | – |
| `Application` | start and close of `app/runtime.ts`, probes of `media/`, `launch` and `main` of `app/cli.ts` | `PeerLifecycle` |
| `RosAdapter` | `ros/adapter.ts` | – |
| `CredentialStore` | `scripts/credential-store.mjs` | – |
| `SumProofs` | finite sums, and induction the provers can use; no model | – |
| `MediaProofs` | theorems about the media plane: alone, under the routers, with its byte streams | `VideoRouter`, `RtpStream`, `SumProofs` |
| `PeerDeliveryProofs` | theorems about `PeerDelivery` and the queue under it | `PeerDelivery`, `SumProofs` |
| `SessionControlProofs`, `ApplicationProofs`, `RosAdapterProofs`, `CredentialStoreProofs` | theorems about the module they are named for; `ApplicationProofs` also about `PeerLifecycle` | that module |
| `MC*` | constants of the runs | one of the above |

Operators whose name ends in an underscore and a word (`Close_NoCancel`,
`begin_NoWait`) are mutated forms of the definition that follows them. No specification
uses them; they exist to show that each property fails when the code is broken in that
way.

### CommandGuard

`sessions` and `handles` are the two maps of the class, `tickets` the reservations that
`prepare` returned and nobody has redeemed, `toRos` the history of ROS publish calls.
`openHandle`, `arm`, `prepare` and a ticket's `publish` call the `authorize` hook in the
middle. Each is two actions: the call pushes a frame on `calls`, the return (`...Return`)
pops it and finishes in whatever state the hook left; actions taken while the stack is
not empty are calls made *inside* the hook. `Throw` is a hook that denies or throws.
Operations that fail without changing anything are not actions; where the code has
already changed something when it fails (an identifier spent, the clock advanced, a ticket consumed) the
action does that. Time is read, never advanced by the guard: a return takes any
reading not before the last one.

`WriterAuthority` says what this is for, with no handles or hooks: a topic has a writer
or none, authority passes only from nobody, from an expired lease or within a session,
lease numbers grow, and only the writer's commands come out, in order.
`ImplementsAuthority` maps the writer of a topic to the handle that holds its lease,
expired or not.

### MediaService and VideoRouter

`src[t]` is the state of the `VideoSource` of a track: its fields, the child processes
that exist (`live`) and the number of `begin()` calls suspended on `release`. An action
is one run of the event loop. Durations are abstracted: an armed timer may fire at any
later step. One relation between durations matters and is a constant. `SlowStop = FALSE`
says that a worker's `stop()` ends before the grace window and the start deadline of its
source do: the forced kill comes after 3000 ms (`app/cli.ts`), so this is a
configuration with `stop_grace_ms` and `start_timeout_ms` above that. `SlowStop = TRUE`
drops the assumption; `tests/ros/connection-video.yaml` is such a configuration.

`VideoRouter` adds, for every peer, what it has bound to its slots, what it believes it
watches and what is attached, with the viewer callbacks from the media plane executed in
the same step, and the permission check at the end of every handler (`Settle`).
`Overflowing` are the peers whose control queue can be full at the moment of the
callback inside `video.subscribe`: that is finding 2, and the properties that hold say
what remains true of everybody else while it happens to one of them.

### RtpStream

The bytes under the media plane. A worker writes the packets of `Packets`, framed as
`worker/media_worker.py` frames them, then `Junk`, which may break the contract. `Arrive`
takes the next `n` bytes of any worker, for every `n`, also after it was told to stop or
has exited, and runs the whole handler: the deframer's loop (`deframe`), `deliver()` of
each packet if the worker is still the source's, with the phase change of the first one,
then the failure of a broken stream. `Renew` joins every step of `MediaService` and
forgets the origin when it creates an encoder. Widths are parameters: a byte has `Base`
values and so has a timestamp, sequence numbers wrap at `SeqNumbers`; the code has 256,
2^32 and 2^16. The assumptions on the streams are the code's: a packet is as long as
`MIN_PACKET_BYTES` and `MAX_PACKET_BYTES` admit and its length fits two bytes, and `Junk`
is what follows the last whole packet, so it does not begin with another. `FramesIntact` compares the deframer with a definition that knows where
the packets are; `ContinuousTrack` looks at what the viewers get.

### DeliveryQueue and PeerDelivery

The queue is a record and its operations functions of it. `session` holds the queue, the
subscriptions in order, what each channel's transport buffers (`flight`), and the
history of what was sent. Every handler ends in `flush()`, which is part of its action.
Messages are a sequence number and a size. `Transmit` is the SCTP association (external)
taking one message from a channel's buffer and, when the amount falls across the
threshold, raising the event that flushes. A message numbered once is never renumbered;
requests and sample sizes come from small sets, a sample one byte too large included.

### SessionControl

A peer's requests and publications, the counterpart of `PeerDelivery`. `cache` and
`cacheBytes` are the fields of `RequestCache`, `rate` the control window; `streams` and
`publishers` are the maps of the router, `listeners` and `granted` what the ROS adapter
and the command guard hold for this peer. `Execute` is a request that runs, from the rate
check to the stored reply; `Answer` one that gets its stored reply or fails after the
lookup, which prunes the cache all the same; `Refuse` one that fails before. `Publish`
spends the sequence number and the rate before ROS is called, and `called` says whether
the guard's ticket and the last permission check let the call happen. A refusal by the
hook or by the guard is possible in every state; the guard itself is `CommandGuard`.

Sizes matter in two places. The largest message (`MaxBytes`) is the configured one or
what the peer's offer advertises, whichever is less, and neither has a lower bound. A
reply echoes the identifier of its request, which the peer chooses (`LongIds`), and
carries fresh identifiers besides. So a request may fit a message and its reply not: the
operation runs, its reply is an error and is not stored (the `ELSE` of `Execute`, finding
4). The history `ran` says of every operation whether its reply fitted.

A router may close in the middle of a request: `error()` closes it when the control queue
takes no more. That is the parameter `full` of a step, possible in any of them, and what
the step has done by then (the operation run, ROS called, identifiers issued) stays done.
`ExecuteClosed` is the case where this happens *inside* the operation: a video operation
whose event overflows the queue. `control()` goes on and stores the reply in the cache
that `close()` has just cleared; it stays there unused, since a closed router receives
nothing, and within the budget. What else a video operation does is in `VideoRouter`.

### PeerLifecycle

An offer and the peer made for it share a name. `request` is the progress of the HTTP
request, `endpoint` that of the endpoint; `peers` is the runtime's set, `timer` the armed
negotiation deadlines, `sessions` the guard sessions. `Accept` runs from the end of the
body to the first `await` of the negotiation. `Close` is the whole of
`WebRtcEndpoint.close()` up to the asynchronous close of the PeerConnection, which
`CloseEnds` finishes (successfully or by its own deadline).

### Application

`stage` follows `startApp()` from one `await` to the next, the other variables say which
shared resources exist. Tracks are probed in order, each only after the
one before succeeded; `worker[t]` is the probe's own process
and `verdict[t]` how its race with the deadline stands. The deadline behaves in two ways:
a worker that has not answered is stopped and awaited; one that its own `probe()` is
already stopping is not awaited (`child` is undefined), so `startApp()` fails while the
process is still on its way out. A failure runs the same `close()` as a signal, whose
steps (`CloseGuard`, `CloseMedia`, `CloseRest`) wait for what they wait for in the code.
`context = "stuck"` is a shutdown of the ROS context that threw: it is reported and the
rest is still released. The steps of `PeerLifecycle` happen while the stage is
`serving`.

### RosAdapter

`start()` is a loop of `Register` steps that may fail before each and before `spin()`.
A sample is delivered alias by alias: `NextAlias` takes the snapshot of the listeners,
`Invoke` calls one that is still listening, `Return` comes back from it, normally or not.
While a callback is `busy` it may do what any other code may: subscribe, unsubscribe
anybody, close. `close()` may also come before `start()`, which then refuses. A context
is `stuck` when its shutdown threw: `close()` reports that, and nothing is left to try.
`heard` and `due` are histories of the current sample. The order among the listeners of a
name is left open.

### CredentialStore

One action per awaited file operation of `ensureCredential` and `readCredential`, for
several callers in processes of their own; `Stage` takes `mkdtemp` and `open` together,
since only the caller itself sees what lies between them. A file is named by the caller
that wrote it. The file system keeps what was synced: after `PowerLoss` an entry of a
directory that was not synced is there or not, and content that was not synced may be
torn; what has survived whole is on disk, so it counts as synced from then on. `Fails` is an
I/O error or a refused file at any operation, `Kill` the end of a process at any of them.

## 3. Runs

Every property of a passing run has a mutant that breaks it.

| Run | Bounds | Shows |
|---|---|---|
| `command_guard` | 2 sessions, 2 handles; explored are 2 topics, 3 instants, one sequence number, 6 identifiers and hooks 1 deep, and 1 topic, 2 instants and hooks 2 deep with 5 identifiers, or with 4 and sequence 0..1 | type, one lease per topic, fencing, no stolen lease, no orphan handle, limits, order, publication only under a live lease; the guard implements `WriterAuthority` |
| `video_stream` | 1 track, 1 viewer, 3 encoders of 9, 6 and 4 bytes in any chunks, bytes 0..3, sequence numbers 0..2, `SlowStop = TRUE` | packets whole, one continuous track, no stuck source, timers owned, retries spaced, starts decided |
| `media_slow_stop` | 1 track, 1 viewer | **violation**, finding 1 |
| `video_peers` | 2 peers, 2 tracks, 1 pipeline, 1 slot, 2 encoders per track, `SlowStop = FALSE`, one peer overflowing | what peers believe, what routers record and what the media plane holds agree; one encoder per track, process bound, unwatched encoders stop, close releases all |
| `video_overflow` | 2 peers, 1 track, one peer overflowing | **violation**, finding 2 |
| `delivery_queues` | a reliable and a latest stream with 4 and 2 samples, 2 responses, 4 bytes per peer, messages of 1..2 bytes, channel buffer 3 | bytes are exact, each stream keeps its policy (reliable: complete; latest: never going back), control goes first, nothing denied is sent; no wake-up is lost and every queued message is sent |
| `delivery_stalls` | one stream, channel buffer 2 | **violation** of the wake-up invariant, finding 3 |
| `application` | 2 tracks probed, 4 offers, 2 slots, 2 pending requests | everything or nothing is held at every stage; slots, sessions and the counter are exact; start, requests, slots and shutdown end |
| `session_control` | 2 request identifiers, one of them long, messages of 2 units, 1 output, a guarded and a plain command, 2 handles, lifetime 2, 3 instants | a request that was answered runs once in the lifetime of its reply, cache and handles are bounded and exact, records agree with guard and adapter also when the router closes within a request, ROS is called once and in order |
| `request_rerun` | the same | **violation** of the promise of the request cache, finding 4 |
| `credential_store` | 3 callers, 2 power losses | the path never holds a partly written credential; it is created once, and one that `ensure` returned survives |
| `ros_adapter` | 5 names over 3 native entities, 4 callbacks | a start holds all its entities or none; a sample reaches every listener once, and none that was removed |

Why the bounds are enough. *Guard*: two sessions with a handle each are the smallest
instance in which a lease is taken over; six identifiers allow two sessions, two handles
and two leases; three instants let a lease of one unit be granted, expire and be
replaced, and meet the largest time. Two nested hooks let one operation be overtaken by a
second that is itself overtaken; that part of the run pays for the depth with a topic, an
instant and an identifier, and with one more where there are two sequence numbers, so that
tickets can be redeemed out of order. `Explored` in `MCCommandGuard` is the union of the
parts. The theorems remove the bounds. *Media*: two encoders
suffice for a restart that waits for a release, three for a retry after an abandoned
start and for the two encoders of finding 1; two tracks and one pipeline make the bound
refuse. *Stream*: the first encoder's timestamps wrap between its two packets, one packet
has a length of two digits, the second and third stream end in junk that breaks the
contract or leaves a length cut in half, and four packets wrap the sequence number.
*Adapter*: two names share a subscription, so that a delivery has two snapshots, and four
callbacks let one remove another that removes a third. *Credential store*: a winner, a
loser and one who comes after a power loss, twice. *Delivery*: the byte budget holds two
largest messages, so that control and samples compete for it, and a stream overflows both
by count and by bytes; the bounds on samples and responses are apart, so that both streams
hold samples at once while a response waits. *Application*: a second probe
follows a first that succeeded, and there are two offers more than slots and places. *Session
control*: a lifetime of two in three instants lets an identifier be used just before and
just after it expired. The long identifier makes a subscription's reply too long for a
message while its request, and the reply to a removal, still fit. The byte budget admits
the long entry after a short one, which fills it exactly, and refuses it after one with
a long reply; one handle too many can be asked for.

`MaxId`, `MaxDepth`, `MaxTime` and `MaxSeq` of `SessionControl`, `MaxEncoders`,
`MaxSamples` and `MaxResponses` are bounds of the
models, not of the code. Deadlock checking is off where a system may rest: everything is
closed, or a bound is used up.

### Fairness

- `RtpStream`, `VideoRouter`: armed timers fire, because the event loop runs; a stop
  ends, because the worker is killed after 3 s. Nothing obliges a peer to do anything, a
  worker to produce a packet, or a failure to happen.
- `PeerDelivery`: a channel with buffered messages transmits one eventually (SCTP makes
  progress on an open connection). Peers and ROS owe nothing.
- `Application`: a probe's deadline fires and its worker's stop ends, by force after 3 s;
  a body is read or its request refused by its deadline, a negotiation
  deadline fires, a PeerConnection's close ends or times out, and start and
  shutdown continue when what they wait for has ended. Probes and negotiations may never
  succeed, `initialize()` and `listen()` may never return, clients may never ask, and
  shutdown may never be requested.

## 4. Findings

1. **Two encoders of one track** (`media_slow_stop`). A `begin()` that waited for a
   release re-checks only that the source is starting and watched. If its start was
   abandoned and another begun while the same release is still pending, both continue
   and both create an encoder; the first is unreachable and is never stopped. It takes a
   worker that needs longer to stop than its source's grace window or start deadline.
2. **A viewer left behind** (`video_overflow`). `attach()` notifies the viewer before
   `video.subscribe` records the attachment. When that event overflows the peer's control
   queue the router closes, does not find the track attached, and leaves the viewer in
   the source: the encoder runs on for a peer that has gone.
3. **A send that is never resumed** (`delivery_stalls`). A message larger than half the
   channel limit may be refused while the buffered amount is already at or below the
   low-water threshold; draining the rest crosses nothing and no event fires. A limit of
   at least twice the largest message, less one byte, excludes it (`delivery_queues`).
4. **A request that runs again** (`request_rerun`). `control()` runs an operation before it
   encodes the reply. A reply longer than the negotiated message throws there: the peer
   gets an error, nothing is stored, and the same request runs again when it is resent, a
   subscription or a handle more each time, whose identifier nobody learns. It takes an offer (or a
   configuration) with a small message size, and is likelier with a long request
   identifier, which the reply repeats. What remains true is `AnsweredRunsOnce`.

## 5. Proofs

Eight modules hold proofs, for all values of the constants that satisfy the assumptions
named in the modules that declare them: limits are positive, times, numbers and bounds
natural, a largest message fits the queue's budget and a channel's buffer, packet lengths
fit two bytes, model values differ from `None`, the configured tracks and streams are
finite, the names of the adapter's topics distinct. The bounds of the models (`MaxId`,
`MaxTime`, `MaxEncoders`...) are constants too, so the results hold for each of their
values.

Every proof has the same shape. A safety property is seldom inductive alone; the proof
module defines the strengthening and checks that it holds initially, that one lemma per
action keeps it, and that it implies the property. Each strengthening was checked with TLC
as an invariant of the module's run before it was proved. Type correctness comes first and
is used throughout.

| Theorem | Says |
|---|---|
| **`CommandGuardProofs`** | |
| `TypeCorrect`, `GuardInvariant` | `[]TypeOK` and the inductive invariant `[]GuardInv` |
| `SingleWriter` | no two handles hold a lease on one topic |
| `LeaseFencing` | after a newer lease was used no command of an older one reaches ROS |
| `AtMostOnceInOrder` | a handle's commands reach ROS in increasing order |
| `NoOrphanHandle` | handles do not outlive their sessions |
| `PublishSafety` | a publication is made under the publisher's own unexpired lease |
| `WithinLimits` | the limits on sessions and handles hold across suspended calls |
| `NoTheft` | a registered handle loses an unexpired lease only to its own session |
| `GuardImplementsAuthority` | `Spec => ImplementsAuthority` |
| **`MediaProofs`**, `MediaService` alone | |
| `TypeCorrect`, `MediaInvariant` | `[]TypeOK` and the inductive invariant `[]MediaInv` |
| `NeverStuck` | `[]NoStuckSource`, for fast and for slow stops |
| `RetriesSpaced` | `RetriesAreSpaced`, for fast and for slow stops |
| `SoleEncoderPerTrack`, `PipelinesBounded` | `[]OneEncoderPerTrack`, `[]PipelineBound` if `~SlowStop` |
| **`MediaProofs`**, under `VideoRouter` | |
| `RouterTypeCorrect`, `RouterInvariant` | `[]RouterTypeOK` and the inductive invariant `[]RouterInv` |
| `RecordsAlwaysMatch` | `[]RecordsMatchMedia`, for fast and for slow stops |
| `OneEncoderUnderRouters`, `PipelinesUnderRouters` | the two above under everything peers do, if `~SlowStop` |
| **`MediaProofs`**, with `RtpStream` (`StreamSpec`) | |
| `StreamTypeCorrect`, `StreamInvariant` | `[]StreamTypeOK` and the inductive invariant `[]StreamInv` |
| `FramesAlwaysIntact` | `[]FramesIntact`: however a stream is cut, the deframer hands on exactly its packets |
| `TrackAlwaysContinuous` | `[]ContinuousTrack`: one numbering across packets, encoders and wrap-arounds |
| `StreamsNeverStuck`, `StreamRetriesSpaced` | `[]NoStuckSource`, `RetriesAreSpaced` with bytes under the sources |
| **`PeerDeliveryProofs`** | |
| `DeliveryInvariant` | the inductive invariant `[]DeliveryInv` |
| `BytesAlwaysAccounted` | `[]BytesAccounted`: the byte counter is the sum of what is queued, within its limit |
| `PoliciesAlwaysKept` | `[]PoliciesKept`: reliable streams lose nothing, latest streams never go back |
| `ControlAlwaysFirst`, `DeniedNeverSends` | `ControlFirst`, `DeniedIsNotSent` |
| `WakeUpAlwaysDue` | `[]WakeUpDue` if `Headroom` |
| **`SessionControlProofs`** | |
| `TypeCorrect` | `[]TypeOK` |
| `AnsweredRequestsRunOnce` | `[]AnsweredRunsOnce`, for every message size |
| `RecordsAlwaysAgree` | `[]RecordsAgree` |
| `RosCalledOnce` | `[]CalledOnce` |
| `CacheEntriesBounded` | the cache never has more entries than `MaxRequests` |
| `CacheAlwaysAccounted` | `[]CacheAccounted`: the byte counter is the sum of the entries, within its limit |
| **`ApplicationProofs`** | |
| `LifecycleInvariant`, `ApplicationInvariant` | the inductive invariants of the peers and of start and shutdown |
| `SlotsAlwaysAccounted` | `[]SlotsAccounted` |
| `HeldWholeOrNotAtAll` | `[]HoldsAllOrNothing` |
| **`RosAdapterProofs`** | |
| `TypeCorrect`, `StartInvariant`, `FanInvariant` | `[]TypeOK` and the inductive invariants of the start and of a delivery |
| `StartedWholeOrNotAtAll` | `[]StartAllOrNothing` |
| `HeardExactlyOnce`, `RemovedStaysSilent` | `[]EveryListenerOnce`, `NeverAfterRemoval` |
| **`CredentialStoreProofs`** | |
| `TypeCorrect`, `StoreInvariant` | `[]TypeOK` and the inductive invariant `[]StoreInv` |
| `NeverPartlyWritten`, `CreatedOnce` | `[]NeverPartial`, `[]OneCredential` |

The arguments:

- *Guard.* Fencing speaks of the history, and a step can only be judged by the present:
  `NewestLease` says that the lease held on a topic is at least as new as any used on it,
  and a new one is newer because identifiers are issued once (`Issued`). Order needs
  `SeqBounds`: what a handle published is at most its `published`, and what a pending
  ticket or a suspended `publish` carries is at most its `received`. Both would break if
  a suspended `openHandle` could register a handle that somebody already knows:
  `OpeningFresh` says its identifier appears nowhere. The refinement follows step by
  step: an operation changes the writer of at most one topic, and every other step maps
  to a stutter or to the end of authorities whose session went away.
- *Media plane.* A source is a record and its methods functions of it, so the invariant
  is one of a source. `Coherent` ties phase, timers, viewers and encoder together and
  holds whatever the timing is. `SoleEncoder` says that the source refers to all its
  workers: while a release is pending there is no encoder, and at most one `begin()`
  waits, because its source stays in `starting` until the release is over. That is where
  `~SlowStop` is needed: finding 1 is the step that breaks it otherwise. The pipeline
  bound counts sources that run, as `attach()` does; only an accepted attach adds one,
  and a source with a worker runs.
- *Video router.* `Books` says that a peer's attachments are the sources that hold it as
  a viewer; for an open peer they are also what it believes it watches and are bound to
  its slots, which is why `close()`, that goes through the slots, misses nothing. A peer
  that closed inside `video.subscribe` keeps the one attachment of finding 2. It is
  stated of any sources and records, because it must also hold between a handler and the
  revalidation that ends it (`Settle`).
- *Byte streams.* `Frames` places one deframer: it has handed on the first `k` packets,
  `k` being those that end by the byte that arrived last, and its buffer is the stream
  from there to that byte. A chunk moves it on because the deframer is a function of its
  buffer and the chunk together: `DeframerExact` says that, given the bytes from the end
  of a packet to any later byte, it finds exactly the packets that end by then. That is an
  induction on the packets left; it needs that a length of two digits is read back as
  written and that the junk at the end is never taken for a packet. `Track` says that the
  numbering continues the last packet written, under the origin of its encoder or, when
  the origin was forgotten, after an encoder older than the current one. `Arrive` may
  deliver packets and fail the source in one step; both go through the methods already
  shown to keep a source `Coherent`.
- *Delivery.* A session is a record and its handlers functions of it; `Sound` is said of
  any session, also between the parts of a handler. The queue's counter is the sum over
  its streams; what a stream has sent followed by what it holds is its `Trail`, which for
  a reliable stream is every number issued. A handler leaves the session `Prepared`;
  `flush()` drains control, then goes round the streams in a fold over their order, and
  each `drain` sends from the head of one stream, stops at a full buffer and drops a
  stream no longer permitted. `Headroom` says that a buffer at its low-water mark has room
  for a largest message. Then a refused send leaves the buffer above the mark, and the
  event that resumes it is still to come. The configuration does not ask for it:
  finding 3 is what happens otherwise, so it is a hypothesis and not an assumption.
- *Session control.* `RanInv`: while the router is open, a request whose reply fitted a
  message and has not expired is in the cache, with an expiry no earlier than its own. It
  is said of the requests with a reply that fitted and of no others: finding 4 is why,
  and no hypothesis on sizes is needed then. `SentInv`: a publisher's record bounds everything
  sent under its handle, and a handle is never issued twice. `BytesInv`: the cache's
  counter is the sum of its entries, those expired and not yet pruned included, and the
  reply stored after a close is within what was reserved before it. `AgreeShut` settles
  every step that ends in `close()`, wherever in the request that comes.
- *Application.* `LifecycleInv`: the slots taken are the endpoints alive, guard sessions
  those still open, and the stage of a request tells the state of its endpoint; with
  finite sets the counter is exact. `StageInv` says what each stage of start holds, that
  probes are passed in order, and that a serving application keeps everything until its
  last peer has settled.
- *ROS adapter.* `EntityInv`: the native entities are those of the names gone through so
  far. `CalledInv` and `DueInv` follow one sample: who was called has no call to come, who
  must be called has one and still listens.
- *Credential store.* `WrittenBeforeLinked`: what is linked is synced, so that a power
  loss cannot tear it. `ReadIsLinked`: what a caller has read stays linked until a loss.
  `SyncedBeforeReturned`: when `ensure` returns, the link and its directory are on disk.

*Sums, loops and induction.* The library's induction theorems take an operator, which the
provers cannot instantiate. `SumProofs` states induction as a fact about sets instead: a
non-empty set of counterexamples has a smallest member (`SmallestSubset`,
`SmallestNumber`, from the library's theorem that strict inclusion of finite sets is well
founded), and that member is shown not to be one. The sums and folds of the community
modules, and the deframer, are recursive functions, which TLA+ defines with CHOOSE: that a
function satisfying the recursion exists is shown level by level, on sets or sequences of
at most `n` members, before anything is said of its values (`SumProofs`; `FoldDefined` and
`DeframeDefined` in `MediaProofs`).

Only model-checked, and why:

- all liveness (`StartsAreDecided`, `UnwatchedEncodersStop`, `CloseReleasesAll`,
  `QueuedIsSent`, `RequestsEnd`, `SlotsComeBack`, `StartEnds`, `ShutdownEnds`): fairness and
  ENABLED are out of the prover's reach;
- the violations of section 4, which are counterexamples.

## 6. Not modelled

The attributes of data channels and the text of SDP, JSON and ROS values (their failure
is an action, their content is not); the guard inside the session router, which
`SessionControl` represents by its verdict; authentication of requests and the replies
that change no state; the deframer of the worker's control lines, reduced to the events
it yields. The SDP parser, the configuration, the codec and the type descriptors are pure
functions of one input, without state, order or failure to explore: what TLC would
enumerate are the cases their unit tests list. The fixture is an encoder like any other,
the launch file is declarative, the WebRTC stack third-party. `PROJECT.json` gives the
reason for each component.

## 7. Plan

Left to model: `SessionControl` over `CommandGuard`, so that a lease revoked by one peer's
close meets another's pending publication.

Every safety property of a passing run is a theorem. What remains is liveness, which stays
with TLC.
