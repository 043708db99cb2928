----------------------------- MODULE MediaProofs -----------------------------
(***************************************************************************)
(* Proofs about the media plane, for any set of tracks, viewers and limits.*)
(*                                                                         *)
(* First MediaService.  A source is a record and a method a function of    *)
(* it, so the invariant is one of a single source, Sound, and is shown     *)
(* method by method, then lifted to the media plane.  What a track owns is *)
(* bounded only when stop() ends before the timers do: the conjunct        *)
(* SoleEncoder of Sound is conditional on ~SlowStop, the rest of it is not.*)
(*                                                                         *)
(* Then VideoRouter, the records of the peers' routers.                    *)
(*                                                                         *)
(* Then RtpStream, the bytes: the deframer finds exactly the packets that  *)
(* have arrived (Frames) and the numbering continues what was written      *)
(* (Track), for streams, packets and moduli of any size.                   *)
(***************************************************************************)
EXTENDS VideoRouter, RtpStream, SumProofs

\* What the fields of a source say of one another, whoever calls which method when.
Coherent(s) ==
  /\ s.made + s.waiting <= MaxEncoders
  /\ s.live \subseteq 1 .. s.made
  /\ s.encoder # 0 => s.encoder = s.made /\ s.phase \in {"starting", "active"}
  /\ s.phase = "active" => s.encoder # 0
  /\ s.deadline <=> s.phase = "starting"
  /\ s.grace <=> s.viewers = {} /\ s.phase \in {"starting", "active"}
  /\ s.phase \in {"idle", "failed"} => s.viewers = {}
  /\ s.cooling => s.phase \in {"idle", "failed"}

\* A source whose encoder goes away in time refers to every worker it has, and to no
\* second one; c says that the service was closed while a start was waiting.
SoleEncoder(s, c) ==
  /\ s.live = {e \in {s.encoder, s.release} : e # 0}
  /\ s.release # 0 => s.encoder = 0
  /\ s.waiting <= 1
  /\ s.waiting = 1 => s.release # 0 /\ (c \/ s.phase = "starting")

Sound(s, c) ==
  /\ s \in Source
  /\ Coherent(s)
  /\ ~SlowStop => SoleEncoder(s, c)

\* The sources that count as pipelines.
Running(f) == {t \in Tracks : running(f[t])}

\* Sources f of a service that is closed or not, c.
Plane(f, c) ==
  /\ c \in BOOLEAN
  /\ f \in [Tracks -> Source]
  /\ \A t \in Tracks : Sound(f[t], c)
  /\ Cardinality(Running(f)) <= MaxPipelines

\* The inductive invariant.
MediaInv == Plane(src, closed)

-----------------------------------------------------------------------------

\* The bound on encoders as a number.
LEMMA EncoderNumbers == MaxEncoders \in Nat /\ MaxEncoders # 0 /\ SlowStop \in BOOLEAN
  BY MediaAssumption

\* The fields of a source as sets and numbers.
LEMMA SourceFields ==
  ASSUME NEW s \in Source
  PROVE  /\ s.viewers \subseteq Viewers /\ s.phase \in {"idle", "starting", "active", "failed"}
         /\ s.grace \in BOOLEAN /\ s.deadline \in BOOLEAN /\ s.cooling \in BOOLEAN
         /\ s.quiet \in BOOLEAN
         /\ s.encoder \in Nat /\ s.release \in Nat /\ s.waiting \in Nat /\ s.made \in Nat
         /\ s.encoder \in Encoder /\ s.release \in Encoder /\ s.made \in Encoder
         /\ s.live \subseteq 1 .. MaxEncoders /\ s.settled \subseteq 1 .. MaxEncoders
  BY EncoderNumbers DEF Source, Encoder

\* A source nobody has used yet.
LEMMA IdleIsSound == Sound(IdleSource, FALSE) /\ ~running(IdleSource)
  <1>1. IdleSource \in Source
    BY EncoderNumbers DEF IdleSource, Source, Encoder
  <1>2. Coherent(IdleSource)
    BY EncoderNumbers DEF IdleSource, Coherent
  <1>3. SoleEncoder(IdleSource, FALSE) /\ ~running(IdleSource)
    BY DEF IdleSource, SoleEncoder, running
  <1>4. QED
    BY <1>1, <1>2, <1>3 DEF Sound

\* What remove() changes: the viewers and the grace timer.
LEMMA RemoveFields ==
  ASSUME NEW s \in Source, NEW V
  PROVE  /\ removeAll(s, V) \in Source
         /\ removeAll(s, V).viewers = s.viewers \ V
         /\ removeAll(s, V).grace = (s.grace \/ (s.viewers \cap V # {} /\ s.viewers \subseteq V
                                                 /\ s.phase # "idle"))
         /\ removeAll(s, V).phase = s.phase /\ removeAll(s, V).encoder = s.encoder
         /\ removeAll(s, V).deadline = s.deadline /\ removeAll(s, V).release = s.release
         /\ removeAll(s, V).waiting = s.waiting /\ removeAll(s, V).live = s.live
         /\ removeAll(s, V).made = s.made /\ removeAll(s, V).cooling = s.cooling
  BY DEF removeAll, Source

\* Viewers may leave a source in any state.
LEMMA RemoveIsSound ==
  ASSUME NEW s, NEW V, NEW c \in BOOLEAN, Sound(s, c)
  PROVE  Sound(removeAll(s, V), c)
  <1>1. s \in Source /\ Coherent(s)
    BY DEF Sound
  <1> PICK r : r = removeAll(s, V)
    OBVIOUS
  <1>2. /\ r \in Source /\ r.viewers = s.viewers \ V
        /\ r.grace = (s.grace \/ (s.viewers \cap V # {} /\ s.viewers \subseteq V /\ s.phase # "idle"))
        /\ r.phase = s.phase /\ r.encoder = s.encoder /\ r.deadline = s.deadline
        /\ r.release = s.release /\ r.waiting = s.waiting /\ r.live = s.live
        /\ r.made = s.made /\ r.cooling = s.cooling
    BY <1>1, RemoveFields
  <1>3. r.grace <=> r.viewers = {} /\ r.phase \in {"starting", "active"}
    BY <1>1, <1>2, SourceFields DEF Coherent
  <1>4. Coherent(r)
    BY <1>1, <1>2, <1>3 DEF Coherent
  <1>5. ~SlowStop => SoleEncoder(r, c)
    BY <1>2 DEF SoleEncoder, Sound
  <1>6. QED
    BY <1>2, <1>4, <1>5 DEF Sound

\* What finish() leaves.
LEMMA FinishFields ==
  ASSUME NEW s \in Source, NEW ph \in {"idle", "failed"}
  PROVE  /\ finish(s, ph) \in Source
         /\ ~finish(s, ph).deadline /\ ~finish(s, ph).grace
         /\ finish(s, ph).encoder = 0 /\ finish(s, ph).phase = ph
         /\ finish(s, ph).viewers = (IF ph = "failed" THEN {} ELSE s.viewers)
         /\ finish(s, ph).release = (IF s.encoder # 0 THEN s.encoder ELSE s.release)
         /\ finish(s, ph).waiting = s.waiting /\ finish(s, ph).live = s.live
         /\ finish(s, ph).made = s.made
  <1> PICK viewers : viewers = (IF ph = "failed" THEN {} ELSE s.viewers)
    OBVIOUS
  <1> PICK release : release = (IF s.encoder # 0 THEN s.encoder ELSE s.release)
    OBVIOUS
  <1> PICK cooling : cooling = (s.cooling \/ ph = "failed")
    OBVIOUS
  <1>1. viewers \subseteq Viewers /\ release \in Encoder /\ cooling \in BOOLEAN /\ 0 \in Encoder
    BY SourceFields, EncoderNumbers DEF Encoder
  <1>2. finish(s, ph) =
          [s EXCEPT !.deadline = FALSE, !.grace = FALSE, !.encoder = 0, !.phase = ph,
                    !.cooling = cooling, !.viewers = viewers, !.release = release]
    BY DEF finish
  <1> PICK f : f = finish(s, ph)
    OBVIOUS
  <1>3. /\ f.deadline = FALSE /\ f.grace = FALSE /\ f.encoder = 0 /\ f.phase = ph
        /\ f.viewers = viewers /\ f.release = release /\ f.cooling = cooling
        /\ f.waiting = s.waiting /\ f.live = s.live /\ f.made = s.made
        /\ f.settled = s.settled /\ f.quiet = s.quiet
    BY <1>2 DEF Source
  <1>4. f = [viewers |-> viewers, phase |-> ph, encoder |-> 0, grace |-> FALSE,
             deadline |-> FALSE, release |-> release, waiting |-> s.waiting, live |-> s.live,
             settled |-> s.settled, made |-> s.made, cooling |-> cooling, quiet |-> s.quiet]
    BY <1>2 DEF Source
  <1>5. f \in Source
    BY <1>1, <1>4, SourceFields DEF Source
  <1>6. QED
    BY <1>3, <1>5

\* A source may be finished once its release, if it has one, is over; r is the source
\* with its timers, viewers or settled workers already changed by the caller.
LEMMA FinishIsSound ==
  ASSUME NEW s, NEW r \in Source, NEW c \in BOOLEAN, NEW d \in BOOLEAN, Sound(s, c), c => d,
         NEW ph \in {"idle", "failed"},
         r.encoder = s.encoder, r.release = s.release, r.waiting = s.waiting,
         r.live = s.live, r.made = s.made,
         ph = "failed" \/ r.viewers = {},
         SlowStop \/ d \/ s.release = 0
  PROVE  Sound(finish(r, ph), d)
  <1>1. s \in Source /\ Coherent(s)
    BY DEF Sound
  <1> PICK f : f = finish(r, ph)
    OBVIOUS
  <1>2. /\ f \in Source /\ ~f.deadline /\ ~f.grace /\ f.encoder = 0 /\ f.phase = ph
        /\ f.viewers = {} /\ f.release = (IF s.encoder # 0 THEN s.encoder ELSE s.release)
        /\ f.waiting = s.waiting /\ f.live = s.live /\ f.made = s.made
    BY FinishFields
  <1>3. Coherent(f)
    BY <1>1, <1>2 DEF Coherent
  <1>4. ASSUME ~SlowStop PROVE SoleEncoder(f, d)
    <2>1. SoleEncoder(s, c)
      BY <1>4 DEF Sound
    <2>2. s.waiting = 1 => d
      BY <1>4, <2>1 DEF SoleEncoder
    <2>3. f.live = {e \in {f.encoder, f.release} : e # 0}
      BY <1>2, <2>1 DEF SoleEncoder
    <2>4. s.waiting = 1 => f.release # 0
      BY <1>2, <2>1 DEF SoleEncoder
    <2>5. QED
      BY <1>2, <2>1, <2>2, <2>3, <2>4 DEF SoleEncoder
  <1>5. QED
    BY <1>2, <1>3, <1>4 DEF Sound

\* finish() never makes a pipeline of a source that was none.
LEMMA FinishRuns ==
  ASSUME NEW s, NEW r \in Source, NEW c \in BOOLEAN, Sound(s, c), NEW ph \in {"idle", "failed"},
         r.encoder = s.encoder, r.release = s.release, running(finish(r, ph))
  PROVE  running(s)
  <1>1. finish(r, ph).release # 0
    BY FinishFields DEF running
  <1>2. s.encoder # 0 \/ s.release # 0
    BY <1>1, FinishFields
  <1>3. QED
    BY <1>2 DEF running, Sound, Coherent

\* What the first packet changes.
LEMMA DeliverIsSound ==
  ASSUME NEW s, NEW c \in BOOLEAN, Sound(s, c), s.encoder # 0
  PROVE  Sound(deliver(s), c) /\ (running(deliver(s)) => running(s))
  <1>1. s \in Source /\ Coherent(s)
    BY DEF Sound
  <1> PICK f : f = deliver(s)
    OBVIOUS
  <1>2. /\ f \in Source /\ f.phase = "active" /\ ~f.deadline /\ f.viewers = s.viewers
        /\ f.grace = s.grace /\ f.encoder = s.encoder /\ f.release = s.release
        /\ f.waiting = s.waiting /\ f.live = s.live /\ f.made = s.made /\ f.cooling = s.cooling
    BY <1>1 DEF deliver, Source
  <1>3. s.phase \in {"starting", "active"}
    BY <1>1 DEF Coherent
  <1>4. Coherent(f)
    BY <1>1, <1>2, <1>3 DEF Coherent
  <1>5. ~SlowStop => SoleEncoder(f, c)
    BY <1>1, <1>2, SourceFields DEF SoleEncoder, Sound
  <1>6. running(s)
    BY <1>3 DEF running
  <1>7. QED
    BY <1>2, <1>4, <1>5, <1>6 DEF Sound

\* Changes of what the invariant does not mention, or mentions only when it is set.
LEMMA MarkIsSound ==
  ASSUME NEW s, NEW c \in BOOLEAN, Sound(s, c), NEW f \in Source,
         f.viewers = s.viewers, f.phase = s.phase, f.encoder = s.encoder, f.grace = s.grace,
         f.deadline = s.deadline, f.release = s.release, f.waiting = s.waiting,
         f.live = s.live, f.made = s.made, f.cooling => s.cooling
  PROVE  Sound(f, c) /\ (running(f) => running(s))
  <1>1. Coherent(f)
    BY DEF Coherent, Sound
  <1>2. ~SlowStop => SoleEncoder(f, c)
    BY DEF SoleEncoder, Sound
  <1>3. QED
    BY <1>1, <1>2 DEF Sound, running

\* What creating an encoder changes.
LEMMA CreateFields ==
  ASSUME NEW s \in Source, s.made < MaxEncoders
  PROVE  /\ CreateEncoder(s) \in Source
         /\ CreateEncoder(s).made = s.made + 1 /\ CreateEncoder(s).encoder = s.made + 1
         /\ CreateEncoder(s).live = s.live \cup {s.made + 1}
         /\ CreateEncoder(s).viewers = s.viewers /\ CreateEncoder(s).phase = s.phase
         /\ CreateEncoder(s).grace = s.grace /\ CreateEncoder(s).deadline = s.deadline
         /\ CreateEncoder(s).release = s.release /\ CreateEncoder(s).waiting = s.waiting
         /\ CreateEncoder(s).cooling = s.cooling
  <1> PICK e : e = s.made + 1
    OBVIOUS
  <1> PICK live : live = s.live \cup {e}
    OBVIOUS
  <1>1. e \in Encoder /\ live \subseteq 1 .. MaxEncoders
    BY SourceFields, EncoderNumbers DEF Encoder
  <1>2. CreateEncoder(s) = [s EXCEPT !.made = e, !.encoder = e, !.live = live]
    BY DEF CreateEncoder
  <1> PICK f : f = CreateEncoder(s)
    OBVIOUS
  <1>3. /\ f.made = e /\ f.encoder = e /\ f.live = live /\ f.viewers = s.viewers
        /\ f.phase = s.phase /\ f.grace = s.grace /\ f.deadline = s.deadline
        /\ f.release = s.release /\ f.waiting = s.waiting /\ f.cooling = s.cooling
    BY <1>2 DEF Source
  <1>4. f = [viewers |-> s.viewers, phase |-> s.phase, encoder |-> e, grace |-> s.grace,
             deadline |-> s.deadline, release |-> s.release, waiting |-> s.waiting,
             live |-> live, settled |-> s.settled, made |-> e, cooling |-> s.cooling,
             quiet |-> s.quiet]
    BY <1>2 DEF Source
  <1>5. f \in Source
    BY <1>1, <1>4, SourceFields DEF Source
  <1>6. QED
    BY <1>3, <1>5

\* The first viewer starts the source, b being the source with that viewer and its
\* deadline armed: a new encoder, or a wait for the release of the last one.
LEMMA BeginIsSound ==
  ASSUME NEW s, Sound(s, FALSE), s.phase \in {"idle", "failed"}, ~s.cooling, CanMake(s),
         NEW v \in Viewers, NEW b \in Source,
         b.viewers = s.viewers \cup {v}, ~b.grace, b.phase = "starting", b.deadline,
         b.encoder = s.encoder, b.release = s.release, b.waiting = s.waiting,
         b.live = s.live, b.made = s.made, b.cooling = s.cooling
  PROVE  /\ s.release # 0 => Sound([b EXCEPT !.waiting = @ + 1], FALSE)
         /\ s.release = 0 => Sound(CreateEncoder(b), FALSE)
  <1>1. s \in Source /\ Coherent(s)
    BY DEF Sound
  <1>2. s.viewers = {} /\ s.encoder = 0
    BY <1>1 DEF Coherent
  <1>4. /\ s.made \in Nat /\ s.waiting \in Nat /\ s.made + s.waiting < MaxEncoders
        /\ s.live \subseteq 1 .. s.made /\ s.made < MaxEncoders /\ s.release \in Nat
    BY <1>1, SourceFields, EncoderNumbers DEF CanMake, Coherent
  <1>5. ASSUME s.release # 0 PROVE Sound([b EXCEPT !.waiting = @ + 1], FALSE)
    <2> PICK f : f = [b EXCEPT !.waiting = @ + 1]
      OBVIOUS
    <2>2. /\ f \in Source /\ f.viewers = {v} /\ ~f.grace /\ f.phase = "starting" /\ f.deadline
          /\ f.encoder = 0 /\ f.release = s.release /\ f.waiting = s.waiting + 1
          /\ f.live = s.live /\ f.made = s.made /\ ~f.cooling
      BY <1>2, <1>4 DEF Source
    <2>3. Coherent(f)
      BY <1>4, <2>2, EncoderNumbers DEF Coherent
    <2>4. ASSUME ~SlowStop PROVE SoleEncoder(f, FALSE)
      <3>1. SoleEncoder(s, FALSE)
        BY <2>4 DEF Sound
      <3>2. s.waiting = 0
        BY <1>4, <3>1 DEF SoleEncoder
      <3>3. f.waiting = 1 /\ f.live = {e \in {f.encoder, f.release} : e # 0}
        BY <1>2, <2>2, <3>1, <3>2 DEF SoleEncoder
      <3>4. QED
        BY <1>5, <2>2, <3>3 DEF SoleEncoder
    <2>5. QED
      BY <2>2, <2>3, <2>4 DEF Sound
  <1>6. ASSUME s.release = 0 PROVE Sound(CreateEncoder(b), FALSE)
    <2> PICK f : f = CreateEncoder(b)
      OBVIOUS
    <2>1. b.made < MaxEncoders
      BY <1>4
    <2>2. /\ f \in Source /\ f.viewers = {v} /\ ~f.grace /\ f.phase = "starting" /\ f.deadline
          /\ f.encoder = s.made + 1 /\ f.release = 0 /\ f.waiting = s.waiting
          /\ f.live = s.live \cup {s.made + 1} /\ f.made = s.made + 1 /\ ~f.cooling
      BY <1>2, <1>6, <2>1, CreateFields
    <2>3. f.live \subseteq 1 .. f.made /\ f.made + f.waiting <= MaxEncoders
      BY <1>4, <2>2, EncoderNumbers
    <2>4. Coherent(f)
      BY <1>4, <2>2, <2>3 DEF Coherent
    <2>5. ASSUME ~SlowStop PROVE SoleEncoder(f, FALSE)
      <3>1. SoleEncoder(s, FALSE)
        BY <2>5 DEF Sound
      <3>2. s.waiting = 0 /\ s.live = {}
        BY <1>2, <1>4, <1>6, <3>1 DEF SoleEncoder
      <3>3. QED
        BY <1>4, <2>2, <3>2 DEF SoleEncoder
    <2>6. QED
      BY <2>2, <2>4, <2>5 DEF Sound
  <1>7. QED
    BY <1>5, <1>6

\* A viewer joins.
LEMMA AddIsSound ==
  ASSUME NEW s, Sound(s, FALSE), NEW v \in Viewers, ~s.cooling, CanMake(s)
  PROVE  Sound(add(s, v), FALSE) /\ add(s, v).viewers = s.viewers \cup {v}
  <1>1. s \in Source /\ Coherent(s)
    BY DEF Sound
  <1> PICK a : a = [s EXCEPT !.viewers = @ \cup {v}, !.grace = FALSE]
    OBVIOUS
  <1>2. /\ a \in Source /\ a.viewers = s.viewers \cup {v} /\ ~a.grace /\ a.phase = s.phase
        /\ a.encoder = s.encoder /\ a.deadline = s.deadline /\ a.release = s.release
        /\ a.waiting = s.waiting /\ a.live = s.live /\ a.made = s.made /\ a.cooling = s.cooling
    BY <1>1, SourceFields DEF Source
  <1>3. CASE s.phase \in {"idle", "failed"}
    <2> PICK b : b = [a EXCEPT !.phase = "starting", !.deadline = TRUE]
      OBVIOUS
    <2>1. /\ b \in Source /\ b.viewers = s.viewers \cup {v} /\ ~b.grace /\ b.phase = "starting"
          /\ b.deadline /\ b.encoder = s.encoder /\ b.release = s.release
          /\ b.waiting = s.waiting /\ b.live = s.live /\ b.made = s.made /\ b.cooling = s.cooling
      BY <1>2 DEF Source
    <2>2. add(s, v) = IF a.release # 0 THEN [b EXCEPT !.waiting = @ + 1] ELSE CreateEncoder(b)
      <3>1. add(s, v) = begin(a)
        BY <1>3 DEF add
      <3>2. begin(a) = IF a.release # 0 THEN [b EXCEPT !.waiting = @ + 1] ELSE CreateEncoder(b)
        BY DEF begin
      <3>3. QED
        BY <3>1, <3>2
    <2>3. Sound(add(s, v), FALSE)
      <3>1. /\ s.release # 0 => Sound([b EXCEPT !.waiting = @ + 1], FALSE)
            /\ s.release = 0 => Sound(CreateEncoder(b), FALSE)
        BY <1>3, <2>1, BeginIsSound, Zenon
      <3>2. QED
        BY <1>2, <2>2, <3>1, Zenon
    <2>4. add(s, v).viewers = b.viewers
      BY <2>1, <2>2 DEF CreateEncoder, Source
    <2>5. QED
      BY <2>1, <2>3, <2>4
  <1>4. CASE s.phase \in {"starting", "active"}
    <2> PICK f : f = add(s, v)
      OBVIOUS
    <2>1. f = a \/ f = [a EXCEPT !.quiet = TRUE]
      BY <1>4 DEF add, requestKeyframe
    <2>2. /\ f \in Source /\ f.viewers = s.viewers \cup {v} /\ ~f.grace /\ f.phase = s.phase
          /\ f.encoder = s.encoder /\ f.deadline = s.deadline /\ f.release = s.release
          /\ f.waiting = s.waiting /\ f.live = s.live /\ f.made = s.made /\ f.cooling = s.cooling
      BY <1>2, <2>1 DEF Source
    <2>3. Coherent(f)
      BY <1>1, <1>4, <2>2 DEF Coherent
    <2>4. ~SlowStop => SoleEncoder(f, FALSE)
      BY <2>2 DEF SoleEncoder, Sound
    <2>5. QED
      BY <2>2, <2>3, <2>4 DEF Sound
  <1>5. QED
    BY <1>1, <1>3, <1>4, SourceFields

\* The end of a release: the waiting start goes on if the source still wants it.
LEMMA StoppedIsSound ==
  ASSUME NEW s, NEW c \in BOOLEAN, Sound(s, c), s.release # 0
  PROVE  /\ Sound(stopped(s), c) /\ stopped(s).viewers = s.viewers /\ running(s)
         /\ stopped(s).made = s.made \/ s.phase = "starting"
  <1>1. s \in Source /\ Coherent(s)
    BY DEF Sound
  <1>2. /\ s.made \in Nat /\ s.waiting \in Nat /\ s.made + s.waiting <= MaxEncoders
        /\ s.live \subseteq 1 .. s.made /\ s.made \in Encoder /\ s.encoder \in Encoder
    BY <1>1, SourceFields DEF Coherent
  <1> PICK live : live = s.live \ {s.release}
    OBVIOUS
  <1> PICK r : r = [s EXCEPT !.live = live, !.release = 0]
    OBVIOUS
  <1>3. /\ r.live = live /\ r.release = 0 /\ r.viewers = s.viewers /\ r.phase = s.phase
        /\ r.encoder = s.encoder /\ r.grace = s.grace /\ r.deadline = s.deadline
        /\ r.waiting = s.waiting /\ r.made = s.made /\ r.cooling = s.cooling
        /\ r.settled = s.settled /\ r.quiet = s.quiet
    BY <1>1 DEF Source
  <1>4. stopped(s) = resume(r)
    BY DEF stopped
  <1> PICK f : f = resume(r)
    OBVIOUS
  <1>5. live \subseteq 1 .. s.made /\ (~SlowStop => live = {} /\ s.encoder = 0)
    <2>1. ASSUME ~SlowStop PROVE live = {} /\ s.encoder = 0
      BY <2>1 DEF Sound, SoleEncoder
    <2>2. QED
      BY <1>2, <2>1
  <1>6. CASE s.phase = "starting" /\ s.viewers # {} /\ s.waiting > 0
    <2> PICK e : e = s.made + s.waiting
      OBVIOUS
    <2> PICK new : new = live \cup (s.made + 1 .. e)
      OBVIOUS
    <2>1. e \in Encoder /\ e # 0 /\ new \subseteq 1 .. e /\ e <= MaxEncoders /\ e \in Nat
      BY <1>2, <1>5, <1>6, EncoderNumbers DEF Encoder
    <2>2. f = [r EXCEPT !.waiting = 0, !.made = e, !.encoder = e, !.live = new]
      BY <1>3, <1>6 DEF resume
    <2>3. f = [viewers |-> s.viewers, phase |-> "starting", encoder |-> e, grace |-> s.grace,
               deadline |-> s.deadline, release |-> 0, waiting |-> 0, live |-> new,
               settled |-> s.settled, made |-> e, cooling |-> s.cooling, quiet |-> s.quiet]
      BY <1>1, <1>6, <2>2 DEF Source
    <2>4. f \in Source
      <3>1. new \subseteq 1 .. MaxEncoders /\ 0 \in Encoder
        BY <2>1, EncoderNumbers DEF Encoder
      <3>2. QED
        BY <1>1, <2>1, <2>3, <3>1, SourceFields DEF Source
    <2>5. Coherent(f)
      BY <1>1, <1>6, <2>1, <2>3 DEF Coherent
    <2>6. ASSUME ~SlowStop PROVE SoleEncoder(f, c)
      <3>1. s.waiting = 1
        BY <1>2, <1>6, <2>6 DEF Sound, SoleEncoder
      <3>2. new = {e}
        BY <1>2, <1>5, <2>6, <3>1
      <3>3. QED
        BY <2>1, <2>3, <3>2 DEF SoleEncoder
    <2>7. QED
      BY <1>4, <1>6, <2>3, <2>4, <2>5, <2>6 DEF Sound, running
  <1>7. CASE ~(s.phase = "starting" /\ s.viewers # {} /\ s.waiting > 0)
    <2>1. f = [viewers |-> s.viewers, phase |-> s.phase, encoder |-> s.encoder,
               grace |-> s.grace, deadline |-> s.deadline, release |-> 0, waiting |-> 0,
               live |-> live, settled |-> s.settled, made |-> s.made, cooling |-> s.cooling,
               quiet |-> s.quiet]
      <3>1. CASE s.phase = "starting" /\ s.viewers # {}
        <4>1. s.waiting = 0 /\ ~(s.waiting > 0) /\ s.made + s.waiting = s.made
              /\ live \cup (s.made + 1 .. s.made + s.waiting) = live
          BY <1>2, <1>7, <3>1
        <4>2. f = [r EXCEPT !.waiting = 0, !.made = r.made + r.waiting,
                            !.encoder = IF r.waiting > 0 THEN r.made + r.waiting ELSE r.encoder,
                            !.live = r.live \cup (r.made + 1 .. r.made + r.waiting)]
          BY <1>3, <3>1 DEF resume
        <4>3. f = [r EXCEPT !.waiting = 0, !.made = s.made, !.encoder = s.encoder, !.live = live]
          BY <1>3, <4>1, <4>2
        <4>4. QED
          BY <1>1, <4>3 DEF Source
      <3>2. CASE ~(s.phase = "starting" /\ s.viewers # {})
        <4>1. f = [r EXCEPT !.waiting = 0]
          BY <1>3, <3>2 DEF resume
        <4>2. QED
          BY <1>1, <4>1 DEF Source
      <3>3. QED
        BY <3>1, <3>2
    <2>2. f \in Source
      <3>1. live \subseteq 1 .. MaxEncoders /\ 0 \in Encoder
        BY <1>1, SourceFields, EncoderNumbers DEF Encoder
      <3>2. QED
        BY <1>1, <2>1, <3>1, SourceFields DEF Source
    <2>3. Coherent(f)
      BY <1>1, <1>2, <1>5, <2>1, EncoderNumbers DEF Coherent
    <2>4. ~SlowStop => SoleEncoder(f, c)
      BY <1>5, <2>1 DEF SoleEncoder
    <2>5. QED
      BY <1>4, <2>1, <2>2, <2>3, <2>4 DEF Sound, running
  <1>8. QED
    BY <1>6, <1>7

-----------------------------------------------------------------------------
(***************************************************************************)
(* From a source to the media plane.                                       *)
(***************************************************************************)

\* How many sources run is a number.
LEMMA RunningNumber ==
  ASSUME NEW f
  PROVE  IsFiniteSet(Running(f)) /\ Cardinality(Running(f)) \in Nat /\ MaxPipelines \in Nat
  <1>1. Running(f) \in SUBSET Tracks /\ IsFiniteSet(Tracks) /\ MaxPipelines \in Nat
    BY MediaAssumption DEF Running
  <1>2. IsFiniteSet(Running(f))
    BY <1>1, FS_Subset
  <1>3. QED
    BY <1>1, <1>2, FS_CardinalityType

\* A step that starts no source keeps the pipeline bound.
LEMMA PlaneShrinks ==
  ASSUME NEW f, NEW c, NEW g, NEW d \in BOOLEAN, Plane(f, c), g \in [Tracks -> Source],
         \A t \in Tracks : Sound(g[t], d),
         \A t \in Tracks : running(g[t]) => running(f[t])
  PROVE  Plane(g, d)
  <1>1. Running(g) \in SUBSET Running(f)
    BY DEF Running
  <1>2. Cardinality(Running(g)) <= Cardinality(Running(f))
    BY <1>1, RunningNumber, FS_Subset
  <1>3. Cardinality(Running(g)) <= MaxPipelines
    <2>1. Cardinality(Running(f)) <= MaxPipelines
      BY DEF Plane
    <2>2. Cardinality(Running(f)) \in Nat /\ Cardinality(Running(g)) \in Nat /\ MaxPipelines \in Nat
      BY RunningNumber
    <2>3. QED
      BY <1>2, <2>1, <2>2
  <1>4. QED
    BY <1>3 DEF Plane

\* The same for a step of one source.
LEMMA PlaneUpdate ==
  ASSUME NEW f, NEW c, Plane(f, c), NEW t \in Tracks, NEW r, Sound(r, c),
         running(r) => running(f[t])
  PROVE  Plane([f EXCEPT ![t] = r], c)
  <1> PICK g : g = [f EXCEPT ![t] = r]
    OBVIOUS
  <1>1. /\ f \in [Tracks -> Source] /\ c \in BOOLEAN
        /\ \A u \in Tracks : Sound(f[u], c)
    BY DEF Plane
  <1>2. g \in [Tracks -> Source] /\ g[t] = r /\ \A u \in Tracks : u # t => g[u] = f[u]
    BY <1>1 DEF Sound
  <1>3. \A u \in Tracks : Sound(g[u], c)
    BY <1>1, <1>2
  <1>4. \A u \in Tracks : running(g[u]) => running(f[u])
    BY <1>1, <1>2
  <1>5. g \in [Tracks -> Source] /\ c \in BOOLEAN
    BY <1>1, <1>2
  <1>6. Plane(g, c)
    BY <1>3, <1>4, <1>5, PlaneShrinks
  <1>7. QED
    BY <1>6

\* A viewer may join when its source runs already or the bound leaves room.
LEMMA PlaneAdd ==
  ASSUME NEW f, Plane(f, FALSE), NEW t \in Tracks, NEW v \in Viewers, ~f[t].cooling, CanMake(f[t]),
         running(f[t]) \/ Cardinality({u \in Tracks : running(f[u])}) < MaxPipelines
  PROVE  Plane([f EXCEPT ![t] = add(@, v)], FALSE)
  <1>1. /\ f \in [Tracks -> Source] /\ Cardinality(Running(f)) <= MaxPipelines
        /\ \A u \in Tracks : Sound(f[u], FALSE)
    BY DEF Plane
  <1> PICK r : r = add(f[t], v)
    OBVIOUS
  <1>2. Sound(r, FALSE)
    BY <1>1, AddIsSound
  <1>3. CASE running(f[t])
    BY <1>2, <1>3, PlaneUpdate
  <1>4. CASE Cardinality(Running(f)) < MaxPipelines
    <2> PICK g : g = [f EXCEPT ![t] = r]
      OBVIOUS
    <2>1. /\ g \in [Tracks -> Source] /\ g[t] = r
          /\ \A u \in Tracks : u # t => g[u] = f[u]
      BY <1>1, <1>2 DEF Sound
    <2>2. Running(g) \in SUBSET (Running(f) \cup {t})
      BY <2>1 DEF Running
    <2>3. /\ IsFiniteSet(Running(f) \cup {t})
          /\ Cardinality(Running(f) \cup {t}) =
               IF t \in Running(f) THEN Cardinality(Running(f)) ELSE Cardinality(Running(f)) + 1
      BY RunningNumber, FS_AddElement
    <2>4. Cardinality(Running(f)) \in Nat /\ Cardinality(Running(g)) \in Nat /\ MaxPipelines \in Nat
      BY RunningNumber
    <2>5. Cardinality(Running(g)) <= Cardinality(Running(f) \cup {t})
      BY <2>2, <2>3, FS_Subset
    <2>6. Cardinality(Running(g)) <= MaxPipelines
      BY <1>4, <2>3, <2>4, <2>5
    <2>7. \A u \in Tracks : Sound(g[u], FALSE)
      BY <1>1, <1>2, <2>1
    <2>8. QED
      BY <2>1, <2>6, <2>7 DEF Plane
  <1>5. QED
    BY <1>3, <1>4 DEF Running

\* A failure leaves a sound source without viewers, whichever of its causes it has.
LEMMA FailureIsSound ==
  ASSUME MediaInv, NEW t \in Tracks, NEW settled \in SUBSET (1 .. MaxEncoders),
         SlowStop \/ src[t].release = 0,
         NEW r, r = finish([src[t] EXCEPT !.settled = settled], "failed")
  PROVE  /\ Sound(r, closed) /\ (running(r) => running(src[t]))
         /\ r.viewers = {} /\ r.made = src[t].made
  <1>1. Sound(src[t], closed) /\ src[t] \in Source /\ closed \in BOOLEAN
    BY DEF MediaInv, Plane
  <1> PICK s : s = [src[t] EXCEPT !.settled = settled]
    OBVIOUS
  <1>2. /\ s \in Source /\ s.encoder = src[t].encoder /\ s.release = src[t].release
        /\ s.waiting = src[t].waiting /\ s.live = src[t].live /\ s.made = src[t].made
    BY <1>1 DEF Source
  <1>3. Sound(r, closed)
    BY <1>1, <1>2, FinishIsSound
  <1>4. running(r) => running(src[t])
    BY <1>1, <1>2, FinishRuns
  <1>5. QED
    BY <1>2, <1>3, <1>4, FinishFields

\* When a source may fail: at its start deadline, or when a worker that was not told to
\* stop reports it.  Unless SlowStop, no release is pending then.
LEMMA FailureCauses ==
  ASSUME MediaInv, NEW t \in Tracks,
         DeadlineDue(t) \/ \E e \in src[t].live : FailureDue(t, e)
  PROVE  SlowStop \/ src[t].release = 0
  <1>1. CASE DeadlineDue(t)
    BY <1>1 DEF DeadlineDue, TimersMayFire
  <1>2. CASE \E e \in src[t].live : FailureDue(t, e)
    <2> PICK e \in src[t].live : e # src[t].release
      BY <1>2 DEF FailureDue
    <2>1. SlowStop \/ SoleEncoder(src[t], closed)
      BY EncoderNumbers DEF MediaInv, Plane, Sound
    <2>2. QED
      BY <2>1 DEF SoleEncoder
  <1>3. QED
    BY <1>1, <1>2

\* A packet of the current encoder finds a sound source.
LEMMA PacketIsSound ==
  ASSUME MediaInv, NEW t \in Tracks, NEW e \in src[t].live, PacketDue(t, e)
  PROVE  /\ Sound(deliver(src[t]), closed)
         /\ running(deliver(src[t])) => running(src[t])
         /\ deliver(src[t]).viewers = src[t].viewers /\ deliver(src[t]).made = src[t].made
  <1>1. /\ Sound(src[t], closed) /\ src[t] \in Source /\ closed \in BOOLEAN
        /\ src[t].encoder = e
    BY DEF MediaInv, Plane, PacketDue, fromCurrent
  <1>2. src[t].encoder # 0
    BY <1>1, SourceFields
  <1>3. deliver(src[t]).viewers = src[t].viewers /\ deliver(src[t]).made = src[t].made
    BY <1>1 DEF deliver, Source
  <1>4. QED
    BY <1>1, <1>2, <1>3, DeliverIsSound

\* The steps of one source that nobody outside it is told of.
QuietStep(t) ==
  \/ GraceExpires(t) \/ CoolingEnds(t) \/ QuietEnds(t) \/ StopEnds(t)
  \/ \E e \in src[t].live : WorkerStarted(t, e)

\* They keep the invariant and the viewers, and create an encoder only for a source
\* that is starting.
LEMMA QuietIsSound ==
  ASSUME MediaInv, NEW t \in Tracks, QuietStep(t) \/ KeyframeRequest(t)
  PROVE  /\ MediaInv' /\ closed' = closed
         /\ \A u \in Tracks : src'[u].viewers = src[u].viewers
         /\ \A u \in Tracks : src'[u].made = src[u].made \/ ~src[u].cooling
  <1>1. /\ Sound(src[t], closed) /\ src[t] \in Source /\ closed \in BOOLEAN /\ Coherent(src[t])
        /\ src \in [Tracks -> Source]
    BY DEF MediaInv, Plane, Sound
  <1>2. ASSUME NEW r, src' = [src EXCEPT ![t] = r], closed' = closed, Sound(r, closed),
               running(r) => running(src[t]), r.viewers = src[t].viewers,
               r.made = src[t].made \/ ~src[t].cooling
        PROVE  /\ MediaInv' /\ closed' = closed
               /\ \A u \in Tracks : src'[u].viewers = src[u].viewers
               /\ \A u \in Tracks : src'[u].made = src[u].made \/ ~src[u].cooling
    <2>1. Plane([src EXCEPT ![t] = r], closed)
      BY <1>2, PlaneUpdate DEF MediaInv
    <2>2. MediaInv'
      BY <1>2, <2>1 DEF MediaInv
    <2>3. QED
      BY <1>1, <1>2, <2>2
  <1>3. CASE GraceExpires(t)
    <2> PICK s : s = [src[t] EXCEPT !.grace = FALSE]
      OBVIOUS
    <2>1. /\ s \in Source /\ s.encoder = src[t].encoder /\ s.release = src[t].release
          /\ s.waiting = src[t].waiting /\ s.live = src[t].live /\ s.made = src[t].made
          /\ s.viewers = src[t].viewers
      BY <1>1 DEF Source
    <2>2. s.viewers = {} /\ (SlowStop \/ src[t].release = 0)
      BY <1>1, <1>3, <2>1 DEF GraceExpires, TimersMayFire, Coherent
    <2>3. Sound(finish(s, "idle"), closed) /\ (running(finish(s, "idle")) => running(src[t]))
      <3>1. Sound(finish(s, "idle"), closed)
        BY <1>1, <2>1, <2>2, FinishIsSound
      <3>2. running(finish(s, "idle")) => running(src[t])
        BY <1>1, <2>1, FinishRuns
      <3>3. QED
        BY <3>1, <3>2
    <2>4. finish(s, "idle").viewers = src[t].viewers /\ finish(s, "idle").made = src[t].made
      BY <2>1, FinishFields
    <2>5. src' = [src EXCEPT ![t] = finish(s, "idle")] /\ closed' = closed
      BY <1>3 DEF GraceExpires
    <2>6. QED
      BY <1>2, <2>3, <2>4, <2>5
  <1>4. CASE StopEnds(t)
    <2>1. src' = [src EXCEPT ![t] = stopped(src[t])] /\ closed' = closed /\ src[t].release # 0
      BY <1>4 DEF StopEnds
    <2>2. /\ Sound(stopped(src[t]), closed) /\ stopped(src[t]).viewers = src[t].viewers
          /\ running(src[t])
          /\ stopped(src[t]).made = src[t].made \/ src[t].phase = "starting"
      BY <1>1, <2>1, StoppedIsSound
    <2>3. stopped(src[t]).made = src[t].made \/ ~src[t].cooling
      BY <1>1, <2>2 DEF Coherent
    <2>4. QED
      BY <1>2, <2>1, <2>2, <2>3
  <1>5. CASE \/ CoolingEnds(t) \/ QuietEnds(t) \/ KeyframeRequest(t)
             \/ \E e \in src[t].live : WorkerStarted(t, e)
    <2> PICK r : /\ src' = [src EXCEPT ![t] = r] /\ closed' = closed
                 /\ \/ r = [src[t] EXCEPT !.cooling = FALSE]
                    \/ r = [src[t] EXCEPT !.quiet = FALSE]
                    \/ r = [src[t] EXCEPT !.quiet = TRUE]
                    \/ \E e \in src[t].live : r = [src[t] EXCEPT !.settled = @ \cup {e}]
      BY <1>5 DEF CoolingEnds, QuietEnds, KeyframeRequest, requestKeyframe, WorkerStarted
    <2>1. /\ r \in Source /\ r.viewers = src[t].viewers /\ r.phase = src[t].phase
          /\ r.encoder = src[t].encoder /\ r.grace = src[t].grace
          /\ r.deadline = src[t].deadline /\ r.release = src[t].release
          /\ r.waiting = src[t].waiting /\ r.live = src[t].live /\ r.made = src[t].made
          /\ r.cooling => src[t].cooling
      <3>1. CASE r = [src[t] EXCEPT !.cooling = FALSE]
        BY <1>1, <3>1 DEF Source
      <3>2. CASE r = [src[t] EXCEPT !.quiet = FALSE] \/ r = [src[t] EXCEPT !.quiet = TRUE]
        BY <1>1, <3>2 DEF Source
      <3>3. CASE \E e \in src[t].live : r = [src[t] EXCEPT !.settled = @ \cup {e}]
        <4> PICK x : x \subseteq 1 .. MaxEncoders /\ r = [src[t] EXCEPT !.settled = x]
          BY <1>1, <3>3, SourceFields
        <4>1. QED
          BY <1>1 DEF Source
      <3>4. QED
        BY <3>1, <3>2, <3>3
    <2>2. Sound(r, closed) /\ (running(r) => running(src[t]))
      BY <1>1, <2>1, MarkIsSound
    <2>3. QED
      BY <1>2, <2>1, <2>2
  <1>6. QED
    BY <1>3, <1>4, <1>5 DEF QuietStep

-----------------------------------------------------------------------------
(***************************************************************************)
(* The invariant and its consequences.                                     *)
(***************************************************************************)

\* A new media plane.
LEMMA MediaInit == Init => MediaInv
  <1> SUFFICES ASSUME Init PROVE MediaInv
    OBVIOUS
  <1>1. src \in [Tracks -> Source] /\ \A t \in Tracks : Sound(src[t], FALSE) /\ ~running(src[t])
    BY IdleIsSound DEF Init, Sound
  <1>2. Running(src) = {} /\ Cardinality(Running(src)) = 0
    BY <1>1, FS_EmptySet DEF Running
  <1>3. Cardinality(Running(src)) <= MaxPipelines
    BY <1>2, RunningNumber
  <1>4. QED
    BY <1>1, <1>3 DEF Init, MediaInv, Plane

\* An encoder is created in a step only where no failure is recent.
Spaced == \A t \in Tracks : src'[t].made = src[t].made \/ ~src[t].cooling

\* close() finishes every source, whatever it was doing.
LEMMA CloseIsSound ==
  ASSUME MediaInv, Close
  PROVE  MediaInv' /\ Spaced /\ \A t \in Tracks : src'[t].viewers = {}
  <1>1. /\ closed' = TRUE /\ closed \in BOOLEAN /\ src \in [Tracks -> Source]
        /\ src' = [t \in Tracks |-> closeSource(src[t])]
    BY DEF Close, MediaInv, Plane
  <1>2. ASSUME NEW t \in Tracks
        PROVE  /\ Sound(src'[t], TRUE) /\ (running(src'[t]) => running(src[t]))
               /\ src'[t].viewers = {} /\ src'[t].made = src[t].made /\ src'[t] \in Source
    <2> PICK s : s = [src[t] EXCEPT !.viewers = {}]
      OBVIOUS
    <2>1. /\ Sound(src[t], closed) /\ src[t] \in Source
          /\ src'[t] = finish(s, "idle")
      BY <1>1 DEF MediaInv, Plane, closeSource
    <2>2. /\ s \in Source /\ s.encoder = src[t].encoder /\ s.release = src[t].release
          /\ s.waiting = src[t].waiting /\ s.live = src[t].live /\ s.made = src[t].made
          /\ s.viewers = {}
      BY <2>1 DEF Source
    <2>3. Sound(finish(s, "idle"), TRUE)
      BY <1>1, <2>1, <2>2, FinishIsSound
    <2>4. running(finish(s, "idle")) => running(src[t])
      BY <1>1, <2>1, <2>2, FinishRuns
    <2>5. /\ finish(s, "idle").viewers = {} /\ finish(s, "idle").made = src[t].made
          /\ finish(s, "idle") \in Source
      BY <2>2, FinishFields
    <2>6. QED
      BY <2>1, <2>3, <2>4, <2>5
  <1>3. Plane(src', TRUE)
    <2>1. /\ src' \in [Tracks -> Source] /\ \A t \in Tracks : Sound(src'[t], TRUE)
          /\ \A t \in Tracks : running(src'[t]) => running(src[t])
      BY <1>1, <1>2
    <2>2. QED
      BY <2>1, PlaneShrinks DEF MediaInv
  <1>4. QED
    BY <1>1, <1>2, <1>3 DEF MediaInv, Spaced

\* Every step of the media plane keeps the invariant and the spacing of retries.
LEMMA MediaStep == MediaInv /\ [Next]_mediaVars => MediaInv' /\ (Spaced \/ UNCHANGED mediaVars)
  <1> SUFFICES ASSUME MediaInv, [Next]_mediaVars
               PROVE  MediaInv' /\ (Spaced \/ UNCHANGED mediaVars)
    OBVIOUS
  <1>1. /\ src \in [Tracks -> Source] /\ closed \in BOOLEAN
        /\ \A t \in Tracks : Sound(src[t], closed)
    BY DEF MediaInv, Plane
  <1>2. ASSUME NEW t \in Tracks, NEW r, src' = [src EXCEPT ![t] = r], closed' = closed,
               Sound(r, closed), running(r) => running(src[t]), r.made = src[t].made
        PROVE  MediaInv' /\ Spaced
    <2>1. Plane([src EXCEPT ![t] = r], closed)
      BY <1>2, PlaneUpdate DEF MediaInv
    <2>2. Spaced
      BY <1>1, <1>2 DEF Spaced
    <2>3. QED
      BY <1>2, <2>1, <2>2 DEF MediaInv
  <1>3. ASSUME NEW t \in Tracks, NEW v \in Viewers, Attach(t, v) PROVE MediaInv' /\ Spaced
    <2>1. /\ closed = FALSE /\ closed' = FALSE /\ src' = [src EXCEPT ![t] = add(@, v)]
          /\ ~src[t].cooling /\ CanMake(src[t])
          /\ running(src[t]) \/ Cardinality({u \in Tracks : running(src[u])}) < MaxPipelines
      BY <1>1, <1>3 DEF Attach, attachable
    <2>2. Plane([src EXCEPT ![t] = add(@, v)], FALSE)
      BY <2>1, PlaneAdd DEF MediaInv
    <2>3. Spaced
      BY <1>1, <2>1 DEF Spaced
    <2>4. QED
      BY <2>1, <2>2, <2>3 DEF MediaInv
  <1>4. ASSUME NEW t \in Tracks, NEW v \in Viewers, Detach(t, v) PROVE MediaInv' /\ Spaced
    <2> PICK r : r = removeAll(src[t], {v})
      OBVIOUS
    <2>1. src' = [src EXCEPT ![t] = r] /\ closed' = closed
      BY <1>4 DEF Detach
    <2>2. Sound(r, closed)
      BY <1>1, RemoveIsSound
    <2>3. (running(r) => running(src[t])) /\ r.made = src[t].made
      BY <1>1, RemoveFields DEF running
    <2>4. QED
      BY <1>2, <2>1, <2>2, <2>3
  <1>5. ASSUME NEW t \in Tracks, StartDeadline(t) PROVE MediaInv' /\ Spaced
    <2> PICK r : r = finish([src[t] EXCEPT !.settled = src[t].settled], "failed")
      OBVIOUS
    <2>1. src' = [src EXCEPT ![t] = r] /\ closed' = closed /\ DeadlineDue(t)
      BY <1>1, <1>5 DEF StartDeadline, Source
    <2>2. SlowStop \/ src[t].release = 0
      BY <2>1, FailureCauses
    <2>3. src[t].settled \in SUBSET (1 .. MaxEncoders)
      BY <1>1, SourceFields
    <2>4. /\ Sound(r, closed) /\ (running(r) => running(src[t])) /\ r.made = src[t].made
      BY <2>2, <2>3, FailureIsSound
    <2>5. QED
      BY <1>2, <2>1, <2>4
  <1>6. ASSUME NEW t \in Tracks, NEW e \in src[t].live, WorkerFails(t, e) PROVE MediaInv' /\ Spaced
    <2> PICK r : r = finish([src[t] EXCEPT !.settled = @ \cup {e}], "failed")
      OBVIOUS
    <2>1. src' = [src EXCEPT ![t] = r] /\ closed' = closed /\ FailureDue(t, e)
      BY <1>6 DEF WorkerFails
    <2>2. SlowStop \/ src[t].release = 0
      BY <2>1, FailureCauses
    <2>3. src[t].settled \cup {e} \in SUBSET (1 .. MaxEncoders)
      BY <1>1, SourceFields
    <2>4. /\ Sound(r, closed) /\ (running(r) => running(src[t])) /\ r.made = src[t].made
      BY <2>2, <2>3, FailureIsSound
    <2>5. QED
      BY <1>2, <2>1, <2>4
  <1>7. ASSUME NEW t \in Tracks, NEW e \in src[t].live, Packet(t, e) PROVE MediaInv' /\ Spaced
    <2>1. src' = [src EXCEPT ![t] = deliver(src[t])] /\ closed' = closed /\ PacketDue(t, e)
      BY <1>7 DEF Packet
    <2>2. QED
      BY <1>2, <2>1, PacketIsSound
  <1>8. ASSUME NEW t \in Tracks, QuietStep(t) \/ KeyframeRequest(t) PROVE MediaInv' /\ Spaced
    BY <1>8, QuietIsSound DEF Spaced
  <1>9. CASE UNCHANGED mediaVars
    BY <1>9 DEF mediaVars, MediaInv
  <1>10. QED
    BY <1>3, <1>4, <1>5, <1>6, <1>7, <1>8, <1>9, CloseIsSound
       DEF Next, Timers, Workers, Requests, QuietStep

\* The invariant of the media plane: the state of every source is well-typed and coherent,
\* and unless stop() outlasts the timers it refers to each of its workers.
THEOREM MediaInvariant == Spec => []MediaInv
  BY MediaInit, MediaStep, PTL DEF Spec

\* Type correctness of the media plane.
THEOREM TypeCorrect == Spec => []TypeOK
  <1>1. MediaInv => TypeOK
    BY DEF MediaInv, Plane, TypeOK
  <1>2. QED
    BY <1>1, MediaInvariant, PTL

\* The invariant contains NoStuckSource.
LEMMA MediaNotStuck == MediaInv => NoStuckSource
  <1> SUFFICES ASSUME MediaInv, NEW t \in Tracks PROVE Coherent(src[t]) /\ src[t] \in Source
    BY SourceFields DEF Coherent, NoStuckSource
  <1>1. QED
    BY DEF MediaInv, Plane, Sound

\* A watched source is on its way to frames, an unwatched encoder has its grace timer
\* armed and no timer outlives its cause, however slow the workers are to stop.
THEOREM NeverStuck == Spec => []NoStuckSource
  BY MediaInvariant, MediaNotStuck, PTL

\* No encoder of a track is created inside the retry window after a failure, starts that
\* were already pending when it failed included.
THEOREM RetriesSpaced == Spec => RetriesAreSpaced
  <1>1. MediaInv /\ [Next]_mediaVars
        => [\A t \in Tracks : src'[t].made > src[t].made => ~src[t].cooling]_mediaVars
    <2> SUFFICES ASSUME MediaInv, Spaced, NEW t \in Tracks, src'[t].made > src[t].made
                 PROVE  ~src[t].cooling
      BY MediaStep
    <2>1. src[t].made \in Nat
      BY SourceFields DEF MediaInv, Plane
    <2>2. QED
      BY <2>1 DEF Spaced
  <1>2. QED
    BY <1>1, MediaInvariant, PTL DEF Spec, RetriesAreSpaced

\* The invariant contains OneEncoderPerTrack where stop() ends before the timers.
LEMMA MediaSoleEncoder == ~SlowStop /\ MediaInv => OneEncoderPerTrack
  <1> SUFFICES ASSUME ~SlowStop, MediaInv, NEW t \in Tracks
               PROVE  /\ src[t].live = {e \in {src[t].encoder, src[t].release} : e # 0}
                      /\ Cardinality(src[t].live) <= 1
    BY DEF OneEncoderPerTrack
  <1>1. SoleEncoder(src[t], closed)
    BY DEF MediaInv, Plane, Sound
  <1>2. src[t].live = {} \/ \E e : src[t].live = {e}
    BY <1>1 DEF SoleEncoder
  <1>3. Cardinality(src[t].live) <= 1
    <2>1. CASE src[t].live = {}
      BY <2>1, FS_EmptySet
    <2>2. ASSUME NEW e, src[t].live = {e} PROVE Cardinality(src[t].live) <= 1
      <3>1. Cardinality({e}) = 1
        BY FS_Singleton
      <3>2. QED
        BY <2>2, <3>1
    <2>3. QED
      BY <1>2, <2>1, <2>2
  <1>4. QED
    BY <1>1, <1>3 DEF SoleEncoder

\* One track never holds two encoders, and every worker is one the source refers to,
\* when the timers are configured longer than a stop takes.
THEOREM SoleEncoderPerTrack ==
  ASSUME ~SlowStop
  PROVE  Spec => []OneEncoderPerTrack
  <1>1. MediaInv => OneEncoderPerTrack
    BY MediaSoleEncoder
  <1>2. QED
    BY <1>1, MediaInvariant, PTL

\* The sources with a worker are among those attach() counts.
LEMMA MediaPipelines == ~SlowStop /\ MediaInv => PipelineBound
  <1> SUFFICES ASSUME ~SlowStop, MediaInv PROVE PipelineBound
    OBVIOUS
  <1>1. {t \in Tracks : src[t].live # {}} \in SUBSET Running(src)
    <2> SUFFICES ASSUME NEW t \in Tracks, src[t].live # {} PROVE running(src[t])
      BY DEF Running
    <2>1. SoleEncoder(src[t], closed) /\ Coherent(src[t])
      BY DEF MediaInv, Plane, Sound
    <2>2. src[t].encoder # 0 \/ src[t].release # 0
      BY <2>1 DEF SoleEncoder
    <2>3. QED
      BY <2>1, <2>2 DEF Coherent, running
  <1>2. Cardinality({t \in Tracks : src[t].live # {}}) <= Cardinality(Running(src))
    BY <1>1, RunningNumber, FS_Subset
  <1>3. IsFiniteSet({t \in Tracks : src[t].live # {}})
    BY <1>1, RunningNumber, FS_Subset
  <1>4. Cardinality({t \in Tracks : src[t].live # {}}) \in Nat
    BY <1>3, FS_CardinalityType
  <1>5. Cardinality(Running(src)) <= MaxPipelines
    BY DEF MediaInv, Plane
  <1>6. Cardinality({t \in Tracks : src[t].live # {}}) <= MaxPipelines
    BY <1>2, <1>4, <1>5, RunningNumber
  <1>7. QED
    BY <1>6 DEF PipelineBound, Quantify

\* max_pipelines bounds the worker processes, those in their grace window and those
\* going away included, when the timers are configured longer than a stop takes.
THEOREM PipelinesBounded ==
  ASSUME ~SlowStop
  PROVE  Spec => []PipelineBound
  <1>1. MediaInv => PipelineBound
    BY MediaPipelines
  <1>2. QED
    BY <1>1, MediaInvariant, PTL

-----------------------------------------------------------------------------
(***************************************************************************)
(* VideoRouter: the records of the peers' routers agree with the media     *)
(* plane, for any number of peers, tracks, slots and pipelines.            *)
(*                                                                         *)
(* A handler changes the sources and a peer's records, then Settle changes *)
(* both again for the scopes that were withdrawn.  The invariant is stated *)
(* for sources and records that need not be the variables (Books), so that *)
(* it can be shown of the state in between.                                *)
(***************************************************************************)

\* Records b (slots), w (beliefs) and a (attachments) of peers of which o are open agree
\* with the sources f of a media plane that is closed or not, c.
Books(f, c, o, b, w, a) ==
  /\ o \subseteq Peers /\ {b, w, a} \subseteq [Peers -> SUBSET Tracks]
  /\ c => o = {}
  /\ \A p \in Peers :
       /\ Cardinality(b[p]) <= MaxSlots
       /\ p \in o => a[p] = w[p] /\ a[p] \subseteq b[p]
       /\ ~c => a[p] = {t \in Tracks : p \in f[t].viewers}
       /\ p \notin o \cup Overflowing => \A t \in Tracks : p \notin f[t].viewers

\* The inductive invariant.
RouterInv ==
  /\ MediaInv
  /\ allowed \subseteq Tracks
  /\ Books(src, closed, open, bound, watching, attached)

-----------------------------------------------------------------------------

\* The fields of Books, to be cited without its definition.
LEMMA BooksParts ==
  ASSUME NEW f, NEW c, NEW o, NEW b, NEW w, NEW a, Books(f, c, o, b, w, a)
  PROVE  /\ o \subseteq Peers /\ b \in [Peers -> SUBSET Tracks]
         /\ w \in [Peers -> SUBSET Tracks] /\ a \in [Peers -> SUBSET Tracks]
         /\ c => o = {}
  BY DEF Books

\* Viewers leave any number of sources.
LEMMA ReleasedSources ==
  ASSUME NEW f, NEW c, Plane(f, c), NEW a, NEW drop
  PROVE  /\ Plane(Released(f, a, drop), c)
         /\ \A t \in Tracks : Released(f, a, drop)[t].viewers =
                                f[t].viewers \ {p \in Peers : t \in drop[p] \cap a[p]}
  <1> PICK g : g = Released(f, a, drop)
    OBVIOUS
  <1>1. g = [t \in Tracks |-> removeAll(f[t], {p \in Peers : t \in drop[p] \cap a[p]})]
    BY DEF Released
  <1>2. /\ f \in [Tracks -> Source] /\ c \in BOOLEAN
        /\ \A t \in Tracks : Sound(f[t], c)
    BY DEF Plane
  <1>3. ASSUME NEW t \in Tracks
        PROVE  /\ Sound(g[t], c) /\ g[t] \in Source /\ (running(g[t]) => running(f[t]))
               /\ g[t].viewers = f[t].viewers \ {p \in Peers : t \in drop[p] \cap a[p]}
    <2> PICK V : V = {p \in Peers : t \in drop[p] \cap a[p]}
      OBVIOUS
    <2>1. g[t] = removeAll(f[t], V) /\ f[t] \in Source /\ Sound(f[t], c)
      BY <1>1, <1>2
    <2>2. Sound(removeAll(f[t], V), c)
      BY <1>2, <2>1, RemoveIsSound
    <2>3. /\ removeAll(f[t], V) \in Source /\ removeAll(f[t], V).viewers = f[t].viewers \ V
          /\ running(removeAll(f[t], V)) => running(f[t])
      BY <2>1, RemoveFields DEF running
    <2>4. QED
      BY <2>1, <2>2, <2>3
  <1>4. /\ g \in [Tracks -> Source] /\ \A t \in Tracks : Sound(g[t], c)
        /\ \A t \in Tracks : running(g[t]) => running(f[t])
    BY <1>1, <1>3
  <1>5. Plane(g, c)
    BY <1>2, <1>4, PlaneShrinks
  <1>6. QED
    BY <1>3, <1>5

\* The end of a step: what revalidate() takes back is taken back from the records and
\* from the media plane alike.
LEMMA SettleBooks ==
  ASSUME NEW f, NEW c \in BOOLEAN, NEW b, NEW w, NEW a, NEW flushed, Plane(f, c),
         Books(f, c, open, b, w, a), Settle(f, w, a, flushed)
  PROVE  Plane(src', c) /\ Books(src', c, open, b, watching', attached')
  <1> PICK lost : lost = Lost(w, flushed)
    OBVIOUS
  <1>1. /\ open \subseteq Peers /\ b \in [Peers -> SUBSET Tracks]
        /\ w \in [Peers -> SUBSET Tracks] /\ a \in [Peers -> SUBSET Tracks] /\ (c => open = {})
    BY BooksParts
  <1>2. /\ src' = Released(f, a, lost)
        /\ watching' = [p \in Peers |-> w[p] \ lost[p]]
        /\ attached' = [p \in Peers |-> a[p] \ lost[p]]
    BY DEF Settle
  <1>3. /\ Plane(src', c)
        /\ \A t \in Tracks : src'[t].viewers =
                               f[t].viewers \ {p \in Peers : t \in lost[p] \cap a[p]}
    BY <1>2, ReleasedSources
  <1>4. {watching', attached'} \subseteq [Peers -> SUBSET Tracks]
    BY <1>1, <1>2
  <1>5. ASSUME NEW p \in Peers
        PROVE  /\ Cardinality(b[p]) <= MaxSlots
               /\ p \in open => attached'[p] = watching'[p] /\ attached'[p] \subseteq b[p]
               /\ ~c => attached'[p] = {t \in Tracks : p \in src'[t].viewers}
               /\ p \notin open \cup Overflowing => \A t \in Tracks : p \notin src'[t].viewers
    <2>1. /\ Cardinality(b[p]) <= MaxSlots
          /\ p \in open => a[p] = w[p] /\ a[p] \subseteq b[p]
          /\ ~c => a[p] = {t \in Tracks : p \in f[t].viewers}
          /\ p \notin open \cup Overflowing => \A t \in Tracks : p \notin f[t].viewers
      BY DEF Books
    <2>2. attached'[p] = a[p] \ lost[p] /\ watching'[p] = w[p] \ lost[p]
      BY <1>2
    <2>3. ~c => attached'[p] = {t \in Tracks : p \in src'[t].viewers}
      BY <1>3, <2>1, <2>2
    <2>4. p \notin open \cup Overflowing => \A t \in Tracks : p \notin src'[t].viewers
      BY <1>3, <2>1
    <2>5. QED
      BY <2>1, <2>2, <2>3, <2>4
  <1>6. QED
    BY <1>1, <1>3, <1>4, <1>5 DEF Books

\* Settle() and the unchanged rest make the invariant of the next state.
LEMMA SettleInv ==
  ASSUME NEW f, NEW b, NEW w, NEW a, NEW flushed, RouterInv, Plane(f, closed),
         Books(f, closed, open, b, w, a), Settle(f, w, a, flushed), bound' = b,
         UNCHANGED <<closed, open, allowed>>
  PROVE  RouterInv'
  <1>1. closed \in BOOLEAN
    BY DEF RouterInv, MediaInv, Plane
  <1>2. Plane(src', closed) /\ Books(src', closed, open, b, watching', attached')
    BY <1>1, SettleBooks
  <1>3. QED
    BY <1>2 DEF RouterInv, MediaInv

\* bind() never overbooks a peer's slots.
LEMMA BindBooks ==
  ASSUME RouterInv, NEW p \in Peers, NEW t \in Tracks, Bind(p, t)
  PROVE  /\ Books(src, closed, open, bound', watching, attached)
         /\ bound' \in [Peers -> SUBSET Tracks] /\ t \in bound'[p]
  <1>1. /\ Books(src, closed, open, bound, watching, attached)
        /\ bound \in [Peers -> SUBSET Tracks]
    BY BooksParts DEF RouterInv
  <1>2. /\ bound' = [bound EXCEPT ![p] = @ \cup {t}]
        /\ t \in bound[p] \/ Cardinality(bound[p]) < MaxSlots
    BY DEF Bind, Bindable
  <1>3. /\ bound' \in [Peers -> SUBSET Tracks] /\ bound'[p] = bound[p] \cup {t}
        /\ \A q \in Peers : q # p => bound'[q] = bound[q]
        /\ \A q \in Peers : bound[q] \subseteq bound'[q]
    BY <1>1, <1>2
  <1>4. Cardinality(bound'[p]) <= MaxSlots
    <2>1. IsFiniteSet(Tracks) /\ bound[p] \in SUBSET Tracks /\ MaxSlots \in Nat
      BY <1>1, MediaAssumption, RouterAssumption
    <2>2. IsFiniteSet(bound[p])
      BY <2>1, FS_Subset
    <2>3. Cardinality(bound[p]) \in Nat /\ Cardinality(bound[p]) <= MaxSlots
      BY <1>1, <2>2, FS_CardinalityType DEF Books
    <2>4. Cardinality(bound[p] \cup {t}) =
            IF t \in bound[p] THEN Cardinality(bound[p]) ELSE Cardinality(bound[p]) + 1
      BY <2>2, FS_AddElement
    <2>5. QED
      BY <1>2, <1>3, <2>1, <2>3, <2>4
  <1>5. \A q \in Peers :
          /\ Cardinality(bound'[q]) <= MaxSlots
          /\ q \in open => attached[q] \subseteq bound'[q]
    BY <1>1, <1>3, <1>4 DEF Books
  <1>6. QED
    BY <1>1, <1>3, <1>5 DEF Books

\* While a peer is open the media plane is not closed.
LEMMA OpenPlane ==
  ASSUME RouterInv, NEW p \in open
  PROVE  closed = FALSE /\ p \in Peers
  BY DEF RouterInv, MediaInv, Plane, Books

\* The viewers after an accepted attach.
LEMMA AttachedSources ==
  ASSUME RouterInv, NEW p \in open, NEW t \in Tracks, attachable(t), CanMake(src[t])
  PROVE  /\ Plane([src EXCEPT ![t] = add(@, p)], closed)
         /\ add(src[t], p).viewers = src[t].viewers \cup {p}
         /\ src \in [Tracks -> Source]
  <1>1. closed = FALSE /\ p \in Viewers
    BY OpenPlane DEF Peers
  <1>2. /\ Plane(src, FALSE) /\ src \in [Tracks -> Source] /\ Sound(src[t], FALSE)
    BY <1>1 DEF RouterInv, MediaInv, Plane
  <1>3. /\ ~src[t].cooling
        /\ running(src[t]) \/ Cardinality({u \in Tracks : running(src[u])}) < MaxPipelines
    BY DEF attachable
  <1>4. Plane([src EXCEPT ![t] = add(@, p)], FALSE)
    BY <1>1, <1>2, <1>3, PlaneAdd
  <1>5. add(src[t], p).viewers = src[t].viewers \cup {p}
    BY <1>1, <1>2, <1>3, AddIsSound
  <1>6. QED
    BY <1>1, <1>2, <1>4, <1>5

\* video.subscribe records the attachment on both sides.
LEMMA SubscribeStep ==
  ASSUME RouterInv, NEW p \in Peers, NEW t \in Tracks, Subscribe(p, t)
  PROVE  RouterInv'
  <1> PICK f : f = [src EXCEPT ![t] = add(@, p)]
    OBVIOUS
  <1> PICK w : w = [watching EXCEPT ![p] = @ \cup {t}]
    OBVIOUS
  <1> PICK a : a = [attached EXCEPT ![p] = @ \cup {t}]
    OBVIOUS
  <1> PICK b : b = bound'
    OBVIOUS
  <1>1. /\ p \in open /\ Bind(p, t) /\ attachable(t) /\ CanMake(src[t])
        /\ UNCHANGED <<closed, open, allowed>>
    BY DEF Subscribe, SubscribeHead
  <1>2. Settle(f, w, a, {p})
    BY DEF Subscribe
  <1>3. closed = FALSE
    BY <1>1, OpenPlane
  <1>4. /\ Plane(f, closed) /\ f[t].viewers = src[t].viewers \cup {p}
        /\ \A u \in Tracks : u # t => f[u] = src[u]
    <2>1. /\ Plane([src EXCEPT ![t] = add(@, p)], closed)
          /\ add(src[t], p).viewers = src[t].viewers \cup {p}
          /\ src \in [Tracks -> Source]
      BY <1>1, AttachedSources
    <2>2. QED
      BY <2>1
  <1>5. Books(src, closed, open, b, watching, attached) /\ t \in b[p]
    BY <1>1, BindBooks
  <1>6. /\ w \in [Peers -> SUBSET Tracks] /\ a \in [Peers -> SUBSET Tracks]
        /\ w[p] = watching[p] \cup {t} /\ a[p] = attached[p] \cup {t}
        /\ \A q \in Peers : q # p => w[q] = watching[q] /\ a[q] = attached[q]
    BY <1>5 DEF Books
  <1>7. ASSUME NEW q \in Peers
        PROVE  /\ Cardinality(b[q]) <= MaxSlots
               /\ q \in open => a[q] = w[q] /\ a[q] \subseteq b[q]
               /\ a[q] = {u \in Tracks : q \in f[u].viewers}
               /\ q \notin open \cup Overflowing => \A u \in Tracks : q \notin f[u].viewers
    <2>1. /\ Cardinality(b[q]) <= MaxSlots
          /\ q \in open => attached[q] = watching[q] /\ attached[q] \subseteq b[q]
          /\ attached[q] = {u \in Tracks : q \in src[u].viewers}
          /\ q \notin open \cup Overflowing => \A u \in Tracks : q \notin src[u].viewers
      BY <1>3, <1>5 DEF Books
    <2>2. \A u \in Tracks : q \in f[u].viewers <=> q \in src[u].viewers \/ (q = p /\ u = t)
      BY <1>4
    <2>3. a[q] = {u \in Tracks : q \in f[u].viewers}
      BY <1>6, <2>1, <2>2
    <2>4. QED
      BY <1>1, <1>5, <1>6, <2>1, <2>2, <2>3
  <1>8. Books(f, closed, open, b, w, a)
    <2>1. open \subseteq Peers /\ {b, w, a} \subseteq [Peers -> SUBSET Tracks]
      BY <1>5, <1>6, BooksParts
    <2>2. QED
      BY <1>3, <1>7, <2>1 DEF Books
  <1>9. QED
    BY <1>1, <1>2, <1>4, <1>8, SettleInv

\* A step that leaves the sources and records alone but for Settle.
LEMMA FlushStep ==
  ASSUME RouterInv, NEW p \in Peers, Settle(src, watching, attached, {p}),
         Books(src, closed, open, bound', watching, attached),
         UNCHANGED <<closed, open, allowed>>
  PROVE  RouterInv'
  <1> PICK b : b = bound'
    OBVIOUS
  <1> PICK f : f = src
    OBVIOUS
  <1> PICK w : w = watching
    OBVIOUS
  <1> PICK a : a = attached
    OBVIOUS
  <1>1. /\ Plane(f, closed) /\ Books(f, closed, open, b, w, a) /\ Settle(f, w, a, {p})
    BY DEF RouterInv, MediaInv
  <1>2. QED
    BY <1>1, SettleInv

\* A viewer that leaves one source or all of them: f are the sources, w and a the records
\* after peer p has released the tracks `gone`.
LEMMA ReleaseBooks ==
  ASSUME RouterInv, NEW p \in open, NEW gone \in SUBSET Tracks, NEW f, NEW w, NEW a,
         f = Released(src, attached, [q \in Peers |-> IF q = p THEN gone ELSE {}]),
         w = [watching EXCEPT ![p] = @ \ gone], a = [attached EXCEPT ![p] = @ \ gone]
  PROVE  Plane(f, closed) /\ Books(f, closed, open, bound, w, a)
  <1>1. closed = FALSE /\ p \in Peers /\ Plane(src, closed)
    BY OpenPlane DEF RouterInv, MediaInv
  <1>2. Books(src, closed, open, bound, watching, attached)
    BY DEF RouterInv
  <1> PICK drop : drop = [q \in Peers |-> IF q = p THEN gone ELSE {}]
    OBVIOUS
  <1>3. /\ Plane(f, closed)
        /\ \A t \in Tracks : f[t].viewers =
                               src[t].viewers \ {q \in Peers : t \in drop[q] \cap attached[q]}
    BY <1>1, ReleasedSources
  <1>4. /\ open \subseteq Peers /\ {bound, w, a} \subseteq [Peers -> SUBSET Tracks]
        /\ w[p] = watching[p] \ gone /\ a[p] = attached[p] \ gone
        /\ \A q \in Peers : q # p => w[q] = watching[q] /\ a[q] = attached[q]
    BY <1>1, <1>2 DEF Books
  <1>5. ASSUME NEW q \in Peers
        PROVE  /\ Cardinality(bound[q]) <= MaxSlots
               /\ q \in open => a[q] = w[q] /\ a[q] \subseteq bound[q]
               /\ a[q] = {u \in Tracks : q \in f[u].viewers}
               /\ q \notin open \cup Overflowing => \A u \in Tracks : q \notin f[u].viewers
    <2>1. /\ Cardinality(bound[q]) <= MaxSlots
          /\ q \in open => attached[q] = watching[q] /\ attached[q] \subseteq bound[q]
          /\ attached[q] = {u \in Tracks : q \in src[u].viewers}
          /\ q \notin open \cup Overflowing => \A u \in Tracks : q \notin src[u].viewers
      BY <1>1, <1>2 DEF Books
    <2>2. drop[q] = IF q = p THEN gone ELSE {}
      OBVIOUS
    <2>3. \A u \in Tracks : q \in f[u].viewers <=>
                              q \in src[u].viewers /\ ~(u \in drop[q] /\ u \in attached[q])
      BY <1>3
    <2>4. a[q] = attached[q] \ drop[q] /\ w[q] = watching[q] \ drop[q]
      BY <1>4, <2>2
    <2>5. a[q] = {u \in Tracks : q \in f[u].viewers}
      BY <2>1, <2>3, <2>4
    <2>6. QED
      BY <2>1, <2>3, <2>4, <2>5
  <1>6. QED
    BY <1>1, <1>3, <1>4, <1>5 DEF Books

\* video.unsubscribe.
LEMMA UnsubscribeStep ==
  ASSUME RouterInv, NEW p \in Peers, NEW t \in Tracks, Unsubscribe(p, t)
  PROVE  RouterInv'
  <1> PICK f : f = Released(src, attached, [q \in Peers |-> IF q = p THEN {t} ELSE {}])
    OBVIOUS
  <1> PICK w : w = [watching EXCEPT ![p] = @ \ {t}]
    OBVIOUS
  <1> PICK a : a = [attached EXCEPT ![p] = @ \ {t}]
    OBVIOUS
  <1> PICK b : b = bound
    OBVIOUS
  <1>1. p \in open /\ UNCHANGED <<closed, open, allowed>> /\ bound' = b /\ Settle(f, w, a, {p})
    BY DEF Unsubscribe
  <1>2. Plane(f, closed) /\ Books(f, closed, open, b, w, a)
    BY <1>1, ReleaseBooks
  <1>3. QED
    BY <1>1, <1>2, SettleInv

\* A peer that closes has released everything it was attached to.
LEMMA PeerCloseStep ==
  ASSUME RouterInv, NEW p \in Peers, PeerClose(p)
  PROVE  RouterInv'
  <1> PICK gone : gone = bound[p]
    OBVIOUS
  <1> PICK w : w = [watching EXCEPT ![p] = @ \ gone]
    OBVIOUS
  <1> PICK a : a = [attached EXCEPT ![p] = @ \ gone]
    OBVIOUS
  <1>1. /\ p \in open /\ open' = open \ {p} /\ UNCHANGED <<closed, allowed, bound>>
        /\ src' = Released(src, attached, [q \in Peers |-> IF q = p THEN gone ELSE {}])
        /\ watching' = [watching EXCEPT ![p] = {}] /\ attached' = [attached EXCEPT ![p] = {}]
    BY DEF PeerClose
  <1>2. /\ closed = FALSE /\ gone \in SUBSET Tracks
        /\ attached[p] = watching[p] /\ attached[p] \subseteq gone
        /\ watching \in [Peers -> SUBSET Tracks] /\ attached \in [Peers -> SUBSET Tracks]
    BY <1>1, OpenPlane DEF RouterInv, Books
  <1>3. w = watching' /\ a = attached'
    BY <1>1, <1>2
  <1>4. Plane(src', closed) /\ Books(src', closed, open, bound, watching', attached')
    <2> PICK f : f = Released(src, attached, [q \in Peers |-> IF q = p THEN gone ELSE {}])
      OBVIOUS
    <2>1. Plane(f, closed) /\ Books(f, closed, open, bound, w, a)
      BY <1>1, <1>2, ReleaseBooks
    <2>2. f = src'
      BY <1>1
    <2>3. QED
      BY <1>3, <2>1, <2>2
  <1>5. attached'[p] = {}
    BY <1>1, <1>2
  <1>6. Books(src', closed, open', bound, watching', attached')
    BY <1>1, <1>2, <1>4, <1>5 DEF Books
  <1>7. QED
    BY <1>1, <1>4, <1>6 DEF RouterInv, MediaInv

\* A control queue that overflows inside video.subscribe: the new viewer stays, recorded
\* on both sides, and every other one of the peer is released.
LEMMA OverflowStep ==
  ASSUME RouterInv, NEW p \in Peers, NEW t \in Tracks, SubscribeOverflow(p, t)
  PROVE  RouterInv'
  <1> PICK f : f = [src EXCEPT ![t] = add(@, p)]
    OBVIOUS
  <1> PICK gone : gone = bound[p]
    OBVIOUS
  <1> PICK drop : drop = [q \in Peers |-> IF q = p THEN gone ELSE {}]
    OBVIOUS
  <1>1. /\ p \in open /\ p \in Overflowing /\ Bind(p, t) /\ attachable(t) /\ CanMake(src[t])
        /\ t \notin watching[p] /\ open' = open \ {p} /\ UNCHANGED <<closed, allowed>>
        /\ src' = Released(f, attached, drop)
        /\ watching' = [watching EXCEPT ![p] = {t}] /\ attached' = [attached EXCEPT ![p] = {t}]
    BY DEF SubscribeOverflow, SubscribeHead
  <1>2. closed = FALSE
    BY <1>1, OpenPlane
  <1>3. /\ Plane(f, closed) /\ f[t].viewers = src[t].viewers \cup {p}
        /\ \A u \in Tracks : u # t => f[u] = src[u]
    <2>1. /\ Plane([src EXCEPT ![t] = add(@, p)], closed)
          /\ add(src[t], p).viewers = src[t].viewers \cup {p}
          /\ src \in [Tracks -> Source]
      BY <1>1, AttachedSources
    <2>2. QED
      BY <2>1
  <1>4. Books(src, closed, open, bound, watching, attached)
    BY DEF RouterInv
  <1>5. Books(src, closed, open, bound', watching, attached)
    BY <1>1, BindBooks
  <1>6. /\ Plane(src', closed)
        /\ \A u \in Tracks : src'[u].viewers =
                               f[u].viewers \ {q \in Peers : u \in drop[q] \cap attached[q]}
    <2>1. Plane(f, closed)
      BY <1>3
    <2>2. /\ Plane(Released(f, attached, drop), closed)
          /\ \A u \in Tracks : Released(f, attached, drop)[u].viewers =
                                 f[u].viewers \ {q \in Peers : u \in drop[q] \cap attached[q]}
      BY ONLY <2>1, ReleasedSources
    <2>3. QED
      BY <1>1, <2>2
  <1>7. /\ open' \subseteq Peers /\ {bound', watching', attached'} \subseteq [Peers -> SUBSET Tracks]
        /\ attached'[p] = {t} /\ \A q \in Peers : q # p => /\ watching'[q] = watching[q]
                                                          /\ attached'[q] = attached[q]
    BY <1>1, <1>5 DEF Books
  <1>8. ASSUME NEW q \in Peers
        PROVE  /\ Cardinality(bound'[q]) <= MaxSlots
               /\ q \in open' => attached'[q] = watching'[q] /\ attached'[q] \subseteq bound'[q]
               /\ attached'[q] = {u \in Tracks : q \in src'[u].viewers}
               /\ q \notin open' \cup Overflowing => \A u \in Tracks : q \notin src'[u].viewers
    <2>1. /\ Cardinality(bound'[q]) <= MaxSlots
          /\ q \in open => /\ attached[q] = watching[q] /\ attached[q] \subseteq bound[q]
                           /\ attached[q] \subseteq bound'[q]
          /\ attached[q] = {u \in Tracks : q \in src[u].viewers}
          /\ q \notin open \cup Overflowing => \A u \in Tracks : q \notin src[u].viewers
      BY <1>2, <1>4, <1>5 DEF Books
    <2>2. drop[q] = IF q = p THEN gone ELSE {}
      OBVIOUS
    <2>3. \A u \in Tracks : q \in src'[u].viewers <=>
                              q \in f[u].viewers /\ ~(u \in drop[q] /\ u \in attached[q])
      BY <1>6
    <2>4. \A u \in Tracks : q \in f[u].viewers <=> q \in src[u].viewers \/ (q = p /\ u = t)
      BY <1>3
    <2>5. CASE q = p
      <3>1. t \notin attached[p] /\ attached[p] \subseteq gone
        BY <1>1, <2>1, <2>5
      <3>2. \A u \in Tracks : p \in src'[u].viewers <=> u = t
        BY <2>1, <2>2, <2>3, <2>4, <2>5, <3>1
      <3>3. attached'[p] = {u \in Tracks : p \in src'[u].viewers}
        BY <1>7, <3>2
      <3>4. QED
        BY <1>1, <2>1, <2>5, <3>3
    <2>6. CASE q # p
      <3>1. \A u \in Tracks : q \in src'[u].viewers <=> q \in src[u].viewers
        BY <2>2, <2>3, <2>4, <2>6
      <3>2. attached'[q] = attached[q] /\ watching'[q] = watching[q]
        BY <1>7, <2>6
      <3>3. QED
        BY <1>1, <2>1, <2>6, <3>1, <3>2
    <2>7. QED
      BY <2>5, <2>6
  <1>9. Books(src', closed, open', bound', watching', attached')
    BY <1>2, <1>7, <1>8 DEF Books
  <1>10. QED
    BY <1>1, <1>6, <1>9 DEF RouterInv, MediaInv

\* A failed source has no viewer any more, and its viewers forget the track.
LEMMA FailedStep ==
  ASSUME RouterInv, NEW t \in Tracks, NEW r, Sound(r, closed), running(r) => running(src[t]),
         r.viewers = {}, Failed(t, r)
  PROVE  RouterInv'
  <1> PICK told : told = src[t].viewers
    OBVIOUS
  <1> PICK f : f = [src EXCEPT ![t] = r]
    OBVIOUS
  <1> PICK w : w = [p \in Peers |-> IF p \in told THEN watching[p] \ {t} ELSE watching[p]]
    OBVIOUS
  <1> PICK a : a = [p \in Peers |-> IF p \in told THEN attached[p] \ {t} ELSE attached[p]]
    OBVIOUS
  <1> PICK b : b = bound
    OBVIOUS
  <1>1. Settle(f, w, a, told) /\ UNCHANGED <<closed, open, allowed>> /\ bound' = b
    BY DEF Failed
  <1>2. /\ Plane(src, closed) /\ closed \in BOOLEAN /\ src \in [Tracks -> Source]
        /\ Books(src, closed, open, b, watching, attached)
    BY DEF RouterInv, MediaInv, Plane
  <1>3. Plane(f, closed)
    BY <1>2, PlaneUpdate
  <1>4. f[t].viewers = {} /\ \A u \in Tracks : u # t => f[u] = src[u]
    BY <1>2
  <1>5. open \subseteq Peers /\ {b, w, a} \subseteq [Peers -> SUBSET Tracks] /\ (closed => open = {})
    BY <1>2 DEF Books
  <1>6. ASSUME NEW q \in Peers
        PROVE  /\ Cardinality(b[q]) <= MaxSlots
               /\ q \in open => a[q] = w[q] /\ a[q] \subseteq b[q]
               /\ ~closed => a[q] = {u \in Tracks : q \in f[u].viewers}
               /\ q \notin open \cup Overflowing => \A u \in Tracks : q \notin f[u].viewers
    <2>1. /\ Cardinality(b[q]) <= MaxSlots
          /\ q \in open => attached[q] = watching[q] /\ attached[q] \subseteq b[q]
          /\ ~closed => attached[q] = {u \in Tracks : q \in src[u].viewers}
          /\ q \notin open \cup Overflowing => \A u \in Tracks : q \notin src[u].viewers
      BY <1>2 DEF Books
    <2>2. \A u \in Tracks : q \in f[u].viewers <=> q \in src[u].viewers /\ u # t
      BY <1>4
    <2>3. /\ a[q] = IF q \in told THEN attached[q] \ {t} ELSE attached[q]
          /\ w[q] = IF q \in told THEN watching[q] \ {t} ELSE watching[q]
      OBVIOUS
    <2>4. ~closed => a[q] = {u \in Tracks : q \in f[u].viewers}
      BY <2>1, <2>2, <2>3
    <2>5. QED
      BY <2>1, <2>2, <2>3, <2>4
  <1>7. Books(f, closed, open, b, w, a)
    BY <1>5, <1>6 DEF Books
  <1>8. QED
    BY <1>1, <1>3, <1>7, SettleInv

\* The three causes of a failure.
LEMMA SourceFailsStep ==
  ASSUME RouterInv, NEW t \in Tracks, SourceFails(t)
  PROVE  RouterInv'
  <1>1. MediaInv /\ src[t] \in Source
    BY DEF RouterInv, MediaInv, Plane
  <1>2. ASSUME NEW settled \in SUBSET (1 .. MaxEncoders), SlowStop \/ src[t].release = 0,
               Failed(t, finish([src[t] EXCEPT !.settled = settled], "failed"))
        PROVE  RouterInv'
    <2> PICK r : r = finish([src[t] EXCEPT !.settled = settled], "failed")
      OBVIOUS
    <2>1. Sound(r, closed) /\ (running(r) => running(src[t])) /\ r.viewers = {}
      BY <1>1, <1>2, FailureIsSound
    <2>2. Failed(t, r)
      BY <1>2
    <2>3. QED
      BY <2>1, <2>2, FailedStep
  <1>3. CASE DeadlineDue(t) /\ Failed(t, finish(src[t], "failed"))
    <2> PICK settled : settled = src[t].settled
      OBVIOUS
    <2>1. settled \in SUBSET (1 .. MaxEncoders) /\ (SlowStop \/ src[t].release = 0)
      BY <1>1, <1>3, SourceFields, FailureCauses
    <2>2. [src[t] EXCEPT !.settled = settled] = src[t]
      BY <1>1 DEF Source
    <2>3. QED
      BY <1>2, <1>3, <2>1, <2>2
  <1>4. ASSUME NEW e \in src[t].live, FailureDue(t, e),
               Failed(t, finish([src[t] EXCEPT !.settled = @ \cup {e}], "failed"))
        PROVE  RouterInv'
    <2> PICK settled : settled = src[t].settled \cup {e}
      OBVIOUS
    <2>1. settled \in SUBSET (1 .. MaxEncoders) /\ (SlowStop \/ src[t].release = 0)
      BY <1>1, <1>4, SourceFields, FailureCauses
    <2>2. QED
      BY <1>2, <1>4, <2>1
  <1>5. QED
    BY <1>3, <1>4 DEF SourceFails

\* Sources with the same viewers suit the same records.
LEMMA SameViewers ==
  ASSUME NEW f, NEW g, NEW c, NEW o, NEW b, NEW w, NEW a, Books(f, c, o, b, w, a),
         \A t \in Tracks : g[t].viewers = f[t].viewers
  PROVE  Books(g, c, o, b, w, a)
  BY DEF Books

\* The first packet of a source.
LEMMA SourceActiveStep ==
  ASSUME RouterInv, NEW t \in Tracks, SourceActive(t)
  PROVE  RouterInv'
  <1> PICK e \in src[t].live :
        /\ PacketDue(t, e)
        /\ Settle([src EXCEPT ![t] = deliver(@)], watching, attached, src[t].viewers)
        /\ UNCHANGED <<closed, open, allowed, bound>>
    BY DEF SourceActive
  <1> PICK r : r = deliver(src[t])
    OBVIOUS
  <1> PICK f : f = [src EXCEPT ![t] = r]
    OBVIOUS
  <1> PICK w : w = watching
    OBVIOUS
  <1> PICK a : a = attached
    OBVIOUS
  <1> PICK b : b = bound
    OBVIOUS
  <1> PICK told : told = src[t].viewers
    OBVIOUS
  <1>1. /\ MediaInv /\ Plane(src, closed) /\ src \in [Tracks -> Source]
        /\ Books(src, closed, open, b, w, a)
    BY DEF RouterInv, MediaInv, Plane
  <1>2. Sound(r, closed) /\ (running(r) => running(src[t])) /\ r.viewers = src[t].viewers
    BY <1>1, PacketIsSound
  <1>3. Plane(f, closed)
    BY <1>1, <1>2, PlaneUpdate
  <1>4. \A u \in Tracks : f[u].viewers = src[u].viewers
    BY <1>1, <1>2
  <1>5. Books(f, closed, open, b, w, a)
    BY <1>1, <1>4, SameViewers
  <1>6. Settle(f, w, a, told) /\ bound' = b
    OBVIOUS
  <1>7. QED
    BY <1>3, <1>5, <1>6, SettleInv

\* Steps of the media plane that nobody is told of.
LEMMA UntoldStep ==
  ASSUME RouterInv, NEW t \in Tracks, QuietStep(t) \/ KeyframeRequest(t), UNCHANGED routerVars
  PROVE  RouterInv'
  <1>1. MediaInv
    BY DEF RouterInv
  <1>2. /\ MediaInv' /\ closed' = closed
        /\ \A u \in Tracks : src'[u].viewers = src[u].viewers
    BY <1>1, QuietIsSound
  <1> PICK f : f = src'
    OBVIOUS
  <1>3. Books(f, closed, open, bound, watching, attached)
    BY <1>2, SameViewers DEF RouterInv
  <1>4. QED
    BY <1>2, <1>3 DEF RouterInv, routerVars

\* The media plane closes after every peer has.
LEMMA ShutdownStep ==
  ASSUME RouterInv, Shutdown
  PROVE  RouterInv'
  <1>1. MediaInv /\ Close /\ open = {} /\ UNCHANGED routerVars /\ closed' = TRUE
    BY DEF RouterInv, Shutdown, Close
  <1>2. MediaInv' /\ \A t \in Tracks : src'[t].viewers = {}
    BY <1>1, CloseIsSound
  <1>3. Books(src, closed, open, bound, watching, attached)
    BY DEF RouterInv
  <1>4. Books(src', TRUE, open, bound, watching, attached)
    BY <1>1, <1>2, <1>3 DEF Books
  <1>5. QED
    BY <1>1, <1>2, <1>4 DEF RouterInv, routerVars

-----------------------------------------------------------------------------

\* A new bridge: every peer is open, nobody watches anything.
LEMMA RouterInitial == RouterInit => RouterInv
  <1> SUFFICES ASSUME RouterInit PROVE RouterInv
    OBVIOUS
  <1>1. MediaInv /\ closed = FALSE /\ src = [t \in Tracks |-> IdleSource]
    BY MediaInit DEF RouterInit, Init
  <1>2. \A t \in Tracks : src[t].viewers = {}
    BY <1>1 DEF IdleSource
  <1>3. /\ bound \in [Peers -> SUBSET Tracks] /\ bound = watching /\ bound = attached
        /\ \A p \in Peers : bound[p] = {}
    BY DEF RouterInit, NoTracks
  <1>4. Cardinality({}) <= MaxSlots
    BY FS_EmptySet, RouterAssumption
  <1>5. Books(src, closed, open, bound, watching, attached)
    BY <1>1, <1>2, <1>3, <1>4 DEF Books, RouterInit
  <1>6. QED
    BY <1>1, <1>5 DEF RouterInv, RouterInit

\* Every step of peers, deployment and media plane keeps the invariant.
LEMMA RouterStep == RouterInv /\ [RouterNext]_videoVars => RouterInv'
  <1> SUFFICES ASSUME RouterInv, [RouterNext]_videoVars PROVE RouterInv'
    OBVIOUS
  <1>1. ASSUME NEW p \in Peers, NEW t \in Tracks, SubscribeRefused(p, t) PROVE RouterInv'
    <2>1. /\ Bind(p, t) /\ Settle(src, watching, attached, {p})
          /\ UNCHANGED <<closed, open, allowed>>
      BY <1>1 DEF SubscribeRefused, SubscribeHead
    <2>2. Books(src, closed, open, bound', watching, attached)
      BY <2>1, BindBooks
    <2>3. QED
      BY <2>1, <2>2, FlushStep
  <1>2. ASSUME NEW p \in Peers, OtherTraffic(p) PROVE RouterInv'
    <2>1. /\ Settle(src, watching, attached, {p}) /\ UNCHANGED <<closed, open, allowed, bound>>
      BY <1>2 DEF OtherTraffic
    <2>2. Books(src, closed, open, bound', watching, attached)
      BY <2>1 DEF RouterInv
    <2>3. QED
      BY <2>1, <2>2, FlushStep
  <1>3. ASSUME NEW p \in Peers, NEW t \in Tracks, ForwardKeyframe(p, t) PROVE RouterInv'
    BY <1>3, UntoldStep DEF ForwardKeyframe
  <1>4. ASSUME NEW t \in Tracks, SourceQuiet(t) PROVE RouterInv'
    BY <1>4, UntoldStep DEF SourceQuiet, QuietStep
  <1>5. ASSUME NEW t \in Tracks, Revoke(t) PROVE RouterInv'
    BY <1>5 DEF Revoke, RouterInv, MediaInv
  <1>6. CASE UNCHANGED videoVars
    BY <1>6 DEF videoVars, RouterInv, MediaInv
  <1>7. ASSUME NEW p \in Peers, PeerStep(p) PROVE RouterInv'
    BY <1>1, <1>2, <1>3, <1>7, PeerCloseStep, SubscribeStep, OverflowStep, UnsubscribeStep
       DEF PeerStep
  <1>8. QED
    BY <1>4, <1>5, <1>6, <1>7, SourceFailsStep, SourceActiveStep, ShutdownStep DEF RouterNext

\* The invariant of the routers with the media plane they share.
THEOREM RouterInvariant == RouterSpec => []RouterInv
  BY RouterInitial, RouterStep, PTL DEF RouterSpec

\* Type correctness of the routers.
THEOREM RouterTypeCorrect == RouterSpec => []RouterTypeOK
  <1>1. RouterInv => RouterTypeOK
    BY DEF RouterInv, MediaInv, Plane, Books, RouterTypeOK, TypeOK
  <1>2. QED
    BY <1>1, RouterInvariant, PTL

\* What the routers record agrees with the media plane: attachments are viewers, a peer
\* told it watches is served, slots are not overbooked, and a closed peer whose control
\* queue never overflowed has left nothing.
THEOREM RecordsAlwaysMatch == RouterSpec => []RecordsMatchMedia
  <1>1. RouterInv => RecordsMatchMedia
    <2> SUFFICES ASSUME RouterInv, NEW p \in Peers
                 PROVE  /\ ~closed => attached[p] = {t \in Tracks : p \in src[t].viewers}
                        /\ p \in open => \A t \in watching[p] :
                             p \in src[t].viewers /\ src[t].phase \in {"starting", "active"}
                        /\ Cardinality(bound[p]) <= MaxSlots
                        /\ p \notin open \cup Overflowing =>
                             \A t \in Tracks : p \notin src[t].viewers
      BY DEF RecordsMatchMedia
    <2>1. Books(src, closed, open, bound, watching, attached) /\ NoStuckSource
      BY MediaNotStuck DEF RouterInv
    <2>2. ASSUME p \in open, NEW t \in watching[p]
          PROVE  p \in src[t].viewers /\ src[t].phase \in {"starting", "active"}
      <3>1. closed = FALSE
        BY <2>2, OpenPlane
      <3>2. t \in Tracks /\ p \in src[t].viewers
        BY <2>1, <2>2, <3>1 DEF Books
      <3>3. QED
        BY <2>1, <3>2 DEF NoStuckSource
    <2>3. QED
      BY <2>1, <2>2 DEF Books
  <1>2. QED
    BY <1>1, RouterInvariant, PTL

\* However the peers come, go, fail and lose permission, a track has one encoder when the
\* timers are configured longer than a stop takes.
THEOREM OneEncoderUnderRouters ==
  ASSUME ~SlowStop
  PROVE  RouterSpec => []OneEncoderPerTrack
  <1>1. RouterInv => OneEncoderPerTrack
    BY MediaSoleEncoder DEF RouterInv
  <1>2. QED
    BY <1>1, RouterInvariant, PTL

\* In the same conditions the peers together never exceed max_pipelines.
THEOREM PipelinesUnderRouters ==
  ASSUME ~SlowStop
  PROVE  RouterSpec => []PipelineBound
  <1>1. RouterInv => PipelineBound
    BY MediaPipelines DEF RouterInv
  <1>2. QED
    BY <1>1, RouterInvariant, PTL

-----------------------------------------------------------------------------
(***************************************************************************)
(* The RTP bytes.  The deframer is a recursive function on byte sequences  *)
(* and the other loops are folds, so first it is shown that each of them   *)
(* is what its definition says: by levels (buffers of at most n bytes,     *)
(* index sets of at most n members) and a smallest counterexample.         *)
(***************************************************************************)

\* Arithmetic of a radix: a number is its quotient and its remainder.
LEMMA Radix ==
  ASSUME NEW x \in Int, NEW b \in Nat \ {0}
  PROVE  \E q \in Int : x = (b * q) + (x % b) /\ x % b \in 0 .. b - 1
  <1>1. x \div b \in Int
    OBVIOUS
  <1>2. x = (b * (x \div b)) + (x % b)
    OBVIOUS
  <1>3. x % b \in 0 .. b - 1
    OBVIOUS
  <1> QED
    BY <1>1, <1>2, <1>3, Zenon

\* A multiple of b is 0 modulo b.
LEMMA Multiple ==
  ASSUME NEW b \in Nat \ {0}, NEW q \in Int
  PROVE  (b * q) % b = 0
  OBVIOUS

\* A number below b * b is its two digits.
LEMMA Digits ==
  ASSUME NEW n \in Nat, NEW b \in Nat \ {0}, n < b * b
  PROVE  /\ n \div b \in 0 .. b - 1 /\ n % b \in 0 .. b - 1
         /\ ((n \div b) * b) + (n % b) = n
  OBVIOUS

\* Two numbers shifted alike modulo b keep their distance modulo b.
LEMMA SameShift ==
  ASSUME NEW b \in Nat \ {0}, NEW x \in Int, NEW y \in Int, NEW d \in Int
  PROVE  (((y + d) % b) - ((x + d) % b) - (y - x)) % b = 0
  <1>1. PICK q \in Int : y + d = (b * q) + ((y + d) % b) /\ (y + d) % b \in 0 .. b - 1
    <2>1. y + d \in Int
      OBVIOUS
    <2> QED
      BY <2>1, Radix, Zenon
  <1>2. PICK r \in Int : x + d = (b * r) + ((x + d) % b) /\ (x + d) % b \in 0 .. b - 1
    <2>1. x + d \in Int
      OBVIOUS
    <2> QED
      BY <2>1, Radix, Zenon
  <1> DEFINE m == (y + d) % b
             n == (x + d) % b
  <1>3. m \in Int /\ n \in Int /\ y + d = (b * q) + m /\ x + d = (b * r) + n
    BY <1>1, <1>2
  <1> HIDE DEF m, n
  <1>4. m - n - (y - x) = (b * r) - (b * q)
    <2>1. b * r \in Int /\ b * q \in Int
      OBVIOUS
    <2> QED
      BY <1>3, <2>1
  <1>5. (b * r) - (b * q) = b * (r - q) /\ r - q \in Int
    OBVIOUS
  <1>6. (b * (r - q)) % b = 0
    BY <1>5, Multiple
  <1> QED
    BY <1>4, <1>5, <1>6 DEF m, n

\* A number shifted to a place modulo b is there.
LEMMA ShiftTo ==
  ASSUME NEW b \in Nat \ {0}, NEW x \in Int, NEW p \in Int, NEW f \in Int
  PROVE  (((x + ((p + f - x) % b)) % b) - p - f) % b = 0
  <1>1. PICK q \in Int : p + f - x = (b * q) + ((p + f - x) % b) /\ (p + f - x) % b \in 0 .. b - 1
    <2>1. p + f - x \in Int
      OBVIOUS
    <2> QED
      BY <2>1, Radix, Zenon
  <1> DEFINE d == (p + f - x) % b
  <1>2. d \in Int /\ p + f - x = (b * q) + d
    BY <1>1
  <1> HIDE DEF d
  <1>3. PICK r \in Int : x + d = (b * r) + ((x + d) % b) /\ (x + d) % b \in 0 .. b - 1
    <2>1. x + d \in Int
      BY <1>2
    <2> QED
      BY <2>1, Radix, Zenon
  <1> DEFINE n == (x + d) % b
  <1>4. n \in Int /\ x + d = (b * r) + n
    BY <1>3
  <1> HIDE DEF n
  <1>5. n - p - f = (b * 0) - (b * q) - (b * r)
    <2>1. b * r \in Int /\ b * q \in Int
      OBVIOUS
    <2> QED
      BY <1>2, <1>4, <2>1
  <1>6. (b * 0) - (b * q) - (b * r) = b * (0 - q - r) /\ 0 - q - r \in Int
    OBVIOUS
  <1>7. (b * (0 - q - r)) % b = 0
    BY <1>6, Multiple
  <1> QED
    BY <1>5, <1>6, <1>7 DEF n, d

\* The largest member of a set of indices.
LEMMA MaxOf ==
  ASSUME NEW n \in Nat, NEW u \in SUBSET (1 .. n), u # {}
  PROVE  Max(u) \in u /\ \A y \in u : y <= Max(u)
  <1>1. u \in SUBSET (0 .. n)
    OBVIOUS
  <1>2. \E x \in u : \A y \in u : y <= x
    BY <1>1, LargestNumber
  <1>3. \E x \in u : \A y \in u : x >= y
    BY <1>2
  <1>4. Max(u) \in u /\ \A y \in u : Max(u) >= y
    BY <1>3 DEF Max
  <1> QED
    BY <1>4

\* g is the recursive function behind a fold whose step is the function F.
IsFold(g, F, base, o, D) ==
  g = [u \in D |-> IF u = {} THEN base ELSE F[<<g[u \ {Max(u)}], o[Max(u)]>>]]

\* It exists, on the index sets of at most n members.
LEMMA FoldLevels ==
  ASSUME NEW X, NEW E, NEW F \in [X \X E -> X], NEW base \in X, NEW p \in Nat,
         NEW o \in [1 .. p -> E], NEW n \in Nat
  PROVE  \E g \in [Level(1 .. p, n) -> X] : IsFold(g, F, base, o, Level(1 .. p, n))
  <1> DEFINE S == 1 .. p
             Good(k) == \E g \in [Level(S, k) -> X] : IsFold(g, F, base, o, Level(S, k))
             B == {k \in Nat : ~Good(k)}
  <1>1. SUFFICES ASSUME B # {} PROVE FALSE
    BY Zenon
  <1>2. PICK m \in B : \A k \in B : m <= k
    <2> HIDE DEF Good
    <2> QED
      BY <1>1, SmallestNumber
  <1>0. \A s \in SUBSET S : /\ IsFiniteSet(s) /\ Cardinality(s) \in Nat
                            /\ s # {} => Max(s) \in s /\ Cardinality(s \ {Max(s)}) = Cardinality(s) - 1
    <2>1. IsFiniteSet(S)
      BY FS_Interval
    <2>2. \A s \in SUBSET S : s # {} => Max(s) \in s
      BY MaxOf
    <2> HIDE DEF S
    <2> QED
      BY <2>1, <2>2, FS_Subset, FS_CardinalityType, FS_RemoveElement
  <1>a. o \in [S -> E]
    OBVIOUS
  <1> HIDE DEF S
  <1>3. m # 0
    <2>1. ASSUME NEW s \in SUBSET S PROVE Cardinality(s) <= 0 <=> s = {}
      <3>1. Cardinality(s) \in Nat /\ (Cardinality(s) = 0 <=> s = {})
        BY <1>0, FS_EmptySet
      <3> QED
        BY <3>1
    <2>3. Level(S, 0) = {{}}
      BY <2>1 DEF Level
    <2> DEFINE g == [s \in {{}} |-> base]
    <2>2. IsFold(g, F, base, o, Level(S, 0)) /\ g \in [Level(S, 0) -> X]
      BY <2>3 DEF IsFold
    <2> QED
      BY <2>2, Zenon
  <1>4. PICK h \in [Level(S, m - 1) -> X] : IsFold(h, F, base, o, Level(S, m - 1))
    <2>1. m - 1 \in Nat /\ m - 1 \notin B
      BY <1>2, <1>3
    <2> QED
      BY <2>1, Zenon
  <1> DEFINE g == [s \in Level(S, m) |->
                     IF s = {} THEN base ELSE F[<<h[s \ {Max(s)}], o[Max(s)]>>]]
  <1>5. ASSUME NEW s \in Level(S, m), s # {}
        PROVE  s \ {Max(s)} \in Level(S, m - 1) /\ s \ {Max(s)} \in Level(S, m) /\ Max(s) \in S
    BY <1>0, <1>5 DEF Level
  <1>6. \A s \in Level(S, m - 1) : s \in Level(S, m) /\ g[s] = h[s]
    <2>1. \A s \in Level(S, m - 1) : s \in Level(S, m)
      <3>1. m \in Nat
        OBVIOUS
      <3>2. \A s \in SUBSET S : Cardinality(s) <= m - 1 => Cardinality(s) <= m
        <4>1. SUFFICES ASSUME NEW s \in SUBSET S, Cardinality(s) <= m - 1
                       PROVE  Cardinality(s) <= m
          OBVIOUS
        <4>2. Cardinality(s) \in Nat
          BY <1>0
        <4> HIDE DEF B
        <4> QED
          BY <3>1, <4>1, <4>2
      <3> QED
        BY <3>2 DEF Level
    <2> QED
      BY <2>1, <1>4, Zenon DEF IsFold
  <1>7. IsFold(g, F, base, o, Level(S, m))
    BY <1>5, <1>6, Zenon DEF IsFold
  <1>8. g \in [Level(S, m) -> X]
    <2>1. ASSUME NEW s \in Level(S, m) PROVE g[s] \in X
      BY <1>4, <1>5, <1>a
    <2> QED
      BY <2>1
  <1>9. Good(m)
    BY <1>7, <1>8, Zenon
  <1> QED
    BY <1>2, <1>9, Zenon

\* A fold whose step stays in X stays in X.
LEMMA FoldDefined ==
  ASSUME NEW X, NEW E, NEW F \in [X \X E -> X], NEW base \in X, NEW o \in Seq(E)
  PROVE  \E g \in [SUBSET DOMAIN o -> X] : IsFold(g, F, base, o, SUBSET DOMAIN o)
  <1> DEFINE n == Len(o)
             S == 1 .. n
  <1>1. n \in Nat /\ DOMAIN o = S /\ o \in [1 .. n -> E]
    BY LenProperties
  <1> HIDE DEF n
  <1>2. IsFiniteSet(S)
    BY <1>1, FS_Interval
  <1> HIDE DEF S
  <1>3. Level(S, Cardinality(S)) = SUBSET S /\ Cardinality(S) \in Nat
    BY <1>2, FS_Subset, FS_CardinalityType DEF Level
  <1>4. \E g \in [Level(1 .. n, Cardinality(S)) -> X] :
          IsFold(g, F, base, o, Level(1 .. n, Cardinality(S)))
    BY <1>1, <1>3, FoldLevels
  <1> QED
    BY <1>1, <1>3, <1>4 DEF S
\* Two functions that agree on a set of indices whenever they agree on it without its
\* largest member agree: the recursion of a fold has one solution.
LEMMA FoldUnique ==
  ASSUME NEW p \in Nat, NEW g, NEW h, g[{}] = h[{}],
         \A u \in SUBSET (1 .. p) : u # {} /\ g[u \ {Max(u)}] = h[u \ {Max(u)}] => g[u] = h[u]
  PROVE  g[1 .. p] = h[1 .. p]
  <1> DEFINE S == 1 .. p
             B == {u \in SUBSET S : g[u] # h[u]}
  <1>1. SUFFICES ASSUME B # {} PROVE FALSE
    BY Zenon
  <1>2. IsFiniteSet(S)
    BY FS_Interval
  <1>3. PICK u \in B : \A v \in B : v \subseteq u => v = u
    <2>1. B \in SUBSET SUBSET S
      OBVIOUS
    <2> HIDE DEF B, S
    <2> QED
      BY <1>1, <1>2, <2>1, SmallestSubset
  <1>4. u # {} /\ u \in SUBSET (1 .. p) /\ g[u] # h[u]
    BY <1>3
  <1>5. Max(u) \in u
    BY <1>4, MaxOf
  <1>6. g[u \ {Max(u)}] = h[u \ {Max(u)}]
    BY <1>3, <1>5
  <1> QED
    BY <1>4, <1>6

\* The length field a buffer begins with, and whether its first packet is complete.
Length(p) == p[1] * Base + p[2]

Complete(p) ==
  Len(p) >= 2 /\ Length(p) \in MinPacket .. MaxPacket /\ Len(p) >= 2 + Length(p)

Broken(p) == Len(p) >= 2 /\ Length(p) \notin MinPacket .. MaxPacket

\* The body of deframe, with f for what it does with the rest of the buffer.
Frame(f, p) ==
  LET later == f[Rest(p, Length(p))]
  IN CASE Len(p) < 2 -> [packets |-> <<>>, pending |-> p, broken |-> FALSE]
       [] Len(p) >= 2 /\ Length(p) \notin MinPacket .. MaxPacket ->
            [packets |-> <<>>, pending |-> p, broken |-> TRUE]
       [] Len(p) >= 2 /\ Length(p) \in MinPacket .. MaxPacket /\ Len(p) < 2 + Length(p) ->
            [packets |-> <<>>, pending |-> p, broken |-> FALSE]
       [] OTHER -> [later EXCEPT !.packets = <<SubSeq(p, 3, 2 + Length(p))>> \o @]

IsDeframe(f, D) == f = [p \in D |-> Frame(f, p)]

\* The definition of deframe chooses a function that satisfies its equation, if there is one.
LEMMA DeframeIsChosen ==
  ASSUME \E f : IsDeframe(f, Seq(Byte)) PROVE IsDeframe(deframe, Seq(Byte))
  <1>1. deframe = CHOOSE f : IsDeframe(f, Seq(Byte))
    BY DEF IsDeframe, deframe, Frame, Length
  <1> QED
    BY <1>1

\* The constants as numbers.
LEMMA StreamConstants ==
  /\ Base \in Nat \ {0} /\ SeqNumbers \in Nat \ {0} /\ FrameStep \in Byte
  /\ MinPacket \in Nat \ {0} /\ MaxPacket \in Nat /\ MaxPacket < Base * Base
  /\ Byte \subseteq Nat /\ (\A b \in Byte : b \in Int)
  /\ \A n \in 0 .. SeqNumbers - 1 : n \in Int
  BY StreamAssumption DEF Byte

\* The length field is a number, and a complete packet is taken off the buffer.
LEMMA FirstPacket ==
  ASSUME NEW p \in Seq(Byte)
  PROVE  /\ Len(p) \in Nat
         /\ Len(p) >= 2 => Length(p) \in Nat
         /\ Complete(p) =>
              /\ Rest(p, Length(p)) \in Seq(Byte)
              /\ Len(Rest(p, Length(p))) = Len(p) - 2 - Length(p)
              /\ Len(Rest(p, Length(p))) < Len(p)
              /\ SubSeq(p, 3, 2 + Length(p)) \in Seq(Byte)
              /\ Len(SubSeq(p, 3, 2 + Length(p))) = Length(p)
  <1>1. Len(p) \in Nat
    BY LenProperties
  <1>2. ASSUME Len(p) >= 2 PROVE Length(p) \in Nat
    <2>0. 1 \in 1 .. Len(p) /\ 2 \in 1 .. Len(p)
      BY <1>1, <1>2
    <2>1. p[1] \in Nat /\ p[2] \in Nat
      BY <2>0, ElementOfSeq, StreamConstants
    <2>2. \A a, b, c \in Nat : (a * b) + c \in Nat
      OBVIOUS
    <2> QED
      BY <2>1, <2>2, StreamConstants DEF Length
  <1>3. ASSUME Complete(p)
        PROVE  /\ Rest(p, Length(p)) \in Seq(Byte)
               /\ Len(Rest(p, Length(p))) = Len(p) - 2 - Length(p)
               /\ Len(Rest(p, Length(p))) < Len(p)
               /\ SubSeq(p, 3, 2 + Length(p)) \in Seq(Byte)
               /\ Len(SubSeq(p, 3, 2 + Length(p))) = Length(p)
    <2> DEFINE l == Length(p)
    <2>1. l \in Nat /\ l >= 1 /\ Len(p) >= 2 + l
      BY <1>2, <1>3, StreamConstants DEF Complete
    <2> HIDE DEF l
    <2>2. \A i \in 3 .. 2 + l : p[i] \in Byte
      BY <1>1, <2>1, ElementOfSeq
    <2>3. \A i \in 3 + l .. Len(p) : p[i] \in Byte
      BY <1>1, <2>1, ElementOfSeq
    <2>4. /\ SubSeq(p, 3, 2 + l) \in Seq(Byte) /\ Len(SubSeq(p, 3, 2 + l)) = l
      <3>1. 3 <= 2 + l + 1
        BY <2>1
      <3>2. SubSeq(p, 3, 2 + l) \in Seq(Byte) /\ Len(SubSeq(p, 3, 2 + l)) = 2 + l - 3 + 1
        BY <1>1, <2>1, <2>2, <3>1, SubSeqProperties
      <3> QED
        BY <2>1, <3>2
    <2>5. /\ SubSeq(p, 3 + l, Len(p)) \in Seq(Byte) /\ Len(SubSeq(p, 3 + l, Len(p))) = Len(p) - 2 - l
      BY <1>1, <2>1, <2>3, SubSeqProperties
    <2> QED
      BY <1>1, <2>1, <2>4, <2>5 DEF l, Rest
  <1> QED
    BY <1>1, <1>2, <1>3

\* The three ways the loop ends, and its next round.
LEMMA FrameCases ==
  ASSUME NEW f, NEW p \in Seq(Byte)
  PROVE  /\ ~Complete(p) =>
              Frame(f, p) = [packets |-> <<>>, pending |-> p, broken |-> Broken(p)]
         /\ Complete(p) =>
              Frame(f, p) = [f[Rest(p, Length(p))] EXCEPT
                               !.packets = <<SubSeq(p, 3, 2 + Length(p))>> \o @]
  <1>1. Len(p) \in Nat /\ (Len(p) >= 2 => Length(p) \in Nat)
    BY FirstPacket
  <1>2. ASSUME Complete(p)
        PROVE  Frame(f, p) = [f[Rest(p, Length(p))] EXCEPT
                               !.packets = <<SubSeq(p, 3, 2 + Length(p))>> \o @]
    <2>1. ~(Len(p) < 2) /\ ~(Len(p) < 2 + Length(p)) /\ Length(p) \in MinPacket .. MaxPacket
      BY <1>1, <1>2 DEF Complete
    <2> QED
      BY <2>1 DEF Frame
  <1>3. CASE Len(p) < 2
    <2>1. ~Broken(p) /\ ~Complete(p) /\ ~(Len(p) >= 2)
      BY <1>1, <1>3 DEF Broken, Complete
    <2>2. Frame(f, p) = [packets |-> <<>>, pending |-> p, broken |-> FALSE]
      BY <1>3, <2>1 DEF Frame
    <2>3. Broken(p) = FALSE
      BY <2>1 DEF Broken
    <2> QED
      BY <1>2, <2>2, <2>3
  <1>4. CASE Len(p) >= 2 /\ Length(p) \notin MinPacket .. MaxPacket
    <2>1. ~(Len(p) < 2)
      BY <1>1, <1>4
    <2>2. Frame(f, p) = [packets |-> <<>>, pending |-> p, broken |-> TRUE]
      BY <1>4, <2>1 DEF Frame
    <2>3. Broken(p) = TRUE
      BY <1>4 DEF Broken
    <2> QED
      BY <1>2, <2>2, <2>3
  <1>5. CASE Len(p) >= 2 /\ Length(p) \in MinPacket .. MaxPacket /\ Len(p) < 2 + Length(p)
    <2>1. ~(Len(p) < 2)
      BY <1>1, <1>5
    <2>2. Frame(f, p) = [packets |-> <<>>, pending |-> p, broken |-> FALSE]
      BY <1>5, <2>1 DEF Frame
    <2>3. Broken(p) = FALSE
      BY <1>5 DEF Broken
    <2> QED
      BY <1>2, <2>2, <2>3
  <1>6. CASE Complete(p)
    BY <1>2, <1>6, Zenon
  <1>7. \/ Complete(p) \/ Len(p) < 2
        \/ Len(p) >= 2 /\ Length(p) \notin MinPacket .. MaxPacket
        \/ Len(p) >= 2 /\ Length(p) \in MinPacket .. MaxPacket /\ Len(p) < 2 + Length(p)
    BY <1>1 DEF Complete
  <1> QED
    BY <1>3, <1>4, <1>5, <1>6, <1>7, Zenon

Short(n) == {p \in Seq(Byte) : Len(p) <= n}

\* A round looks at a shorter buffer only.
LEMMA FrameLocal ==
  ASSUME NEW f, NEW g, NEW p \in Seq(Byte),
         \A q \in Seq(Byte) : Len(q) < Len(p) => f[q] = g[q]
  PROVE  Frame(f, p) = Frame(g, p)
  <1>1. CASE Complete(p)
    <2>1. f[Rest(p, Length(p))] = g[Rest(p, Length(p))]
      BY <1>1, FirstPacket
    <2> DEFINE first == <<SubSeq(p, 3, 2 + Length(p))>>
               q == Rest(p, Length(p))
    <2>2. /\ Frame(f, p) = [f[q] EXCEPT !.packets = first \o @]
          /\ Frame(g, p) = [g[q] EXCEPT !.packets = first \o @]
      BY <1>1, FrameCases, Zenon
    <2> HIDE DEF first, q
    <2>3. f[q] = g[q]
      BY <2>1 DEF q
    <2> QED
      BY <2>2, <2>3, Zenon
  <1>2. CASE ~Complete(p)
    <2>1. /\ Frame(f, p) = [packets |-> <<>>, pending |-> p, broken |-> Broken(p)]
          /\ Frame(g, p) = [packets |-> <<>>, pending |-> p, broken |-> Broken(p)]
      BY <1>2, FrameCases, Zenon
    <2> QED
      BY <2>1, Zenon
  <1> QED
    BY <1>1, <1>2

\* Two functions that satisfy the equation agree on the shorter buffers.
LEMMA DeframeUnique ==
  ASSUME NEW m \in Nat, NEW n \in Nat, NEW f, NEW g, m <= n,
         IsDeframe(f, Short(m)), IsDeframe(g, Short(n)), NEW p \in Short(m)
  PROVE  p \in Short(n) /\ f[p] = g[p]
  <1> DEFINE Good(k) == \A q \in Short(m) : Len(q) = k => f[q] = g[q]
             B == {k \in Nat : ~Good(k)}
  <1>0. \A q \in Short(m) : q \in Seq(Byte) /\ Len(q) \in Nat /\ Len(q) <= m /\ q \in Short(n)
    BY LenProperties DEF Short
  <1>1. SUFFICES ASSUME B # {} PROVE FALSE
    <2>1. Good(Len(p))
      <3> HIDE DEF Good
      <3> QED
        BY <1>0, <1>1
    <2> QED
      BY <1>0, <2>1
  <1>2. PICK k \in B : \A j \in B : k <= j
    <2> HIDE DEF Good
    <2> QED
      BY <1>1, SmallestNumber
  <1>3. PICK q \in Short(m) : Len(q) = k /\ f[q] # g[q]
    BY <1>2, Zenon
  <1>4. \A r \in Seq(Byte) : Len(r) < Len(q) => f[r] = g[r]
    <2>1. SUFFICES ASSUME NEW r \in Seq(Byte), Len(r) < Len(q) PROVE f[r] = g[r]
      OBVIOUS
    <2>2. Len(r) \in Nat /\ r \in Short(m) /\ Len(r) \notin B
      <3>1. Len(r) \in Nat /\ Len(q) \in Nat /\ Len(q) <= m /\ k = Len(q)
        BY <1>0, <1>3, LenProperties
      <3> HIDE DEF B
      <3> QED
        BY <1>2, <2>1, <3>1 DEF Short
    <2> QED
      BY <2>2
  <1>5. f[q] = Frame(f, q) /\ g[q] = Frame(g, q)
    <2>1. q \in Short(m) /\ q \in Short(n)
      BY <1>0
    <2> QED
      BY <2>1, Zenon DEF IsDeframe
  <1>6. Frame(f, q) = Frame(g, q)
    <2> HIDE DEF B, Good
    <2> QED
      BY <1>0, <1>4, FrameLocal
  <1> QED
    BY <1>3, <1>5, <1>6

\* There is one, on the buffers of at most n bytes.
LEMMA DeframeLevels ==
  ASSUME NEW n \in Nat PROVE \E f : IsDeframe(f, Short(n))
  <1> DEFINE Good(k) == \E f : IsDeframe(f, Short(k))
             B == {k \in Nat : ~Good(k)}
  <1>1. SUFFICES ASSUME B # {} PROVE FALSE
    BY Zenon
  <1>2. PICK m \in B : \A k \in B : m <= k
    <2> HIDE DEF Good
    <2> QED
      BY <1>1, SmallestNumber
  <1> DEFINE h == IF m = 0 THEN <<>> ELSE CHOOSE f : IsDeframe(f, Short(m - 1))
             f == [p \in Short(m) |-> Frame(h, p)]
  <1>3. m # 0 => IsDeframe(h, Short(m - 1))
    <2>1. SUFFICES ASSUME m # 0 PROVE \E e : IsDeframe(e, Short(m - 1))
      OBVIOUS
    <2>2. m - 1 \in Nat /\ m - 1 \notin B
      BY <1>2, <2>1
    <2> QED
      BY <2>2, Zenon
  <1> HIDE DEF h
  <1>4. ASSUME NEW q \in Seq(Byte), Len(q) < m PROVE q \in Short(m) /\ f[q] = h[q]
    <2>1. Len(q) \in Nat /\ m \in Nat
      BY LenProperties
    <2> HIDE DEF B
    <2>2. m # 0 /\ q \in Short(m - 1) /\ q \in Short(m)
      BY <1>4, <2>1 DEF Short
    <2>3. h[q] = Frame(h, q)
      BY <1>3, <2>2, Zenon DEF IsDeframe
    <2> QED
      BY <2>2, <2>3
  <1>5. ASSUME NEW p \in Short(m) PROVE Frame(h, p) = Frame(f, p)
    <2>1. p \in Seq(Byte) /\ Len(p) \in Nat /\ Len(p) <= m /\ m \in Nat
      BY LenProperties DEF Short
    <2> HIDE DEF B, f
    <2>2. \A q \in Seq(Byte) : Len(q) < Len(p) => h[q] = f[q]
      BY <1>4, <2>1, LenProperties
    <2> QED
      BY <2>1, <2>2, FrameLocal
  <1>6. IsDeframe(f, Short(m))
    <2>1. [p \in Short(m) |-> Frame(h, p)] = [p \in Short(m) |-> Frame(f, p)]
      <3> HIDE DEF f
      <3> QED
        BY <1>5
    <2> QED
      BY <2>1, Zenon DEF IsDeframe
  <1> QED
    BY <1>2, <1>6, Zenon

\* deframe is what its recursive definition says, for every buffer.
LEMMA DeframeDefined ==
  ASSUME NEW p \in Seq(Byte) PROVE deframe[p] = Frame(deframe, p)
  <1> DEFINE H(n) == CHOOSE f : IsDeframe(f, Short(n))
             f == [q \in Seq(Byte) |-> H(Len(q))[q]]
  <1>1. \A n \in Nat : IsDeframe(H(n), Short(n))
    BY DeframeLevels
  <1> HIDE DEF H
  <1>2. ASSUME NEW q \in Seq(Byte), NEW r \in Seq(Byte), Len(r) < Len(q)
        PROVE  f[r] = H(Len(q))[r]
    <2>1. Len(q) \in Nat /\ Len(r) \in Nat /\ Len(r) <= Len(q)
      BY <1>2, LenProperties
    <2>2. r \in Short(Len(r))
      BY <2>1 DEF Short
    <2>3. IsDeframe(H(Len(r)), Short(Len(r))) /\ IsDeframe(H(Len(q)), Short(Len(q)))
      BY <1>1, <2>1
    <2>4. H(Len(r))[r] = H(Len(q))[r]
      BY <2>1, <2>2, <2>3, DeframeUnique
    <2> QED
      BY <2>4
  <1>3. ASSUME NEW q \in Seq(Byte) PROVE f[q] = Frame(f, q)
    <2>1. Len(q) \in Nat /\ q \in Short(Len(q))
      BY LenProperties DEF Short
    <2>2. H(Len(q))[q] = Frame(H(Len(q)), q)
      <3>1. IsDeframe(H(Len(q)), Short(Len(q)))
        BY <1>1, <2>1
      <3> QED
        BY <2>1, <3>1, Zenon DEF IsDeframe
    <2>3. f[q] = H(Len(q))[q]
      OBVIOUS
    <2> HIDE DEF f
    <2>4. Frame(f, q) = Frame(H(Len(q)), q)
      BY <1>2, FrameLocal
    <2> QED
      BY <2>2, <2>3, <2>4
  <1>4. IsDeframe(f, Seq(Byte))
    <2>1. [q \in Seq(Byte) |-> H(Len(q))[q]] = [q \in Seq(Byte) |-> Frame(f, q)]
      <3>1. \A q \in Seq(Byte) : H(Len(q))[q] = Frame(f, q)
        <4>1. \A q \in Seq(Byte) : f[q] = H(Len(q))[q]
          OBVIOUS
        <4> HIDE DEF f
        <4> QED
          BY <1>3, <4>1
      <3> HIDE DEF f
      <3> QED
        BY <3>1
    <2> QED
      BY <2>1, Zenon DEF IsDeframe
  <1>5. IsDeframe(deframe, Seq(Byte))
    BY <1>4, DeframeIsChosen, Zenon
  <1> QED
    BY <1>5, Zenon DEF IsDeframe

RtpPacket == {p \in Seq(Byte) : p # <<>> /\ p[1] \in Byte}

Deframed == [packets : Seq(RtpPacket), pending : Seq(Byte), broken : BOOLEAN]

\* A record of the deframer with a packet put in front.
LEMMA Prepend ==
  ASSUME NEW d \in Deframed, NEW p \in RtpPacket
  PROVE  /\ [d EXCEPT !.packets = <<p>> \o @] \in Deframed
         /\ [d EXCEPT !.packets = <<p>> \o @].packets = <<p>> \o d.packets
         /\ [d EXCEPT !.packets = <<p>> \o @].pending = d.pending
         /\ [d EXCEPT !.packets = <<p>> \o @].broken = d.broken
  <1>1. <<p>> \o d.packets \in Seq(RtpPacket)
    <2>1. <<p>> \in Seq(RtpPacket) /\ d.packets \in Seq(RtpPacket)
      BY DEF Deframed
    <2> QED
      BY <2>1, ConcatProperties
  <1> DEFINE q == <<p>> \o d.packets
  <1>2. q \in Seq(RtpPacket)
    BY <1>1
  <1> HIDE DEF q
  <1>3. /\ [d EXCEPT !.packets = q] \in Deframed
        /\ [d EXCEPT !.packets = q].packets = q
        /\ [d EXCEPT !.packets = q].pending = d.pending
        /\ [d EXCEPT !.packets = q].broken = d.broken
    BY <1>2 DEF Deframed
  <1> QED
    BY <1>3 DEF q

\* The packet a complete buffer begins with.
LEMMA FirstIsPacket ==
  ASSUME NEW p \in Seq(Byte), Complete(p)
  PROVE  SubSeq(p, 3, 2 + Length(p)) \in RtpPacket
  <1> DEFINE q == SubSeq(p, 3, 2 + Length(p))
  <1>1. q \in Seq(Byte) /\ Len(q) = Length(p) /\ Length(p) \in Nat
    BY FirstPacket DEF Complete
  <1>2. Length(p) >= 1
    BY <1>1, StreamConstants DEF Complete
  <1> HIDE DEF q
  <1>3. 1 \in 1 .. Len(q)
    BY <1>1, <1>2
  <1>4. q[1] \in Byte
    BY <1>1, <1>3, ElementOfSeq
  <1>5. q # <<>>
    BY <1>1, <1>2
  <1> QED
    BY <1>1, <1>4, <1>5 DEF RtpPacket, q

\* What the deframer makes of any buffer.
LEMMA DeframeType ==
  ASSUME NEW p \in Seq(Byte) PROVE deframe[p] \in Deframed
  <1> DEFINE Good(k) == \A q \in Seq(Byte) : Len(q) = k => deframe[q] \in Deframed
             B == {k \in Nat : ~Good(k)}
  <1>1. SUFFICES ASSUME B # {} PROVE FALSE
    <2>1. Good(Len(p))
      <3> HIDE DEF Good
      <3> QED
        BY <1>1, LenProperties
    <2> QED
      BY <2>1
  <1>2. PICK k \in B : \A j \in B : k <= j
    <2> HIDE DEF Good
    <2> QED
      BY <1>1, SmallestNumber
  <1>3. PICK q \in Seq(Byte) : Len(q) = k /\ deframe[q] \notin Deframed
    BY <1>2, Zenon
  <1>4. deframe[q] = Frame(deframe, q)
    BY DeframeDefined
  <1>5. CASE ~Complete(q)
    <2>1. deframe[q] = [packets |-> <<>>, pending |-> q, broken |-> Broken(q)]
      BY <1>4, <1>5, FrameCases, Zenon
    <2>2. Broken(q) \in BOOLEAN
      BY DEF Broken
    <2>3. <<>> \in Seq(RtpPacket)
      BY EmptySeq
    <2> HIDE DEF B, Good
    <2>4. deframe[q] \in Deframed
      BY <2>1, <2>2, <2>3 DEF Deframed
    <2> QED
      BY <1>3, <2>4
  <1>6. CASE Complete(q)
    <2> DEFINE r == Rest(q, Length(q))
               f == SubSeq(q, 3, 2 + Length(q))
    <2>1. deframe[q] = [deframe[r] EXCEPT !.packets = <<f>> \o @]
      BY <1>4, <1>6, FrameCases, Zenon
    <2>2. f \in RtpPacket
      BY <1>6, FirstIsPacket
    <2>3. r \in Seq(Byte) /\ Len(r) \in Nat /\ Len(r) < Len(q) /\ Len(q) \in Nat
      BY <1>6, FirstPacket, LenProperties
    <2> HIDE DEF r, f
    <2>4. Len(r) \notin B
      <3> HIDE DEF B
      <3> QED
        BY <1>2, <1>3, <2>3
    <2>5. deframe[r] \in Deframed
      BY <2>3, <2>4
    <2> DEFINE d == deframe[r]
    <2>6. [d EXCEPT !.packets = <<f>> \o @] \in Deframed
      <3> HIDE DEF d
      <3>1. d \in Deframed
        BY <2>5 DEF d
      <3> QED
        BY <2>2, <3>1, Prepend
    <2> QED
      BY <1>3, <2>1, <2>6
  <1> QED
    BY <1>5, <1>6

-----------------------------------------------------------------------------

Numbering == [sequence : 0 .. SeqNumbers - 1, emitted : Byte, shift : Byte, fresh : BOOLEAN]

Written == [encoder : 1 .. MaxEncoders, packet : RtpPacket,
            sequence : 0 .. SeqNumbers - 1, timestamp : Byte]

\* b follows a as one stream.
Follows(a, b) ==
  LET advance == IF a.encoder = b.encoder THEN b.packet[1] - a.packet[1] ELSE FrameStep
  IN /\ b.sequence = (a.sequence + 1) % SeqNumbers
     /\ (b.timestamp - a.timestamp - advance) % Base = 0
     /\ a.encoder <= b.encoder

\* The numbering n continues after the packet w, of the encoder made last unless fresh.
Continues(n, w, made) ==
  /\ n.sequence = (w.sequence + 1) % SeqNumbers
  /\ n.emitted = w.timestamp
  /\ n.fresh => w.encoder < made
  /\ ~n.fresh => w.encoder = made /\ n.emitted = (w.packet[1] + n.shift) % Base

\* The numbering n and the packets o of a track that has made so many encoders.
Track(n, o, made) ==
  /\ n \in Numbering
  /\ o \in Seq(Written)
  /\ \A i \in 1 .. Len(o) : o[i].encoder <= made
  /\ \A i \in 1 .. Len(o) - 1 : Follows(o[i], o[i + 1])
  /\ o # <<>> => Continues(n, o[Len(o)], made)
  /\ ~n.fresh => o # <<>>

Tracked(e) == {z \in Numbering \X Seq(Written) : Track(z[1], z[2], e)}

\* The fields renumber() computes.
LEMMA RenumberFields ==
  ASSUME NEW n \in Numbering, NEW x \in Byte
  PROVE  LET r == renumber(n, x) IN
         /\ r \in Numbering
         /\ r.sequence = (n.sequence + 1) % SeqNumbers
         /\ r.emitted = (x + r.shift) % Base
         /\ r.shift = IF n.fresh THEN (n.emitted + FrameStep - x) % Base ELSE n.shift
         /\ r.fresh = FALSE
  <1> DEFINE s == IF n.fresh THEN (n.emitted + FrameStep - x) % Base ELSE n.shift
  <1>1. /\ n.sequence \in 0 .. SeqNumbers - 1 /\ n.emitted \in Byte /\ n.shift \in Byte
        /\ n.fresh \in BOOLEAN
    BY DEF Numbering
  <1>2. \A i \in Int : i % Base \in Byte
    BY StreamConstants DEF Byte
  <1>3. \A i \in Int : i % SeqNumbers \in 0 .. SeqNumbers - 1
    BY StreamConstants
  <1>4. n.emitted + FrameStep - x \in Int /\ n.sequence + 1 \in Int
    <2>1. n.emitted \in Int /\ FrameStep \in Int /\ x \in Int /\ n.sequence \in Int
      BY <1>1, StreamConstants
    <2> QED
      BY <2>1
  <1>5. s \in Byte
    BY <1>1, <1>2, <1>4
  <1> HIDE DEF s
  <1>6. x + s \in Int
    BY <1>5, StreamConstants
  <1>7. (x + s) % Base \in Byte /\ (n.sequence + 1) % SeqNumbers \in 0 .. SeqNumbers - 1
    BY <1>2, <1>3, <1>4, <1>6
  <1>8. renumber(n, x) = [sequence |-> (n.sequence + 1) % SeqNumbers,
                          emitted |-> (x + s) % Base, shift |-> s, fresh |-> FALSE]
    BY DEF renumber, s
  <1> QED
    BY <1>5, <1>7, <1>8 DEF Numbering, s
\* deliver() continues the track, whether the encoder has written before or not.
LEMMA WriteContinues ==
  ASSUME NEW e \in 1 .. MaxEncoders, NEW z \in Tracked(e), NEW p \in RtpPacket
  PROVE  write(e, z, p) \in Tracked(e)
  <1> DEFINE n == z[1]
             o == z[2]
             L == Len(o)
             r == renumber(n, p[1])
             w == [encoder |-> e, packet |-> p, sequence |-> n.sequence, timestamp |-> r.emitted]
             v == Append(o, w)
  <1>1. write(e, z, p) = <<r, v>>
    BY DEF write
  <1>2. Track(n, o, e)
    BY DEF Tracked
  <1>3. n \in Numbering /\ o \in Seq(Written) /\ L \in Nat /\ p[1] \in Byte
    BY <1>2, LenProperties DEF Track, RtpPacket
  <1>4. /\ r \in Numbering /\ r.sequence = (n.sequence + 1) % SeqNumbers
        /\ r.emitted = (p[1] + r.shift) % Base
        /\ r.shift = IF n.fresh THEN (n.emitted + FrameStep - p[1]) % Base ELSE n.shift
        /\ r.fresh = FALSE
    <2> HIDE DEF n
    <2> QED
      BY <1>3, RenumberFields
  <1> HIDE DEF n, o, r
  <1>5. /\ w \in Written /\ w.encoder = e /\ w.packet = p /\ w.sequence = n.sequence
        /\ w.timestamp = r.emitted
    <2>1. n.sequence \in 0 .. SeqNumbers - 1 /\ r.emitted \in Byte
      BY <1>3, <1>4 DEF Numbering
    <2> QED
      BY <2>1 DEF Written
  <1> HIDE DEF w
  <1>6. /\ v \in Seq(Written) /\ Len(v) = L + 1 /\ v # <<>>
        /\ \A i \in 1 .. L : v[i] = o[i]
        /\ v[L + 1] = w
    BY <1>3, <1>5, AppendProperties
  <1> HIDE DEF v
  <1>7. Continues(r, w, e)
    BY <1>4, <1>5 DEF Continues
  <1>8. \A i \in 1 .. Len(v) : v[i].encoder <= e
    <2>1. SUFFICES ASSUME NEW i \in 1 .. L + 1 PROVE v[i].encoder <= e
      BY <1>6
    <2>2. i \in 1 .. L \/ i = L + 1
      BY <1>3
    <2> QED
      BY <1>2, <1>5, <1>6, <2>2 DEF Track
  <1>9. o # <<>> => Follows(o[L], w)
    <2>1. SUFFICES ASSUME o # <<>> PROVE Follows(o[L], w)
      OBVIOUS
    <2> DEFINE a == o[L]
    <2>2. L \in 1 .. L /\ a \in Written
      <3>1. L # 0
        BY <1>3, <2>1, EmptySeq
      <3>2. L \in 1 .. L
        BY <1>3, <3>1
      <3> QED
        BY <1>3, <3>2, ElementOfSeq
    <2>3. Continues(n, a, e) /\ a.encoder <= e
      BY <1>2, <2>1, <2>2 DEF Track
    <2> HIDE DEF a
    <2>4. /\ a.encoder \in 1 .. MaxEncoders /\ a.packet[1] \in Byte /\ a.timestamp \in Byte
          /\ a.sequence \in 0 .. SeqNumbers - 1
      BY <2>2 DEF Written, RtpPacket
    <2>5. w.sequence = (a.sequence + 1) % SeqNumbers /\ a.encoder <= w.encoder
      BY <1>5, <2>3 DEF Continues
    <2>6. n.emitted = a.timestamp
      BY <2>3 DEF Continues
    <2>7. /\ p[1] \in Int /\ a.packet[1] \in Int /\ n.emitted \in Int /\ FrameStep \in Int
          /\ n.shift \in Int /\ Base \in Nat \ {0}
      <3>1. n.emitted \in Byte /\ n.shift \in Byte
        BY <1>3 DEF Numbering
      <3> QED
        BY <1>3, <2>4, <3>1, StreamConstants
    <2>8. CASE n.fresh
      <3>1. a.encoder # w.encoder
        BY <1>5, <2>3, <2>4, <2>8 DEF Continues
      <3>2. w.timestamp = (p[1] + ((n.emitted + FrameStep - p[1]) % Base)) % Base
        BY <1>4, <1>5, <2>8
      <3>3. (((p[1] + ((n.emitted + FrameStep - p[1]) % Base)) % Base) - n.emitted - FrameStep) % Base = 0
        BY <2>7, ShiftTo
      <3> QED
        BY <2>5, <2>6, <3>1, <3>2, <3>3 DEF Follows, a
    <2>9. CASE ~n.fresh
      <3>1. a.encoder = w.encoder /\ n.emitted = (a.packet[1] + n.shift) % Base
        BY <1>5, <2>3, <2>9 DEF Continues
      <3>2. w.timestamp = (p[1] + n.shift) % Base /\ w.packet[1] = p[1]
        BY <1>4, <1>5, <2>9
      <3>3. (((p[1] + n.shift) % Base) - ((a.packet[1] + n.shift) % Base) - (p[1] - a.packet[1])) % Base = 0
        BY <2>7, SameShift
      <3> QED
        BY <2>5, <2>6, <3>1, <3>2, <3>3 DEF Follows, a
    <2> QED
      BY <2>8, <2>9 DEF a
  <1>10. \A i \in 1 .. Len(v) - 1 : Follows(v[i], v[i + 1])
    <2>1. SUFFICES ASSUME NEW i \in 1 .. L PROVE Follows(v[i], v[i + 1])
      BY <1>3, <1>6
    <2>2. CASE i = L
      <3>1. L # 0 /\ L \in 1 .. L
        BY <1>3, <2>2
      <3>2. o # <<>>
        BY <1>3, <3>1
      <3> QED
        BY <1>6, <1>9, <2>2, <3>1, <3>2
    <2>3. CASE i # L
      <3>1. i \in 1 .. L - 1 /\ i + 1 \in 1 .. L
        BY <1>3, <2>3
      <3>2. Follows(o[i], o[i + 1])
        BY <1>2, <3>1 DEF Track
      <3> QED
        BY <1>6, <3>1, <3>2
    <2> QED
      BY <2>2, <2>3
  <1>11. Continues(r, v[Len(v)], e)
    BY <1>6, <1>7
  <1>12. Track(r, v, e)
    BY <1>4, <1>6, <1>8, <1>10, <1>11 DEF Track
  <1>13. <<r, v>> \in Numbering \X Seq(Written)
    BY <1>4, <1>6
  <1> QED
    BY <1>1, <1>12, <1>13 DEF Tracked

\* deliver() for the packets o, one after the other.
Writing(e, base, o) == FoldLeft(LAMBDA s, p : write(e, s, p), base, o)

IsWriting(g, e, base, o) ==
  g = [u \in SUBSET DOMAIN o |-> IF u = {} THEN base ELSE write(e, g[u \ {Max(u)}], o[Max(u)])]

\* The fold is a function that satisfies the recursion, if there is one.
LEMMA WritingIsChosen ==
  ASSUME NEW e, NEW base, NEW o, \E g : IsWriting(g, e, base, o)
  PROVE  \E g : IsWriting(g, e, base, o)
                /\ Writing(e, base, o) = g[DOMAIN o]
  BY DEF IsWriting, Writing, FoldLeft, MapThenFoldSet

\* The packets of one chunk continue the track.
LEMMA DeliveryContinues ==
  ASSUME NEW e \in 1 .. MaxEncoders, NEW base \in Tracked(e), NEW o \in Seq(RtpPacket)
  PROVE  Writing(e, base, o) \in Tracked(e)
  <1> DEFINE X == Tracked(e)
             F == [y \in X \X RtpPacket |-> write(e, y[1], y[2])]
             D == SUBSET DOMAIN o
  <1>1. F \in [X \X RtpPacket -> X]
    BY WriteContinues
  <1>2. \A z \in X, p \in RtpPacket : F[<<z, p>>] = write(e, z, p)
    OBVIOUS
  <1> HIDE DEF F, X
  <1>3. base \in X
    BY DEF X
  <1>4. PICK h \in [D -> X] : IsFold(h, F, base, o, D)
    BY <1>1, <1>3, FoldDefined
  <1>5. Len(o) \in Nat /\ DOMAIN o = 1 .. Len(o)
    BY LenProperties
  <1>6. ASSUME NEW u \in D, u # {} PROVE u \ {Max(u)} \in D /\ o[Max(u)] \in RtpPacket
    <2>1. Max(u) \in 1 .. Len(o)
      BY <1>5, <1>6, MaxOf
    <2> QED
      BY <2>1, ElementOfSeq
  <1>7. \A u \in D : h[u] = IF u = {} THEN base ELSE write(e, h[u \ {Max(u)}], o[Max(u)])
    <2>1. \A u \in D : h[u] = IF u = {} THEN base ELSE F[<<h[u \ {Max(u)}], o[Max(u)]>>]
      BY <1>4, Zenon DEF IsFold
    <2> QED
      BY <1>2, <1>4, <1>6, <2>1
  <1>8. IsWriting(h, e, base, o)
    <2>1. h = [u \in D |-> h[u]]
      BY <1>4
    <2> QED
      BY <1>7, <2>1, Zenon DEF IsWriting
  <1>9. PICK g : IsWriting(g, e, base, o)
                 /\ Writing(e, base, o) = g[DOMAIN o]
    BY <1>8, WritingIsChosen, Zenon
  <1>10. \A u \in D : g[u] = IF u = {} THEN base ELSE write(e, g[u \ {Max(u)}], o[Max(u)])
    BY <1>9, Zenon DEF IsWriting
  <1>11. g[1 .. Len(o)] = h[1 .. Len(o)]
    <2>1. {} \in D
      OBVIOUS
    <2>2. g[{}] = h[{}]
      BY <1>7, <1>10, <2>1
    <2>3. \A u \in SUBSET (1 .. Len(o)) :
            u # {} /\ g[u \ {Max(u)}] = h[u \ {Max(u)}] => g[u] = h[u]
      BY <1>5, <1>7, <1>10
    <2> QED
      BY <1>5, <2>2, <2>3, FoldUnique
  <1>12. h[1 .. Len(o)] \in X
    BY <1>4, <1>5
  <1> QED
    BY <1>5, <1>9, <1>11, <1>12 DEF X

\* What a worker writes.
LEMMA WorkerOutput ==
  ASSUME NEW e \in 1 .. MaxEncoders
  PROVE  /\ Packets[e] \in Seq(Seq(Byte)) /\ Junk[e] \in Seq(Byte) /\ NoPacket(Junk[e])
         /\ Len(Packets[e]) \in Nat /\ Len(Junk[e]) \in Nat
         /\ \A i \in 1 .. Len(Packets[e]) :
              /\ Packets[e][i] \in Seq(Byte)
              /\ Len(Packets[e][i]) \in Nat /\ Len(Packets[e][i]) >= 1
              /\ Len(Packets[e][i]) \in MinPacket .. MaxPacket
  <1>1. /\ Packets[e] \in Seq(Seq(Byte)) /\ Junk[e] \in Seq(Byte) /\ NoPacket(Junk[e])
        /\ \A i \in DOMAIN Packets[e] : Len(Packets[e][i]) \in MinPacket .. MaxPacket
    BY StreamAssumption
  <1>2. /\ Len(Packets[e]) \in Nat /\ Len(Junk[e]) \in Nat
        /\ DOMAIN Packets[e] = 1 .. Len(Packets[e])
    BY <1>1, LenProperties
  <1>3. ASSUME NEW i \in 1 .. Len(Packets[e])
        PROVE  /\ Packets[e][i] \in Seq(Byte)
               /\ Len(Packets[e][i]) \in Nat /\ Len(Packets[e][i]) >= 1
               /\ Len(Packets[e][i]) \in MinPacket .. MaxPacket
    <2>1. Packets[e][i] \in Seq(Byte)
      BY <1>1, ElementOfSeq
    <2>2. Len(Packets[e][i]) \in Nat /\ Len(Packets[e][i]) \in MinPacket .. MaxPacket
      BY <1>1, <1>2, <2>1, LenProperties
    <2> QED
      BY <2>1, <2>2, StreamConstants
  <1> QED
    BY <1>1, <1>2, <1>3

\* The part of a sequence after the first a and up to the first b of its elements.
LEMMA Slice ==
  ASSUME NEW S, NEW s \in Seq(S), NEW a \in Nat, NEW b \in Nat, a <= b, b <= Len(s)
  PROVE  /\ SubSeq(s, a + 1, b) \in Seq(S)
         /\ Len(SubSeq(s, a + 1, b)) = b - a
         /\ \A i \in 1 .. b - a : SubSeq(s, a + 1, b)[i] = s[a + i]
  <1>1. Len(s) \in Nat
    BY LenProperties
  <1>2. ASSUME NEW i \in a + 1 .. b PROVE s[i] \in S
    <2>1. i \in 1 .. Len(s)
      BY <1>1
    <2> QED
      BY <2>1, ElementOfSeq
  <1>3. /\ SubSeq(s, a + 1, b) \in Seq(S)
        /\ Len(SubSeq(s, a + 1, b)) = IF a + 1 <= b THEN b - (a + 1) + 1 ELSE 0
        /\ \A i \in 1 .. b - (a + 1) + 1 : SubSeq(s, a + 1, b)[i] = s[(a + 1) + i - 1]
    BY <1>2, SubSeqProperties
  <1>4. Len(SubSeq(s, a + 1, b)) = b - a
    BY <1>3
  <1>5. ASSUME NEW i \in 1 .. b - a PROVE SubSeq(s, a + 1, b)[i] = s[a + i]
    <2>1. i \in 1 .. b - (a + 1) + 1 /\ (a + 1) + i - 1 = a + i
      OBVIOUS
    <2> QED
      BY <1>3, <2>1
  <1> QED
    BY <1>3, <1>4, <1>5

\* Adjacent parts make one part.
LEMMA SliceJoin ==
  ASSUME NEW S, NEW s \in Seq(S), NEW a \in Nat, NEW b \in Nat, NEW c \in Nat,
         a <= b, b <= c, c <= Len(s)
  PROVE  SubSeq(s, a + 1, b) \o SubSeq(s, b + 1, c) = SubSeq(s, a + 1, c)
  <1>1. Len(s) \in Nat
    BY LenProperties
  <1>2. a + 1 \in 1 .. Len(s) + 1 /\ b \in (a + 1) - 1 .. Len(s) /\ c \in b .. Len(s)
    BY <1>1
  <1> QED
    BY <1>2, ConcatAdjacentSubSeq

\* A part of a part.
LEMMA SliceOfSlice ==
  ASSUME NEW S, NEW s \in Seq(S), NEW a \in Nat, NEW b \in Nat, NEW c \in Nat, NEW d \in Nat,
         a <= b, b <= Len(s), c <= d, d <= b - a
  PROVE  SubSeq(SubSeq(s, a + 1, b), c + 1, d) = SubSeq(s, a + c + 1, a + d)
  <1> DEFINE q == SubSeq(s, a + 1, b)
             x == SubSeq(q, c + 1, d)
             y == SubSeq(s, a + c + 1, a + d)
  <1>0. Len(s) \in Nat
    BY LenProperties
  <1>1. q \in Seq(S) /\ Len(q) = b - a /\ \A i \in 1 .. b - a : q[i] = s[a + i]
    BY Slice
  <1> HIDE DEF q
  <1>2. x \in Seq(S) /\ Len(x) = d - c /\ \A i \in 1 .. d - c : x[i] = q[c + i]
    BY <1>1, Slice
  <1>3. y \in Seq(S) /\ Len(y) = d - c /\ \A i \in 1 .. d - c : y[i] = s[a + c + i]
    <2>1. /\ a + c \in Nat /\ a + d \in Nat /\ a + c <= a + d /\ a + d <= Len(s)
          /\ (a + d) - (a + c) = d - c
      BY <1>0
    <2>2. /\ SubSeq(s, (a + c) + 1, a + d) \in Seq(S)
          /\ Len(SubSeq(s, (a + c) + 1, a + d)) = (a + d) - (a + c)
          /\ \A i \in 1 .. (a + d) - (a + c) : SubSeq(s, (a + c) + 1, a + d)[i] = s[(a + c) + i]
      BY <2>1, Slice
    <2> QED
      BY <2>1, <2>2
  <1> HIDE DEF x, y
  <1>4. ASSUME NEW i \in 1 .. Len(x) PROVE x[i] = y[i]
    <2>1. i \in 1 .. d - c /\ c + i \in 1 .. b - a /\ a + (c + i) = a + c + i
      BY <1>2
    <2> QED
      BY <1>1, <1>2, <1>3, <2>1
  <1>5. x = y
    BY <1>2, <1>3, <1>4, SeqEqual
  <1> QED
    BY <1>5 DEF x, y, q

\* A packet with its length in front.
LEMMA FramedBytes ==
  ASSUME NEW p \in Seq(Byte), Len(p) <= MaxPacket
  PROVE  /\ Framed(p) \in Seq(Byte) /\ Len(Framed(p)) = 2 + Len(p)
         /\ (Framed(p)[1] * Base) + Framed(p)[2] = Len(p)
         /\ \A i \in 1 .. Len(p) : Framed(p)[2 + i] = p[i]
  <1> DEFINE h == <<Len(p) \div Base, Len(p) % Base>>
  <1>1. Len(p) \in Nat /\ Len(p) < Base * Base /\ Base \in Nat \ {0}
    <2>1. Len(p) \in Nat /\ Base * Base \in Nat
      BY LenProperties, StreamConstants
    <2> QED
      BY <2>1, StreamConstants
  <1>2. /\ Len(p) \div Base \in 0 .. Base - 1 /\ Len(p) % Base \in 0 .. Base - 1
        /\ ((Len(p) \div Base) * Base) + (Len(p) % Base) = Len(p)
    BY <1>1, Digits
  <1>3. /\ h \in Seq(Byte) /\ Len(h) = 2
        /\ h[1] = Len(p) \div Base /\ h[2] = Len(p) % Base
    BY <1>2 DEF Byte
  <1> HIDE DEF h
  <1>4. /\ h \o p \in Seq(Byte) /\ Len(h \o p) = Len(h) + Len(p)
        /\ \A i \in 1 .. Len(h) + Len(p) : (h \o p)[i] = IF i <= Len(h) THEN h[i] ELSE p[i - Len(h)]
    BY <1>3, ConcatProperties
  <1>5. (h \o p)[1] = h[1] /\ (h \o p)[2] = h[2]
    BY <1>1, <1>3, <1>4
  <1>6. ASSUME NEW i \in 1 .. Len(p) PROVE (h \o p)[2 + i] = p[i]
    BY <1>1, <1>3, <1>4
  <1>7. Framed(p) = h \o p
    BY DEF Framed, h
  <1> QED
    BY <1>2, <1>3, <1>4, <1>5, <1>6, <1>7

\* Where the packets of a stream end.
LEMMA Extents ==
  ASSUME NEW e \in 1 .. MaxEncoders
  PROVE  /\ Extent(e, 0) = 0
         /\ \A k \in 0 .. Len(Packets[e]) : Extent(e, k) \in Nat
         /\ \A k \in 1 .. Len(Packets[e]) :
              Extent(e, k) = Extent(e, k - 1) + 2 + Len(Packets[e][k])
  <1> DEFINE n == Len(Packets[e])
             G(k) == [i \in 1 .. k |-> 2 + Len(Packets[e][i])]
  <1>0. n \in Nat /\ \A i \in 1 .. n : Len(Packets[e][i]) \in Nat
    BY WorkerOutput
  <1>1. ASSUME NEW k \in 0 .. n PROVE G(k) \in Seq(Nat) /\ Len(G(k)) = k
    <2>1. \A i \in 1 .. k : 2 + Len(Packets[e][i]) \in Nat
      BY <1>0
    <2> QED
      BY <2>1, <1>0
  <1>2. ASSUME NEW k \in 1 .. n PROVE G(k) = Append(G(k - 1), 2 + Len(Packets[e][k]))
    <2>1. k - 1 \in 0 .. n /\ k \in 0 .. n /\ k \in Nat
      BY <1>0
    <2>2. /\ G(k) \in Seq(Nat) /\ G(k - 1) \in Seq(Nat) /\ Len(G(k)) = Len(G(k - 1)) + 1
          /\ Len(G(k - 1)) = k - 1
      BY <1>1, <2>1
    <2>3. \A i \in 1 .. k - 1 : G(k)[i] = G(k - 1)[i]
      BY <1>0
    <2>4. G(k)[k] = 2 + Len(Packets[e][k]) /\ 2 + Len(Packets[e][k]) \in Nat
      BY <1>0
    <2> HIDE DEF G
    <2>5. G(k)[Len(G(k - 1)) + 1] = 2 + Len(Packets[e][k])
      BY <2>1, <2>2, <2>4
    <2>6. \A i \in 1 .. Len(G(k - 1)) : G(k)[i] = G(k - 1)[i]
      BY <2>2, <2>3
    <2> QED
      BY <2>2, <2>4, <2>5, <2>6, IsAppend
  <1>3. \A k \in 0 .. n : Extent(e, k) = SumFunction(G(k))
    BY DEF Extent
  <1>4. G(0) = <<>>
    OBVIOUS
  <1> HIDE DEF G
  <1>5. \A k \in 0 .. n : Extent(e, k) \in Nat
    BY <1>1, <1>3, SeqSumType
  <1>6. Extent(e, 0) = 0
    BY <1>0, <1>3, <1>4, SeqSumEmpty
  <1>7. ASSUME NEW k \in 1 .. n PROVE Extent(e, k) = Extent(e, k - 1) + 2 + Len(Packets[e][k])
    <2>1. k - 1 \in 0 .. n /\ k \in 0 .. n /\ 2 + Len(Packets[e][k]) \in Nat /\ Len(Packets[e][k]) \in Nat
      BY <1>0
    <2>2. SumFunction(G(k)) = SumFunction(G(k - 1)) + (2 + Len(Packets[e][k]))
      BY <1>1, <1>2, <2>1, SeqSumAppend
    <2>3. /\ Extent(e, k) = SumFunction(G(k)) /\ Extent(e, k - 1) = SumFunction(G(k - 1))
          /\ Extent(e, k - 1) \in Nat
      BY <1>3, <1>5, <2>1
    <2>4. \A a, b \in Nat : a + (2 + b) = a + 2 + b
      OBVIOUS
    <2> QED
      BY <2>1, <2>2, <2>3, <2>4
  <1> QED
    BY <1>5, <1>6, <1>7

\* What a worker writes for the packets o.
Framing(o) == FoldLeft(LAMBDA bytes, p : bytes \o Framed(p), <<>>, o)

IsFraming(g, o) ==
  g = [u \in SUBSET DOMAIN o |-> IF u = {} THEN <<>> ELSE g[u \ {Max(u)}] \o Framed(o[Max(u)])]

\* The fold is a function that satisfies the recursion, if there is one.
LEMMA FramingIsChosen ==
  ASSUME NEW o, \E g : IsFraming(g, o)
  PROVE  \E g : IsFraming(g, o) /\ Framing(o) = g[DOMAIN o]
  BY DEF IsFraming, Framing, FoldLeft, MapThenFoldSet

Sendable == {p \in Seq(Byte) : Len(p) <= MaxPacket}

\* The rounds of the worker's loop, one packet each.
LEMMA FramingRounds ==
  ASSUME NEW o \in Seq(Sendable)
  PROVE  \E r \in [0 .. Len(o) -> Seq(Byte)] :
           /\ r[0] = <<>>
           /\ \A k \in 1 .. Len(o) : r[k] = r[k - 1] \o Framed(o[k])
           /\ Framing(o) = r[Len(o)]
  <1> DEFINE X == Seq(Byte)
             F == [y \in X \X Sendable |-> y[1] \o Framed(y[2])]
             D == SUBSET DOMAIN o
             n == Len(o)
  <1>1. F \in [X \X Sendable -> X]
    <2>1. ASSUME NEW b \in X, NEW p \in Sendable PROVE b \o Framed(p) \in X
      <3>1. Framed(p) \in Seq(Byte)
        BY FramedBytes DEF Sendable
      <3> QED
        BY <3>1, ConcatProperties
    <2> QED
      BY <2>1
  <1>2. \A b \in X, p \in Sendable : F[<<b, p>>] = b \o Framed(p)
    OBVIOUS
  <1>3. <<>> \in X
    BY EmptySeq
  <1> HIDE DEF F, X
  <1>4. PICK h \in [D -> X] : IsFold(h, F, <<>>, o, D)
    BY <1>1, <1>3, FoldDefined
  <1>5. n \in Nat /\ DOMAIN o = 1 .. n
    BY LenProperties
  <1>6. ASSUME NEW u \in D, u # {} PROVE u \ {Max(u)} \in D /\ o[Max(u)] \in Sendable
    <2>1. Max(u) \in 1 .. Len(o)
      BY <1>5, <1>6, MaxOf
    <2> QED
      BY <2>1, ElementOfSeq
  <1>7. \A u \in D : h[u] = IF u = {} THEN <<>> ELSE h[u \ {Max(u)}] \o Framed(o[Max(u)])
    <2>1. \A u \in D : h[u] = IF u = {} THEN <<>> ELSE F[<<h[u \ {Max(u)}], o[Max(u)]>>]
      BY <1>4, Zenon DEF IsFold
    <2>2. ASSUME NEW u \in D, u # {}
          PROVE  h[u] = h[u \ {Max(u)}] \o Framed(o[Max(u)])
      <3>1. h[u \ {Max(u)}] \in X /\ o[Max(u)] \in Sendable
        BY <1>4, <1>6, <2>2
      <3>2. h[u] = F[<<h[u \ {Max(u)}], o[Max(u)]>>]
        BY <2>1, <2>2
      <3> QED
        BY <1>2, <3>1, <3>2
    <2> QED
      BY <2>1, <2>2, Zenon
  <1>8. IsFraming(h, o)
    <2>1. h = [u \in D |-> h[u]]
      BY <1>4
    <2> QED
      BY <1>7, <2>1, Zenon DEF IsFraming
  <1>9. PICK g : IsFraming(g, o) /\ Framing(o) = g[DOMAIN o]
    BY <1>8, FramingIsChosen, Zenon
  <1>10. \A u \in D : g[u] = IF u = {} THEN <<>> ELSE g[u \ {Max(u)}] \o Framed(o[Max(u)])
    BY <1>9, Zenon DEF IsFraming
  <1>11. g[1 .. n] = h[1 .. n]
    <2>1. {} \in D
      OBVIOUS
    <2>2. g[{}] = h[{}]
      BY <1>7, <1>10, <2>1
    <2>3. \A u \in SUBSET (1 .. n) :
            u # {} /\ g[u \ {Max(u)}] = h[u \ {Max(u)}] => g[u] = h[u]
      BY <1>5, <1>7, <1>10
    <2> QED
      BY <1>5, <2>2, <2>3, FoldUnique
  <1> DEFINE r == [k \in 0 .. n |-> h[1 .. k]]
  <1> HIDE DEF n
  <1>12. r \in [0 .. n -> Seq(Byte)]
    <2>1. \A k \in 0 .. n : 1 .. k \in D
      BY <1>5
    <2> QED
      BY <1>4, <2>1 DEF X
  <1>13. r[0] = <<>>
    <2>1. 1 .. 0 = {} /\ 0 \in 0 .. n /\ {} \in D
      BY <1>5
    <2> QED
      BY <1>7, <2>1
  <1>14. ASSUME NEW k \in 1 .. n PROVE r[k] = r[k - 1] \o Framed(o[k])
    <2>1. /\ 1 .. k \in D /\ k \in 1 .. k /\ 1 .. k # {} /\ (1 .. k) \ {k} = 1 .. k - 1
          /\ k \in 0 .. n /\ k - 1 \in 0 .. n
      <3>1. /\ 1 .. k \subseteq 1 .. n /\ k \in 1 .. k /\ (1 .. k) \ {k} = 1 .. k - 1
            /\ k \in 0 .. n /\ k - 1 \in 0 .. n
        BY <1>5
      <3>2. 1 .. k \in D
        BY <1>5, <3>1
      <3>3. 1 .. k # {}
        BY <3>1
      <3> QED
        BY <3>1, <3>2, <3>3
    <2>2. Max(1 .. k) = k
      <3>1. Max(1 .. k) \in 1 .. k /\ k <= Max(1 .. k)
        BY <1>5, <2>1, MaxOf
      <3> QED
        BY <1>5, <3>1
    <2>3. h[1 .. k] = h[1 .. k - 1] \o Framed(o[k])
      BY <1>7, <2>1, <2>2
    <2>4. r[k] = h[1 .. k] /\ r[k - 1] = h[1 .. k - 1]
      BY <2>1
    <2> QED
      BY <2>3, <2>4
  <1>15. Framing(o) = r[n]
    BY <1>5, <1>9, <1>11
  <1> QED
    BY <1>12, <1>13, <1>14, <1>15, Zenon DEF n

\* The bytes of a worker: the k-th packet begins where the first k - 1 end, and what
\* follows the last packet is the junk.
LEMMA WireBytes ==
  ASSUME NEW e \in 1 .. MaxEncoders
  PROVE  LET P == Packets[e]
             n == Len(P)
             W == Wire[e]
         IN /\ W \in Seq(Byte)
            /\ Len(W) = Extent(e, n) + Len(Junk[e])
            /\ \A k \in 1 .. n : \A i \in 1 .. 2 + Len(P[k]) :
                 W[Extent(e, k - 1) + i] = Framed(P[k])[i]
            /\ \A i \in 1 .. Len(Junk[e]) : W[Extent(e, n) + i] = Junk[e][i]
  <1> DEFINE P == Packets[e]
             n == Len(P)
             J == Junk[e]
             W == Wire[e]
  <1>1. /\ P \in Seq(Seq(Byte)) /\ J \in Seq(Byte) /\ n \in Nat /\ Len(J) \in Nat
        /\ \A i \in 1 .. n : P[i] \in Sendable /\ Len(P[i]) \in Nat
    <2>1. \A i \in 1 .. n : Len(P[i]) \in MinPacket .. MaxPacket => Len(P[i]) <= MaxPacket
      BY StreamConstants
    <2> QED
      BY <2>1, WorkerOutput DEF Sendable
  <1>2. P \in Seq(Sendable)
    <2>1. P = [i \in 1 .. n |-> P[i]]
      BY <1>1
    <2>2. P \in [1 .. n -> Sendable]
      BY <1>1, <2>1
    <2> HIDE DEF P, n
    <2> QED
      BY <1>1, <2>2
  <1>3. W = Framing(P) \o J
    BY DEF Wire, Framing
  <1>4. PICK r \in [0 .. n -> Seq(Byte)] :
           /\ r[0] = <<>>
           /\ \A k \in 1 .. n : r[k] = r[k - 1] \o Framed(P[k])
           /\ Framing(P) = r[n]
    <2> HIDE DEF P
    <2> QED
      BY <1>2, FramingRounds
  <1>5. /\ Extent(e, 0) = 0
        /\ \A k \in 0 .. n : Extent(e, k) \in Nat
        /\ \A k \in 1 .. n : Extent(e, k) = Extent(e, k - 1) + 2 + Len(P[k])
    BY Extents
  <1> HIDE DEF P, n, J, W
  <1>6. ASSUME NEW k \in 1 .. n
        PROVE  /\ k - 1 \in 0 .. n /\ k \in 0 .. n
               /\ Framed(P[k]) \in Seq(Byte) /\ Len(Framed(P[k])) = 2 + Len(P[k])
               /\ Len(P[k]) \in Nat /\ Len(r[k - 1]) \in Nat
               /\ Len(r[k]) = Len(r[k - 1]) + 2 + Len(P[k])
               /\ \A i \in 1 .. Len(r[k - 1]) : r[k][i] = r[k - 1][i]
               /\ \A i \in 1 .. 2 + Len(P[k]) : r[k][Len(r[k - 1]) + i] = Framed(P[k])[i]
    <2>1. k - 1 \in 0 .. n /\ k \in 0 .. n
      BY <1>1
    <2>2. Framed(P[k]) \in Seq(Byte) /\ Len(Framed(P[k])) = 2 + Len(P[k]) /\ Len(P[k]) \in Nat
      BY <1>1, FramedBytes DEF Sendable
    <2> DEFINE f == Framed(P[k])
               a == r[k - 1]
    <2>3. a \in Seq(Byte) /\ Len(a) \in Nat /\ f \in Seq(Byte) /\ Len(f) = 2 + Len(P[k])
      BY <1>4, <2>1, <2>2, LenProperties
    <2>4. r[k] = a \o f
      BY <1>4
    <2> HIDE DEF f, a
    <2>5. /\ Len(a \o f) = Len(a) + Len(f)
          /\ \A i \in 1 .. Len(a) + Len(f) : (a \o f)[i] = IF i <= Len(a) THEN a[i] ELSE f[i - Len(a)]
      BY <2>3, ConcatProperties
    <2>6. Len(r[k]) = Len(a) + 2 + Len(P[k])
      <3>1. \A x, y \in Nat : x + (2 + y) = x + 2 + y
        OBVIOUS
      <3> QED
        BY <2>2, <2>3, <2>4, <2>5, <3>1
    <2>7. \A i \in 1 .. Len(a) : r[k][i] = a[i]
      BY <2>2, <2>3, <2>4, <2>5
    <2>8. ASSUME NEW i \in 1 .. 2 + Len(P[k]) PROVE r[k][Len(a) + i] = f[i]
      <3>1. Len(a) + i \in 1 .. Len(a) + Len(f) /\ ~(Len(a) + i <= Len(a)) /\ (Len(a) + i) - Len(a) = i
        BY <2>2, <2>3
      <3> QED
        BY <2>4, <2>5, <3>1
    <2> QED
      BY <2>1, <2>2, <2>3, <2>6, <2>7, <2>8 DEF f, a
  <1>7. \A k \in 0 .. n : Len(r[k]) = Extent(e, k)
    <2> DEFINE B == {k \in 0 .. n : Len(r[k]) # Extent(e, k)}
    <2>1. SUFFICES ASSUME B # {} PROVE FALSE
      OBVIOUS
    <2>2. PICK k \in B : \A j \in B : k <= j
      <3>1. B \in SUBSET Nat
        BY <1>1
      <3> HIDE DEF B
      <3> QED
        BY <2>1, <3>1, SmallestNumber
    <2>3. k # 0
      BY <1>4, <1>5, EmptySeq
    <2>4. k \in 1 .. n /\ k - 1 \in 0 .. n /\ k - 1 \notin B
      BY <1>1, <2>2, <2>3
    <2>5. Len(r[k - 1]) = Extent(e, k - 1)
      BY <2>4
    <2>6. Len(r[k]) = Extent(e, k)
      <3> HIDE DEF B
      <3> QED
        BY <1>5, <1>6, <2>4, <2>5
    <2> QED
      BY <2>6
  <1>8. ASSUME NEW k \in 0 .. n, NEW j \in k .. n, NEW i \in 1 .. Len(r[k])
        PROVE  Len(r[k]) <= Len(r[j]) /\ r[j][i] = r[k][i]
    <2> DEFINE Good(m) == Len(r[k]) <= Len(r[m]) /\ r[m][i] = r[k][i]
               B == {m \in k .. n : ~Good(m)}
    <2>0. Len(r[k]) \in Nat
      BY <1>4, LenProperties
    <2>1. SUFFICES ASSUME B # {} PROVE FALSE
      BY Zenon
    <2>2. PICK m \in B : \A l \in B : m <= l
      <3>1. B \in SUBSET Nat
        BY <1>1
      <3> HIDE DEF B
      <3> QED
        BY <2>1, <3>1, SmallestNumber
    <2>3. m # k
      BY <2>0
    <2>4. m \in 1 .. n /\ m - 1 \in k .. n /\ m - 1 \notin B
      BY <1>1, <2>2, <2>3
    <2>5. Good(m - 1)
      BY <2>4
    <2>6. Good(m)
      <3>1. /\ Len(r[m]) = Len(r[m - 1]) + 2 + Len(P[m]) /\ Len(P[m]) \in Nat /\ Len(r[m - 1]) \in Nat
            /\ \A x \in 1 .. Len(r[m - 1]) : r[m][x] = r[m - 1][x]
        BY <1>6, <2>4
      <3>2. \A x, y, z \in Nat : x <= y => x <= y + 2 + z
        OBVIOUS
      <3>3. Len(r[k]) <= Len(r[m])
        BY <2>0, <2>5, <3>1, <3>2
      <3>4. i \in 1 .. Len(r[m - 1])
        BY <2>0, <2>5, <3>1
      <3>5. r[m][i] = r[k][i]
        BY <2>5, <3>1, <3>4
      <3> QED
        BY <3>3, <3>5
    <2> QED
      BY <2>2, <2>6
  <1>9. /\ W \in Seq(Byte) /\ Len(W) = Extent(e, n) + Len(J)
        /\ \A i \in 1 .. Extent(e, n) : W[i] = r[n][i]
        /\ \A i \in 1 .. Len(J) : W[Extent(e, n) + i] = J[i]
    <2> DEFINE a == r[n]
    <2>1. a \in Seq(Byte) /\ Len(a) = Extent(e, n) /\ Len(a) \in Nat /\ W = a \o J
      BY <1>1, <1>3, <1>4, <1>5, <1>7
    <2> HIDE DEF a
    <2>2. /\ W \in Seq(Byte) /\ Len(W) = Len(a) + Len(J)
          /\ \A i \in 1 .. Len(a) + Len(J) : W[i] = IF i <= Len(a) THEN a[i] ELSE J[i - Len(a)]
      BY <1>1, <2>1, ConcatProperties
    <2>3. \A i \in 1 .. Len(a) : W[i] = a[i]
      BY <1>1, <2>1, <2>2
    <2>4. ASSUME NEW i \in 1 .. Len(J) PROVE W[Len(a) + i] = J[i]
      <3>1. Len(a) + i \in 1 .. Len(a) + Len(J) /\ ~(Len(a) + i <= Len(a)) /\ (Len(a) + i) - Len(a) = i
        BY <1>1, <2>1
      <3> QED
        BY <2>2, <3>1
    <2> QED
      BY <2>1, <2>2, <2>3, <2>4 DEF a
  <1>10. ASSUME NEW k \in 1 .. n, NEW i \in 1 .. 2 + Len(P[k])
         PROVE  W[Extent(e, k - 1) + i] = Framed(P[k])[i]
    <2> DEFINE x == Extent(e, k - 1) + i
    <2>1. k - 1 \in 0 .. n /\ k \in 0 .. n /\ n \in k .. n /\ n \in 0 .. n
      BY <1>1
    <2>2. /\ Extent(e, k - 1) \in Nat /\ Extent(e, k) \in Nat /\ Extent(e, n) \in Nat
          /\ Len(r[k - 1]) = Extent(e, k - 1) /\ Len(r[k]) = Extent(e, k) /\ Len(r[n]) = Extent(e, n)
          /\ Extent(e, k) = Extent(e, k - 1) + 2 + Len(P[k]) /\ Len(P[k]) \in Nat
      BY <1>1, <1>5, <1>7, <2>1
    <2>3. x \in 1 .. Len(r[k])
      <3>1. \A y, z \in Nat : \A u \in 1 .. 2 + z : y + u \in 1 .. y + 2 + z
        OBVIOUS
      <3>2. Extent(e, k - 1) + i \in 1 .. Extent(e, k - 1) + 2 + Len(P[k])
        BY <2>2, <3>1
      <3> QED
        BY <2>2, <3>2
    <2>4. Len(r[k]) <= Len(r[n]) /\ r[n][x] = r[k][x]
      <3> HIDE DEF x
      <3> QED
        BY <1>8, <2>1, <2>3
    <2>5. r[k][x] = Framed(P[k])[i]
      BY <1>6, <2>2
    <2>6. W[x] = r[n][x]
      <3>1. x \in 1 .. Extent(e, n)
        BY <2>2, <2>3, <2>4
      <3> QED
        BY <1>9, <3>1
    <2> QED
      BY <2>4, <2>5, <2>6
  <1> QED
    BY <1>9, <1>10 DEF P, n, J, W

\* The deframer, given the bytes from the end of packet k up to byte r, finds exactly
\* the packets that end by then.
Parsed(e, k, r) ==
  LET d == deframe[SubSeq(Wire[e], Extent(e, k) + 1, r)]
      m == k + Len(d.packets)
  IN /\ m \in 0 .. Len(Packets[e])
     /\ d.packets = SubSeq(Packets[e], k + 1, m)
     /\ Extent(e, m) <= r
     /\ d.pending = SubSeq(Wire[e], Extent(e, m) + 1, r)
     /\ m < Len(Packets[e]) => r < Extent(e, m + 1)

\* Its first round, with no complete packet in the buffer.
LEMMA ParsedNone ==
  ASSUME NEW e \in 1 .. MaxEncoders, NEW k \in 0 .. Len(Packets[e]),
         NEW r \in 0 .. Len(Wire[e]), Extent(e, k) <= r,
         ~Complete(SubSeq(Wire[e], Extent(e, k) + 1, r)),
         k < Len(Packets[e]) => r < Extent(e, k + 1)
  PROVE  Parsed(e, k, r)
  <1> DEFINE q == SubSeq(Wire[e], Extent(e, k) + 1, r)
             d == deframe[q]
  <1>1. Wire[e] \in Seq(Byte) /\ Len(Wire[e]) \in Nat
    BY WireBytes, LenProperties
  <1>2. Extent(e, k) \in Nat
    BY Extents
  <1>3. q \in Seq(Byte)
    BY <1>1, <1>2, Slice
  <1>4. deframe[q] = [packets |-> <<>>, pending |-> q, broken |-> Broken(q)]
    <2> HIDE DEF q
    <2>1. ~Complete(q)
      BY DEF q
    <2>2. deframe[q] = Frame(deframe, q)
      BY <1>3, DeframeDefined
    <2> QED
      BY <1>3, <2>1, <2>2, FrameCases, Zenon
  <1>5. d.packets = <<>> /\ d.pending = q
    <2> HIDE DEF q
    <2> QED
      BY <1>4
  <1>6. k \in Nat /\ Len(<<>>) = 0 /\ k + 0 = k
    BY WorkerOutput
  <1>7. SubSeq(Packets[e], k + 1, k) = <<>>
    BY <1>6, SubSeqEmpty
  <1> HIDE DEF d
  <1>8. k + Len(d.packets) = k
    BY <1>5, <1>6
  <1> QED
    BY <1>5, <1>7, <1>8 DEF Parsed, d

\* The two bytes a buffer begins with are those of the part of the stream it holds.
LEMMA BufferLength ==
  ASSUME NEW w \in Seq(Byte), NEW a \in Nat, NEW r \in Nat, a <= r, r <= Len(w)
  PROVE  LET q == SubSeq(w, a + 1, r) IN
         Len(q) >= 2 => Length(q) = w[a + 1] * Base + w[a + 2]
  <1> DEFINE q == SubSeq(w, a + 1, r)
  <1>1. q \in Seq(Byte) /\ Len(q) = r - a /\ \A i \in 1 .. r - a : q[i] = w[a + i]
    BY Slice
  <1> HIDE DEF q
  <1>2. ASSUME Len(q) >= 2 PROVE q[1] = w[a + 1] /\ q[2] = w[a + 2]
    BY <1>1, <1>2
  <1> QED
    BY <1>2 DEF Length, q

\* After the last packet there is none.
LEMMA JunkParsed ==
  ASSUME NEW e \in 1 .. MaxEncoders, NEW r \in 0 .. Len(Wire[e]),
         Extent(e, Len(Packets[e])) <= r
  PROVE  Parsed(e, Len(Packets[e]), r)
  <1> DEFINE n == Len(Packets[e])
             J == Junk[e]
             w == Wire[e]
             a == Extent(e, n)
             q == SubSeq(w, a + 1, r)
  <1>1. n \in Nat /\ J \in Seq(Byte) /\ Len(J) \in Nat /\ NoPacket(J)
    BY WorkerOutput
  <1>2. n \in 0 .. n
    BY <1>1
  <1>3. /\ w \in Seq(Byte) /\ Len(w) = a + Len(J) /\ a \in Nat
        /\ \A i \in 1 .. Len(J) : w[a + i] = J[i]
    BY <1>2, WireBytes, Extents
  <1>4. r \in Nat /\ r <= Len(w) /\ a <= r /\ Len(w) \in Nat
    BY <1>1, <1>3
  <1>5. q \in Seq(Byte) /\ Len(q) = r - a
    BY <1>3, <1>4, Slice
  <1>6. Len(q) >= 2 => Length(q) = w[a + 1] * Base + w[a + 2]
    BY <1>3, <1>4, BufferLength
  <1> HIDE DEF q, w, a, J
  <1>7. ~Complete(q)
    <2>1. SUFFICES ASSUME Complete(q) PROVE FALSE
      OBVIOUS
    <2>2. Len(q) >= 2 /\ Length(q) \in MinPacket .. MaxPacket /\ Len(q) >= 2 + Length(q) /\ Length(q) \in Nat
      BY <1>5, <2>1, FirstPacket DEF Complete
    <2>3. Len(J) >= Len(q) /\ Len(J) >= 2
      BY <1>1, <1>3, <1>4, <1>5, <2>2
    <2>4. w[a + 1] = J[1] /\ w[a + 2] = J[2]
      BY <1>1, <1>3, <2>3
    <2>5. Length(q) = J[1] * Base + J[2]
      BY <1>6, <2>2, <2>4
    <2>6. Len(J) < 2 + Length(q)
      BY <1>1, <2>2, <2>3, <2>5 DEF NoPacket
    <2> QED
      BY <1>1, <1>3, <1>4, <1>5, <2>2, <2>3, <2>6
  <1> HIDE DEF n
  <1>8. ~(n < n)
    BY <1>1
  <1>9. n \in 0 .. Len(Packets[e]) /\ r \in 0 .. Len(Wire[e])
    BY <1>2 DEF n
  <1>10. Extent(e, n) <= r /\ ~Complete(SubSeq(Wire[e], Extent(e, n) + 1, r))
    BY <1>4, <1>7 DEF a, q, w
  <1>11. n < Len(Packets[e]) => r < Extent(e, n + 1)
    BY <1>8 DEF n
  <1>12. Parsed(e, n, r)
    BY <1>9, <1>10, <1>11, ParsedNone
  <1> QED
    BY <1>12 DEF n

\* A packet that has not arrived completely is not found; one that has is the first.
LEMMA PacketParsed ==
  ASSUME NEW e \in 1 .. MaxEncoders, NEW k \in 1 .. Len(Packets[e]),
         NEW r \in 0 .. Len(Wire[e]), Extent(e, k - 1) <= r
  PROVE  LET q == SubSeq(Wire[e], Extent(e, k - 1) + 1, r) IN
         /\ q \in Seq(Byte)
         /\ r < Extent(e, k) => ~Complete(q)
         /\ r >= Extent(e, k) =>
              /\ Complete(q)
              /\ SubSeq(q, 3, 2 + Length(q)) = Packets[e][k]
              /\ Rest(q, Length(q)) = SubSeq(Wire[e], Extent(e, k) + 1, r)
  <1> DEFINE n == Len(Packets[e])
             p == Packets[e][k]
             l == Len(p)
             w == Wire[e]
             a == Extent(e, k - 1)
             q == SubSeq(w, a + 1, r)
  <1>1. /\ n \in Nat /\ p \in Seq(Byte) /\ l \in Nat /\ l >= 1 /\ l \in MinPacket .. MaxPacket
        /\ l <= MaxPacket /\ k - 1 \in 0 .. n /\ k \in 0 .. n
    <2>1. /\ n \in Nat /\ p \in Seq(Byte) /\ l \in Nat /\ l >= 1 /\ l \in MinPacket .. MaxPacket
      BY WorkerOutput
    <2> QED
      BY <2>1, StreamConstants
  <1>2. a \in Nat /\ Extent(e, k) \in Nat /\ Extent(e, k) = a + 2 + l
    BY <1>1, Extents
  <1>3. /\ w \in Seq(Byte) /\ Len(w) \in Nat
        /\ \A i \in 1 .. 2 + l : w[a + i] = Framed(p)[i]
    BY WireBytes, LenProperties
  <1>4. r \in Nat /\ r <= Len(w) /\ a <= r
    BY <1>3
  <1>5. q \in Seq(Byte) /\ Len(q) = r - a /\ \A i \in 1 .. r - a : q[i] = w[a + i]
    <2> HIDE DEF w, a, l, p, n
    <2> QED
      BY <1>2, <1>3, <1>4, Slice
  <1>6. Len(q) >= 2 => Length(q) = w[a + 1] * Base + w[a + 2]
    BY <1>2, <1>3, <1>4, BufferLength
  <1>7. /\ (Framed(p)[1] * Base) + Framed(p)[2] = l
        /\ \A i \in 1 .. l : Framed(p)[2 + i] = p[i]
    <2> HIDE DEF p
    <2> QED
      BY <1>1, FramedBytes
  <1> HIDE DEF q, w, p, l, n
  <1>8. Len(q) >= 2 => Length(q) = l
    <2>1. 1 \in 1 .. 2 + l /\ 2 \in 1 .. 2 + l
      BY <1>1
    <2>2. w[a + 1] = Framed(p)[1] /\ w[a + 2] = Framed(p)[2]
      BY <1>3, <2>1
    <2> QED
      BY <1>6, <1>7, <2>2
  <1> HIDE DEF a
  <1>9. ASSUME r < Extent(e, k) PROVE ~Complete(q)
    <2>1. Len(q) < 2 + l /\ Len(q) \in Nat
      BY <1>1, <1>2, <1>4, <1>5, <1>9
    <2>2. ASSUME Complete(q) PROVE FALSE
      <3>1. Len(q) >= 2 /\ Len(q) >= 2 + Length(q)
        BY <2>2 DEF Complete
      <3>2. Len(q) >= 2 + l
        BY <1>8, <3>1
      <3> QED
        BY <1>1, <2>1, <3>2
    <2> QED
      BY <2>2
  <1>10. ASSUME r >= Extent(e, k)
         PROVE  /\ Complete(q)
                /\ SubSeq(q, 3, 2 + Length(q)) = p
                /\ Rest(q, Length(q)) = SubSeq(w, Extent(e, k) + 1, r)
    <2>1. Len(q) >= 2 + l /\ Len(q) >= 2 /\ Len(q) \in Nat
      BY <1>1, <1>2, <1>4, <1>5, <1>10
    <2>2. Length(q) = l
      BY <1>8, <2>1
    <2>3. Complete(q)
      BY <1>1, <2>1, <2>2 DEF Complete
    <2>4. SubSeq(q, 3, 2 + l) = p
      <3> DEFINE s == SubSeq(q, 2 + 1, 2 + l)
      <3>1. s \in Seq(Byte) /\ Len(s) = (2 + l) - 2 /\ \A i \in 1 .. (2 + l) - 2 : s[i] = q[2 + i]
        <4>1. 2 \in Nat /\ 2 + l \in Nat /\ 2 <= 2 + l /\ 2 + l <= Len(q)
          BY <1>1, <2>1
        <4> QED
          BY <1>5, <4>1, Slice
      <3> HIDE DEF s
      <3>2. Len(s) = l
        BY <1>1, <3>1
      <3>3. ASSUME NEW i \in 1 .. Len(s) PROVE s[i] = p[i]
        <4>1. i \in 1 .. (2 + l) - 2 /\ 2 + i \in 1 .. r - a /\ 2 + i \in 1 .. 2 + l /\ i \in 1 .. l
          BY <1>1, <1>2, <1>4, <1>5, <2>1, <3>2
        <4>2. s[i] = q[2 + i] /\ q[2 + i] = w[a + (2 + i)] /\ w[a + (2 + i)] = Framed(p)[2 + i]
          BY <1>3, <1>5, <3>1, <4>1
        <4> QED
          BY <1>7, <4>1, <4>2
      <3>4. s = p
        BY <1>1, <3>1, <3>2, <3>3, SeqEqual DEF l
      <3> QED
        BY <3>4 DEF s
    <2>5. SubSeq(q, 3 + l, Len(q)) = SubSeq(w, Extent(e, k) + 1, r)
      <3>1. /\ 2 + l \in Nat /\ Len(q) \in Nat /\ 2 + l <= Len(q) /\ Len(q) <= r - a
            /\ (2 + l) + 1 = 3 + l /\ a + (2 + l) = Extent(e, k) /\ a + Len(q) = r
        BY <1>1, <1>2, <1>4, <1>5, <2>1
      <3>2. SubSeq(SubSeq(w, a + 1, r), (2 + l) + 1, Len(q)) = SubSeq(w, a + (2 + l) + 1, a + Len(q))
        <4> DEFINE c == 2 + l
                   f == Len(q)
        <4>1. c \in Nat /\ f \in Nat /\ c <= f /\ f <= r - a
          BY <3>1
        <4> HIDE DEF c, f
        <4>2. SubSeq(SubSeq(w, a + 1, r), c + 1, f) = SubSeq(w, a + c + 1, a + f)
          BY <1>2, <1>3, <1>4, <4>1, SliceOfSlice
        <4> QED
          BY <4>2 DEF c, f
      <3> QED
        BY <3>1, <3>2 DEF q
    <2> QED
      BY <2>2, <2>3, <2>4, <2>5 DEF Rest
  <1> QED
    BY <1>5, <1>9, <1>10 DEF p, w, q, a

\* One packet more in front of what was found behind it.
LEMMA ParsedMore ==
  ASSUME NEW e \in 1 .. MaxEncoders, NEW k \in 1 .. Len(Packets[e]),
         NEW r \in 0 .. Len(Wire[e]), Extent(e, k) <= r, Parsed(e, k, r)
  PROVE  Parsed(e, k - 1, r)
  <1> DEFINE P == Packets[e]
             n == Len(P)
             w == Wire[e]
             a == Extent(e, k - 1)
             b == Extent(e, k)
             q == SubSeq(w, a + 1, r)
             x == SubSeq(w, b + 1, r)
             d == deframe[q]
             f == deframe[x]
             m == k + Len(f.packets)
  <1>1. /\ P \in Seq(Seq(Byte)) /\ n \in Nat /\ P[k] \in Seq(Byte)
        /\ a \in Nat /\ b \in Nat /\ a <= b
    <2>1. P \in Seq(Seq(Byte)) /\ n \in Nat /\ P[k] \in Seq(Byte) /\ Len(P[k]) \in Nat
      BY WorkerOutput
    <2>2. k - 1 \in 0 .. n /\ k \in 0 .. n
      BY <2>1
    <2>3. a \in Nat /\ b \in Nat /\ b = a + 2 + Len(P[k])
      BY <2>2, Extents
    <2>4. \A i, j \in Nat : i <= i + 2 + j
      OBVIOUS
    <2> HIDE DEF P, a, b, n
    <2>5. a <= b
      BY <2>1, <2>3, <2>4
    <2> QED
      BY <2>1, <2>3, <2>5
  <1>2. w \in Seq(Byte) /\ Len(w) \in Nat
    BY WireBytes, LenProperties
  <1>3. a <= r /\ r \in Nat /\ r <= Len(w)
    BY <1>1, <1>2
  <1>4. /\ q \in Seq(Byte) /\ Complete(q)
        /\ SubSeq(q, 3, 2 + Length(q)) = P[k] /\ Rest(q, Length(q)) = x
    <2>1. r >= b
      BY <1>1, <1>3
    <2> QED
      BY <1>3, <2>1, PacketParsed
  <1>5. x \in Seq(Byte)
    <2> HIDE DEF w, b
    <2> QED
      BY <1>1, <1>2, <1>3, Slice DEF b
  <1>6. /\ m \in 0 .. n /\ f.packets = SubSeq(P, k + 1, m) /\ Extent(e, m) <= r
        /\ f.pending = SubSeq(w, Extent(e, m) + 1, r) /\ (m < n => r < Extent(e, m + 1))
    BY DEF Parsed
  <1> HIDE DEF q, x, P, w, a, b, n
  <1>7. f \in Deframed /\ f.packets \in Seq(RtpPacket) /\ Len(f.packets) \in Nat
    <2>1. f \in Deframed
      BY <1>5, DeframeType
    <2>2. f.packets \in Seq(RtpPacket)
      <3> HIDE DEF f
      <3> QED
        BY <2>1 DEF Deframed
    <2> QED
      BY <2>1, <2>2, LenProperties
  <1>8. P[k] \in RtpPacket
    BY <1>4, FirstIsPacket
  <1>9. d.packets = <<P[k]>> \o f.packets /\ d.pending = f.pending
    <2> DEFINE y == P[k]
    <2>0. y \in RtpPacket
      BY <1>8
    <2>1. d = [f EXCEPT !.packets = <<y>> \o @]
      <3>1. d = Frame(deframe, q)
        BY <1>4, DeframeDefined
      <3>2. Frame(deframe, q) = [deframe[Rest(q, Length(q))] EXCEPT
                                   !.packets = <<SubSeq(q, 3, 2 + Length(q))>> \o @]
        BY <1>4, FrameCases, Zenon
      <3> QED
        BY <1>4, <3>1, <3>2
    <2> HIDE DEF f, d, y
    <2>2. d.packets = <<y>> \o f.packets /\ d.pending = f.pending
      BY <1>7, <2>0, <2>1, Prepend
    <2> QED
      BY <2>2 DEF y
  <1>10. m \in k .. n /\ k \in Nat /\ k \in 1 .. n
    <2>1. k \in Nat /\ k \in 1 .. n
      <3>1. k \in 1 .. n
        BY DEF n, P
      <3> QED
        BY <1>1, <3>1
    <2>2. m \in Nat /\ m >= k
      BY <1>7, <2>1
    <2> HIDE DEF m, f
    <2> QED
      BY <1>1, <1>6, <2>1, <2>2
  <1>11. Len(d.packets) = 1 + Len(f.packets) /\ (k - 1) + Len(d.packets) = m
    <2>1. <<P[k]>> \in Seq(RtpPacket) /\ Len(<<P[k]>>) = 1
      BY <1>8
    <2>2. Len(<<P[k]>> \o f.packets) = Len(<<P[k]>>) + Len(f.packets)
      BY <1>7, <2>1, ConcatProperties
    <2>3. Len(d.packets) = 1 + Len(f.packets)
      BY <1>9, <2>1, <2>2
    <2>4. \A i \in Nat : (k - 1) + (1 + i) = k + i
      BY <1>10
    <2> QED
      BY <1>7, <2>3, <2>4
  <1>12. d.packets = SubSeq(P, (k - 1) + 1, m)
    <2>1. SubSeq(P, k, m) = <<P[k]>> \o SubSeq(P, k + 1, m)
      <3> HIDE DEF m, f
      <3>1. k \in 1 .. Len(P) /\ m \in k .. Len(P)
        BY <1>10 DEF n
      <3> QED
        BY <1>1, <3>1, SubSeqRecursiveFirst
    <2>2. (k - 1) + 1 = k
      BY <1>10
    <2> QED
      BY <1>6, <1>9, <2>1, <2>2
  <1> HIDE DEF d, f, m
  <1>13. (k - 1) + Len(d.packets) = m /\ d.pending = SubSeq(w, Extent(e, m) + 1, r)
    BY <1>6, <1>9, <1>11
  <1> QED
    BY <1>6, <1>12, <1>13 DEF Parsed, d, q, a, w, P, n

\* The deframer finds exactly the packets that have arrived completely, wherever in
\* the stream, between two packets, its buffer begins.
LEMMA DeframerExact ==
  ASSUME NEW e \in 1 .. MaxEncoders, NEW k \in 0 .. Len(Packets[e]),
         NEW r \in 0 .. Len(Wire[e]), Extent(e, k) <= r
  PROVE  Parsed(e, k, r)
  <1> DEFINE n == Len(Packets[e])
             B == {j \in 0 .. n : Extent(e, j) <= r /\ ~Parsed(e, j, r)}
  <1>1. n \in Nat
    BY WorkerOutput
  <1>2. SUFFICES ASSUME B # {} PROVE FALSE
    OBVIOUS
  <1>3. PICK j \in B : \A i \in B : i <= j
    <2>1. B \in SUBSET (0 .. n)
      OBVIOUS
    <2> HIDE DEF B, n
    <2> QED
      BY <1>1, <1>2, <2>1, LargestNumber
  <1>4. j \in 0 .. n /\ Extent(e, j) <= r /\ ~Parsed(e, j, r)
    BY <1>3
  <1>5. j # n
    BY <1>4, JunkParsed
  <1>6. j + 1 \in 1 .. n /\ j + 1 \in 0 .. n /\ j \in Nat /\ (j + 1) - 1 = j
    BY <1>1, <1>4, <1>5
  <1>7. j + 1 \notin B
    <2> HIDE DEF B
    <2> QED
      BY <1>3, <1>6
  <1>8. CASE Extent(e, j + 1) <= r
    <2>1. Parsed(e, j + 1, r)
      BY <1>6, <1>7, <1>8
    <2> DEFINE i == j + 1
    <2>2. i \in 1 .. Len(Packets[e]) /\ Parsed(e, i, r) /\ Extent(e, i) <= r
      BY <1>6, <1>8, <2>1
    <2> HIDE DEF i, B
    <2>3. Parsed(e, i - 1, r)
      BY <2>2, ParsedMore
    <2> QED
      BY <1>4, <1>6, <2>3 DEF i
  <1>9. CASE ~(Extent(e, j + 1) <= r)
    <2> DEFINE i == j + 1
    <2>0. i \in 1 .. Len(Packets[e]) /\ i - 1 = j /\ Extent(e, i - 1) <= r
      BY <1>4, <1>6
    <2>1. r < Extent(e, j + 1)
      <3>1. Extent(e, j + 1) \in Nat
        BY <1>6, Extents
      <3>2. r \in Int
        BY WireBytes, LenProperties
      <3> QED
        BY <1>9, <3>1, <3>2
    <2>2. ~Complete(SubSeq(Wire[e], Extent(e, j) + 1, r))
      <3>1. r < Extent(e, i)
        BY <2>1
      <3> HIDE DEF i, B
      <3>2. ~Complete(SubSeq(Wire[e], Extent(e, i - 1) + 1, r))
        BY <2>0, <3>1, PacketParsed
      <3> QED
        BY <2>0, <3>2
    <2>3. Parsed(e, j, r)
      BY <1>4, <2>1, <2>2, ParsedNone
    <2> QED
      BY <1>4, <2>3
  <1> QED
    BY <1>8, <1>9

-----------------------------------------------------------------------------

\* The deframer of one worker: the packets handed on, the bytes buffered and the
\* number of bytes that have arrived.
Frames(e, h, p, r) ==
  LET k == Len(h) IN
  /\ r \in 0 .. Len(Wire[e])
  /\ k \in 0 .. Len(Packets[e])
  /\ h = SubSeq(Packets[e], 1, k)
  /\ Extent(e, k) <= r
  /\ p = SubSeq(Wire[e], Extent(e, k) + 1, r)
  /\ k < Len(Packets[e]) => r < Extent(e, k + 1)

\* Before the first byte.
LEMMA FramesInitial ==
  ASSUME NEW e \in 1 .. MaxEncoders PROVE Frames(e, <<>>, <<>>, 0)
  <1>1. Len(Packets[e]) \in Nat /\ Extent(e, 0) = 0
    BY WorkerOutput, Extents
  <1>2. Wire[e] \in Seq(Byte) /\ Len(Wire[e]) \in Nat
    BY WireBytes, LenProperties
  <1>3. SubSeq(Packets[e], 1, 0) = <<>> /\ SubSeq(Wire[e], 0 + 1, 0) = <<>> /\ Len(<<>>) = 0
    BY SubSeqEmpty
  <1>4. 0 < Len(Packets[e]) => 0 < Extent(e, 0 + 1)
    <2>1. SUFFICES ASSUME 0 < Len(Packets[e]) PROVE 0 < Extent(e, 1)
      OBVIOUS
    <2>2. 1 \in 1 .. Len(Packets[e]) /\ 1 - 1 = 0
      BY <1>1, <2>1
    <2>3. Extent(e, 1) = Extent(e, 1 - 1) + 2 + Len(Packets[e][1]) /\ Len(Packets[e][1]) \in Nat
      BY <2>2, Extents, WorkerOutput
    <2> QED
      BY <1>1, <2>2, <2>3
  <1> QED
    BY <1>1, <1>2, <1>3, <1>4 DEF Frames

\* The next c bytes, put behind those buffered, keep it exact.
LEMMA FramesStep ==
  ASSUME NEW e \in 1 .. MaxEncoders, NEW h, NEW p, NEW r, NEW c \in 1 .. Len(Wire[e]) - r,
         Frames(e, h, p, r)
  PROVE  LET b == p \o SubSeq(Wire[e], r + 1, r + c)
             d == deframe[b]
         IN b \in Seq(Byte) /\ Frames(e, h \o d.packets, d.pending, r + c)
  <1> DEFINE P == Packets[e]
             n == Len(P)
             w == Wire[e]
             k == Len(h)
             a == Extent(e, k)
             s == r + c
             b == p \o SubSeq(w, r + 1, s)
             d == deframe[b]
             m == k + Len(d.packets)
  <1>1. /\ r \in 0 .. Len(w) /\ k \in 0 .. n /\ h = SubSeq(P, 1, k) /\ a <= r
        /\ p = SubSeq(w, a + 1, r)
    BY DEF Frames
  <1>2. w \in Seq(Byte) /\ Len(w) \in Nat /\ P \in Seq(Seq(Byte)) /\ n \in Nat /\ a \in Nat
    BY <1>1, WireBytes, LenProperties, WorkerOutput, Extents
  <1>3. r \in Nat /\ s \in Nat /\ r <= s /\ s <= Len(w) /\ a <= s /\ s \in 0 .. Len(w) /\ k \in Nat /\ k <= n
    BY <1>1, <1>2
  <1> HIDE DEF s
  <1>4. b = SubSeq(w, a + 1, s)
    <2> HIDE DEF w, a, k, P, n
    <2>1. w \in Seq(Byte) /\ a \in Nat /\ r \in Nat /\ s \in Nat /\ a <= r /\ r <= s /\ s <= Len(w)
      BY <1>1, <1>2, <1>3
    <2>2. SubSeq(w, a + 1, r) \o SubSeq(w, r + 1, s) = SubSeq(w, a + 1, s)
      BY <2>1, SliceJoin, Zenon
    <2> QED
      BY <1>1, <2>2
  <1>5. b \in Seq(Byte)
    <2> HIDE DEF w, a, k, P, n, b
    <2> QED
      BY <1>2, <1>3, <1>4, Slice
  <1>6. Parsed(e, k, s)
    BY <1>1, <1>3, DeframerExact
  <1>7. /\ m \in 0 .. n /\ d.packets = SubSeq(P, k + 1, m) /\ Extent(e, m) <= s
        /\ d.pending = SubSeq(w, Extent(e, m) + 1, s) /\ (m < n => s < Extent(e, m + 1))
    <2> HIDE DEF b
    <2> QED
      BY <1>4, <1>6 DEF Parsed
  <1>8. d.packets \in Seq(RtpPacket) /\ Len(d.packets) \in Nat
    <2>1. d \in Deframed
      BY <1>5, DeframeType
    <2> HIDE DEF d
    <2>2. d.packets \in Seq(RtpPacket)
      BY <2>1 DEF Deframed
    <2> QED
      BY <2>2, LenProperties
  <1> HIDE DEF d, b
  <1>9. k <= m /\ m \in Nat /\ m <= n
    <2>1. m \in Nat /\ k <= m
      BY <1>3, <1>8
    <2> HIDE DEF m, n
    <2> QED
      BY <1>2, <1>7, <2>1
  <1> HIDE DEF P, n, w, k, a, m
  <1>10. h \o d.packets = SubSeq(P, 1, m)
    <2>1. SubSeq(P, 0 + 1, k) \o SubSeq(P, k + 1, m) = SubSeq(P, 0 + 1, m)
      <3>1. P \in Seq(Seq(Byte)) /\ 0 \in Nat /\ k \in Nat /\ m \in Nat /\ 0 <= k /\ k <= m /\ m <= Len(P)
        BY <1>2, <1>3, <1>9 DEF n
      <3> QED
        BY <3>1, SliceJoin, Zenon
    <2> QED
      BY <1>1, <1>7, <2>1
  <1>11. Len(h \o d.packets) = m
    <2>1. Len(SubSeq(P, 0 + 1, m)) = m - 0
      <3>1. 0 <= m /\ m <= Len(P)
        BY <1>9 DEF n
      <3> QED
        BY <1>2, <1>9, <3>1, Slice
    <2> QED
      BY <1>9, <1>10, <2>1
  <1>12. Frames(e, h \o d.packets, d.pending, s)
    BY <1>3, <1>7, <1>10, <1>11 DEF Frames, P, n, w
  <1> QED
    BY <1>5, <1>12 DEF d, b, s, w

-----------------------------------------------------------------------------

\* Encoders are only ever added.
LEMMA AddMade ==
  ASSUME NEW s \in Source, NEW v
  PROVE  add(s, v).made >= s.made
  <1> PICK viewers : viewers = s.viewers \cup {v}
    OBVIOUS
  <1> PICK a : a = [s EXCEPT !.viewers = viewers, !.grace = FALSE]
    OBVIOUS
  <1>1. a.made = s.made /\ s.made \in Nat /\ a.release = s.release /\ a.waiting = s.waiting
    BY SourceFields DEF Source
  <1>2. add(s, v) = IF s.phase \in {"idle", "failed"} THEN begin(a)
                    ELSE IF s.phase = "active" THEN requestKeyframe(a) ELSE a
    BY DEF add
  <1> PICK b : b = [a EXCEPT !.phase = "starting", !.deadline = TRUE]
    OBVIOUS
  <1>3. b.made = s.made /\ [b EXCEPT !.waiting = @ + 1].made = s.made
        /\ CreateEncoder(b).made = s.made + 1
    BY <1>1 DEF CreateEncoder, Source
  <1>4. begin(a) = IF a.release # 0 THEN [b EXCEPT !.waiting = @ + 1] ELSE CreateEncoder(b)
    BY DEF begin
  <1>5. begin(a).made \in {s.made, s.made + 1}
    BY <1>3, <1>4
  <1>6. requestKeyframe(a).made = s.made
    BY <1>1 DEF requestKeyframe, Source
  <1>7. add(s, v).made \in {s.made, s.made + 1}
    BY <1>1, <1>2, <1>5, <1>6
  <1> QED
    BY <1>1, <1>7

\* The end of a release creates encoders or none.
LEMMA StoppedMade ==
  ASSUME NEW s \in Source
  PROVE  stopped(s).made >= s.made
  <1> PICK live : live = s.live \ {s.release}
    OBVIOUS
  <1> PICK r : r = [s EXCEPT !.live = live, !.release = 0]
    OBVIOUS
  <1>1. r.made = s.made /\ r.waiting = s.waiting /\ s.made \in Nat /\ s.waiting \in Nat
    BY SourceFields DEF Source
  <1>2. stopped(s) = resume(r)
    BY DEF stopped
  <1>3. [r EXCEPT !.waiting = 0].made = s.made
    BY <1>1 DEF Source
  <1> PICK f : f = [r EXCEPT !.waiting = 0, !.made = @ + r.waiting,
                 !.encoder = IF r.waiting > 0 THEN r.made + r.waiting ELSE @,
                 !.live = @ \cup (r.made + 1 .. r.made + r.waiting)]
    OBVIOUS
  <1>4. f.made = s.made + s.waiting
    BY <1>1 DEF Source
  <1>5. resume(r) = IF r.phase = "starting" /\ r.viewers # {} THEN f ELSE [r EXCEPT !.waiting = 0]
    BY DEF resume
  <1>6. resume(r).made \in {s.made, s.made + s.waiting}
    BY <1>3, <1>4, <1>5
  <1> QED
    BY <1>1, <1>2, <1>6

\* A step of the sources other than a packet is one of the media plane, and no source
\* forgets an encoder.
LEMMA SourceStepIsSound ==
  ASSUME MediaInv, Close \/ \E t \in Tracks : SourceStep(t)
  PROVE  MediaInv' /\ Spaced /\ \A t \in Tracks : src'[t].made >= src[t].made
  <1>0. /\ src \in [Tracks -> Source] /\ closed \in BOOLEAN
        /\ \A t \in Tracks : src[t] \in Source /\ src[t].made \in Nat
    BY SourceFields DEF MediaInv, Plane
  <1>1. Next
    BY DEF Next, SourceStep, Timers, Workers, Requests
  <1>2. MediaInv' /\ (Spaced \/ UNCHANGED mediaVars)
    BY <1>1, MediaStep
  <1>3. Spaced
    BY <1>2 DEF Spaced, mediaVars
  <1>4. ASSUME NEW t \in Tracks, NEW r, src' = [src EXCEPT ![t] = r], r.made >= src[t].made
        PROVE  \A u \in Tracks : src'[u].made >= src[u].made
    BY <1>0, <1>4
  <1>5. ASSUME Close PROVE \A t \in Tracks : src'[t].made >= src[t].made
    <2>1. \A t \in Tracks : src'[t].made = src[t].made
      <3>1. SUFFICES ASSUME NEW t \in Tracks PROVE src'[t].made = src[t].made
        OBVIOUS
      <3> PICK s : s = [src[t] EXCEPT !.viewers = {}]
        OBVIOUS
      <3>2. s \in Source /\ s.made = src[t].made /\ src'[t] = finish(s, "idle")
        BY <1>0, <1>5 DEF Close, closeSource, Source
      <3>3. finish(s, "idle").made = s.made
        BY <3>2, FinishFields
      <3> QED
        BY <3>2, <3>3
    <2>2. \A n \in Nat : n >= n
      OBVIOUS
    <2> QED
      BY <1>0, <2>1, <2>2
  <1>6. ASSUME NEW t \in Tracks, NEW v \in Viewers, Attach(t, v)
        PROVE  \A u \in Tracks : src'[u].made >= src[u].made
    <2>1. src' = [src EXCEPT ![t] = add(src[t], v)]
      BY <1>6 DEF Attach
    <2> QED
      BY <1>0, <1>4, <2>1, AddMade
  <1>7. ASSUME NEW t \in Tracks, StopEnds(t)
        PROVE  \A u \in Tracks : src'[u].made >= src[u].made
    <2>1. src' = [src EXCEPT ![t] = stopped(src[t])]
      BY <1>7 DEF StopEnds
    <2> QED
      BY <1>0, <1>4, <2>1, StoppedMade
  <1>8. ASSUME NEW t \in Tracks, NEW v \in Viewers, Detach(t, v)
        PROVE  \A u \in Tracks : src'[u].made >= src[u].made
    <2>1. src' = [src EXCEPT ![t] = removeAll(src[t], {v})]
      BY <1>8 DEF Detach
    <2>2. removeAll(src[t], {v}).made = src[t].made
      BY <1>0 DEF removeAll, Source
    <2> QED
      BY <1>0, <1>4, <2>1, <2>2
  <1>9. ASSUME NEW t \in Tracks, NEW s \in Source, s.made = src[t].made,
               NEW ph \in {"idle", "failed"}, src' = [src EXCEPT ![t] = finish(s, ph)]
        PROVE  \A u \in Tracks : src'[u].made >= src[u].made
    <2>1. finish(s, ph).made = src[t].made
      BY <1>9, FinishFields
    <2> QED
      BY <1>0, <1>4, <1>9, <2>1
  <1>10. ASSUME NEW t \in Tracks, GraceExpires(t)
         PROVE  \A u \in Tracks : src'[u].made >= src[u].made
    <2> PICK s : s = [src[t] EXCEPT !.grace = FALSE]
      OBVIOUS
    <2>1. src' = [src EXCEPT ![t] = finish(s, "idle")]
      BY <1>10 DEF GraceExpires
    <2>2. s \in Source /\ s.made = src[t].made
      BY <1>0 DEF Source
    <2> QED
      BY <1>9, <2>1, <2>2
  <1>11. ASSUME NEW t \in Tracks, StartDeadline(t)
         PROVE  \A u \in Tracks : src'[u].made >= src[u].made
    <2>1. src' = [src EXCEPT ![t] = finish(src[t], "failed")]
      BY <1>11 DEF StartDeadline
    <2> QED
      BY <1>0, <1>9, <2>1
  <1>12. ASSUME NEW t \in Tracks, NEW e \in src[t].live, WorkerFails(t, e)
         PROVE  \A u \in Tracks : src'[u].made >= src[u].made
    <2> PICK z : z = src[t].settled \cup {e}
      OBVIOUS
    <2> PICK s : s = [src[t] EXCEPT !.settled = z]
      OBVIOUS
    <2>1. src' = [src EXCEPT ![t] = finish(s, "failed")]
      BY <1>12 DEF WorkerFails
    <2>2. z \subseteq 1 .. MaxEncoders
      BY <1>0, SourceFields
    <2>3. s \in Source /\ s.made = src[t].made
      BY <1>0, <2>2 DEF Source
    <2> QED
      BY <1>9, <2>1, <2>3
  <1>13. ASSUME NEW t \in Tracks, CoolingEnds(t) \/ \E e \in src[t].live : WorkerStarted(t, e)
         PROVE  \A u \in Tracks : src'[u].made >= src[u].made
    <2>1. CASE CoolingEnds(t)
      <3>1. src' = [src EXCEPT ![t] = [src[t] EXCEPT !.cooling = FALSE]]
        BY <1>0, <2>1 DEF CoolingEnds
      <3>2. [src[t] EXCEPT !.cooling = FALSE].made = src[t].made
        BY <1>0 DEF Source
      <3> QED
        BY <1>0, <1>4, <3>1, <3>2
    <2>2. CASE \E e \in src[t].live : WorkerStarted(t, e)
      <3> PICK e \in src[t].live : WorkerStarted(t, e)
        BY <2>2
      <3> PICK z : z = src[t].settled \cup {e}
        OBVIOUS
      <3>1. src' = [src EXCEPT ![t] = [src[t] EXCEPT !.settled = z]]
        BY <1>0 DEF WorkerStarted
      <3>2. [src[t] EXCEPT !.settled = z].made = src[t].made
        BY <1>0 DEF Source
      <3> QED
        BY <1>0, <1>4, <3>1, <3>2
    <2> QED
      BY <1>13, <2>1, <2>2
  <1>14. \A u \in Tracks : src'[u].made >= src[u].made
    <2>1. ASSUME NEW t \in Tracks, SourceStep(t)
          PROVE  \A u \in Tracks : src'[u].made >= src[u].made
      BY <1>6, <1>7, <1>8, <1>10, <1>11, <1>12, <1>13, <2>1 DEF SourceStep
    <2> QED
      BY <1>5, <2>1
  <1> QED
    BY <1>2, <1>3, <1>14

\* What a chunk of bytes does to a source: the first packet of the current encoder makes
\* it active, and a broken stream fails it.
LEMMA ArrivalIsSound ==
  ASSUME MediaInv, NEW t \in Tracks, NEW e \in 1 .. MaxEncoders, NEW s, NEW f,
         s = src[t] \/ (fromCurrent(t, e) /\ s = deliver(src[t])),
         f = s \/ (FailureDue(t, e) /\ f = finish([s EXCEPT !.settled = @ \cup {e}], "failed"))
  PROVE  Sound(f, closed) /\ (running(f) => running(src[t])) /\ f.made = src[t].made
  <1>1. /\ Sound(src[t], closed) /\ src[t] \in Source /\ closed \in BOOLEAN
        /\ src[t].settled \subseteq 1 .. MaxEncoders
    BY SourceFields DEF MediaInv, Plane
  <1>2. /\ Sound(s, closed) /\ (running(s) => running(src[t])) /\ s \in Source
        /\ s.made = src[t].made /\ s.release = src[t].release /\ s.settled = src[t].settled
    <2>1. CASE s = src[t]
      BY <1>1, <2>1
    <2>2. CASE fromCurrent(t, e) /\ s = deliver(src[t])
      <3>1. src[t].encoder # 0
        BY <2>2, EncoderNumbers DEF fromCurrent
      <3>2. Sound(s, closed) /\ (running(s) => running(src[t]))
        BY <1>1, <2>2, <3>1, DeliverIsSound
      <3>3. s.made = src[t].made /\ s.release = src[t].release /\ s.settled = src[t].settled
        BY <1>1, <2>2 DEF deliver, Source
      <3> QED
        BY <3>2, <3>3 DEF Sound
    <2> QED
      BY <2>1, <2>2
  <1>3. CASE f = s
    BY <1>2, <1>3
  <1>4. CASE FailureDue(t, e) /\ f = finish([s EXCEPT !.settled = @ \cup {e}], "failed")
    <2> PICK z : z = s.settled \cup {e}
      OBVIOUS
    <2> PICK r : r = [s EXCEPT !.settled = z]
      OBVIOUS
    <2>1. f = finish(r, "failed") /\ z \subseteq 1 .. MaxEncoders
      BY <1>1, <1>2, <1>4
    <2>2. /\ r \in Source /\ r.encoder = s.encoder /\ r.release = s.release
          /\ r.waiting = s.waiting /\ r.live = s.live /\ r.made = s.made
      BY <1>2, <2>1 DEF Source
    <2>3. SlowStop \/ s.release = 0
      <3>1. e \in src[t].live
        BY <1>4 DEF FailureDue
      <3> QED
        BY <1>2, <1>4, <3>1, FailureCauses
    <2>4. Sound(f, closed)
      BY <1>1, <1>2, <2>1, <2>2, <2>3, FinishIsSound
    <2>5. running(f) => running(s)
      BY <1>1, <1>2, <2>1, <2>2, FinishRuns
    <2>6. f.made = r.made
      BY <2>1, <2>2, FinishFields
    <2> QED
      BY <1>2, <2>2, <2>4, <2>5, <2>6
  <1> QED
    BY <1>3, <1>4

\* A new encoder starts a numbering of its own, behind everything written so far.
LEMMA FreshContinues ==
  ASSUME NEW n, NEW o, NEW m \in Nat, NEW k \in Nat, Track(n, o, m), k > m
  PROVE  Track(fresh(n), o, k)
  <1> PICK f : f = fresh(n)
    OBVIOUS
  <1>1. /\ f \in Numbering /\ f.sequence = n.sequence /\ f.emitted = n.emitted
        /\ f.fresh = TRUE
    <2>1. n \in Numbering
      BY DEF Track
    <2> QED
      BY <2>1 DEF fresh, Numbering
  <1>2. o \in Seq(Written) /\ Len(o) \in Nat
    BY LenProperties DEF Track
  <1>3. \A i \in 1 .. Len(o) : o[i].encoder < k
    <2>1. SUFFICES ASSUME NEW i \in 1 .. Len(o) PROVE o[i].encoder < k
      OBVIOUS
    <2>2. o[i] \in Written /\ o[i].encoder <= m
      BY <1>2, ElementOfSeq DEF Track
    <2>3. o[i].encoder \in Nat
      BY <2>2, EncoderNumbers DEF Written
    <2> QED
      BY <2>2, <2>3
  <1>4. \A i \in 1 .. Len(o) : o[i].encoder <= k
    <2>1. SUFFICES ASSUME NEW i \in 1 .. Len(o) PROVE o[i].encoder <= k
      OBVIOUS
    <2>2. o[i] \in Written /\ o[i].encoder < k
      BY <1>2, <1>3, ElementOfSeq
    <2>3. o[i].encoder \in Nat
      BY <2>2, EncoderNumbers DEF Written
    <2> QED
      BY <2>2, <2>3
  <1>5. ASSUME o # <<>> PROVE Continues(f, o[Len(o)], k)
    <2>1. Len(o) \in 1 .. Len(o)
      <3>1. Len(o) # 0
        BY <1>2, <1>5, EmptySeq
      <3> QED
        BY <1>2, <3>1
    <2>2. Continues(n, o[Len(o)], m)
      BY <1>5 DEF Track
    <2> QED
      BY <1>1, <1>3, <2>1, <2>2 DEF Continues
  <1>6. \A i \in 1 .. Len(o) - 1 : Follows(o[i], o[i + 1])
    BY DEF Track
  <1>7. Track(f, o, k)
    BY <1>1, <1>2, <1>4, <1>5, <1>6 DEF Track
  <1> QED
    BY <1>7

\* The inductive invariant of the media plane with its bytes.
StreamInv ==
  /\ MediaInv
  /\ numbering \in [Tracks -> Numbering]
  /\ out \in [Tracks -> Seq(Written)]
  /\ read \in [Tracks -> [1 .. MaxEncoders -> Nat]]
  /\ pending \in [Tracks -> [1 .. MaxEncoders -> Seq(Byte)]]
  /\ handed \in [Tracks -> [1 .. MaxEncoders -> Seq(Seq(Byte))]]
  /\ \A t \in Tracks : Track(numbering[t], out[t], src[t].made)
  /\ \A t \in Tracks : \A e \in 1 .. MaxEncoders :
       Frames(e, handed[t][e], pending[t][e], read[t][e])

\* The initial state.
LEMMA StreamInitial == StreamInit => StreamInv
  <1> SUFFICES ASSUME StreamInit PROVE StreamInv
    OBVIOUS
  <1>1. MediaInv
    BY MediaInit DEF StreamInit
  <1> DEFINE zero == [sequence |-> 0, emitted |-> 0, shift |-> 0, fresh |-> TRUE]
  <1>2. zero \in Numbering /\ zero.fresh
    BY StreamConstants DEF Numbering, Byte
  <1> HIDE DEF zero
  <1>3. /\ numbering = [t \in Tracks |-> zero] /\ out = [t \in Tracks |-> <<>>]
        /\ read = [t \in Tracks |-> [e \in 1 .. MaxEncoders |-> 0]]
        /\ pending = [t \in Tracks |-> [e \in 1 .. MaxEncoders |-> <<>>]]
        /\ handed = [t \in Tracks |-> [e \in 1 .. MaxEncoders |-> <<>>]]
    BY DEF StreamInit, zero
  <1>4. <<>> \in Seq(Written) /\ <<>> \in Seq(Byte) /\ <<>> \in Seq(Seq(Byte)) /\ Len(<<>>) = 0
    BY EmptySeq
  <1>5. /\ numbering \in [Tracks -> Numbering] /\ out \in [Tracks -> Seq(Written)]
        /\ read \in [Tracks -> [1 .. MaxEncoders -> Nat]]
        /\ pending \in [Tracks -> [1 .. MaxEncoders -> Seq(Byte)]]
        /\ handed \in [Tracks -> [1 .. MaxEncoders -> Seq(Seq(Byte))]]
    BY <1>2, <1>3, <1>4
  <1>6. ASSUME NEW t \in Tracks PROVE Track(numbering[t], out[t], src[t].made)
    <2>1. numbering[t] = zero /\ out[t] = <<>>
      BY <1>3
    <2> QED
      BY <1>2, <1>4, <2>1 DEF Track
  <1>7. ASSUME NEW t \in Tracks, NEW e \in 1 .. MaxEncoders
        PROVE  Frames(e, handed[t][e], pending[t][e], read[t][e])
    <2>1. handed[t][e] = <<>> /\ pending[t][e] = <<>> /\ read[t][e] = 0
      BY <1>3
    <2> QED
      BY <2>1, FramesInitial
  <1> QED
    BY <1>1, <1>5, <1>6, <1>7 DEF StreamInv

\* A step of the sources leaves what was written and buffered, and renews the numbering
\* of a track exactly where an encoder was created.
LEMMA RenewStep ==
  ASSUME StreamInv, Close \/ \E t \in Tracks : SourceStep(t), Renew
  PROVE  StreamInv' /\ Spaced
  <1>1. MediaInv' /\ Spaced /\ \A t \in Tracks : src'[t].made >= src[t].made
    BY SourceStepIsSound DEF StreamInv
  <1>2. /\ read' = read /\ pending' = pending /\ handed' = handed /\ out' = out
        /\ numbering' = [t \in Tracks |->
             IF src'[t].made > src[t].made THEN fresh(numbering[t]) ELSE numbering[t]]
    BY DEF Renew
  <1>3. ASSUME NEW t \in Tracks
        PROVE  Track(numbering'[t], out'[t], src'[t].made) /\ numbering'[t] \in Numbering
    <2>1. src[t].made \in Nat /\ src'[t].made \in Nat /\ src'[t].made >= src[t].made
      <3>1. src[t] \in Source /\ src'[t] \in Source
        BY <1>1 DEF StreamInv, MediaInv, Plane
      <3> QED
        BY <1>1, <3>1, SourceFields
    <2>2. Track(numbering[t], out[t], src[t].made)
      BY DEF StreamInv
    <2>3. CASE src'[t].made > src[t].made
      <3>1. Track(fresh(numbering[t]), out[t], src'[t].made)
        BY <2>1, <2>2, <2>3, FreshContinues
      <3> QED
        BY <1>2, <2>3, <3>1 DEF Track
    <2>4. CASE ~(src'[t].made > src[t].made)
      <3>1. src'[t].made = src[t].made
        BY <2>1, <2>4
      <3>2. numbering'[t] = numbering[t] /\ out'[t] = out[t]
        BY <1>2, <2>4
      <3> QED
        BY <2>2, <3>1, <3>2 DEF Track
    <2> QED
      BY <2>3, <2>4
  <1>4. numbering' \in [Tracks -> Numbering]
    BY <1>2, <1>3
  <1>5. \A t \in Tracks : \A e \in 1 .. MaxEncoders :
          Frames(e, handed'[t][e], pending'[t][e], read'[t][e])
    BY <1>2 DEF StreamInv
  <1>6. /\ out' \in [Tracks -> Seq(Written)]
        /\ read' \in [Tracks -> [1 .. MaxEncoders -> Nat]]
        /\ pending' \in [Tracks -> [1 .. MaxEncoders -> Seq(Byte)]]
        /\ handed' \in [Tracks -> [1 .. MaxEncoders -> Seq(Seq(Byte))]]
    BY <1>2 DEF StreamInv
  <1> QED
    BY <1>1, <1>3, <1>4, <1>5, <1>6 DEF StreamInv

\* A chunk cut anywhere: the packets that end in it are delivered if their encoder is
\* the current one.
LEMMA ArriveStep ==
  ASSUME StreamInv, NEW t \in Tracks, NEW e \in 1 .. MaxEncoders,
         NEW c \in 1 .. Len(Wire[e]) - read[t][e], Arrive(t, e, c)
  PROVE  StreamInv' /\ Spaced
  <1> DEFINE b == pending[t][e] \o SubSeq(Wire[e], read[t][e] + 1, read[t][e] + c)
             d == deframe[b]
             s == IF d.packets # <<>> /\ fromCurrent(t, e) THEN deliver(src[t]) ELSE src[t]
             f == IF d.broken /\ FailureDue(t, e)
                  THEN finish([s EXCEPT !.settled = @ \cup {e}], "failed") ELSE s
  <1>1. /\ read' = [read EXCEPT ![t][e] = @ + c]
        /\ pending' = [pending EXCEPT ![t][e] = d.pending]
        /\ handed' = [handed EXCEPT ![t][e] = @ \o d.packets]
        /\ Delivered(t, e, d.packets)
        /\ src' = [src EXCEPT ![t] = f] /\ closed' = closed
    BY DEF Arrive
  <1>2. MediaInv /\ src \in [Tracks -> Source] /\ closed \in BOOLEAN
    BY DEF StreamInv, MediaInv, Plane
  <1>3. /\ s = src[t] \/ (fromCurrent(t, e) /\ s = deliver(src[t]))
        /\ f = s \/ (FailureDue(t, e) /\ f = finish([s EXCEPT !.settled = @ \cup {e}], "failed"))
    OBVIOUS
  <1>4. Sound(f, closed) /\ (running(f) => running(src[t])) /\ f.made = src[t].made
    <2> HIDE DEF s, f
    <2> QED
      BY <1>2, <1>3, ArrivalIsSound
  <1>5. b \in Seq(Byte) /\ Frames(e, handed[t][e] \o d.packets, d.pending, read[t][e] + c)
    <2>1. Frames(e, handed[t][e], pending[t][e], read[t][e])
      BY DEF StreamInv
    <2> QED
      BY <2>1, FramesStep
  <1> HIDE DEF f, s
  <1>6. MediaInv' /\ Spaced /\ \A u \in Tracks : src'[u].made = src[u].made
    <2>1. Plane([src EXCEPT ![t] = f], closed)
      BY <1>2, <1>4, PlaneUpdate DEF MediaInv
    <2>2. MediaInv'
      BY <1>1, <2>1 DEF MediaInv
    <2>3. \A u \in Tracks : src'[u].made = src[u].made
      BY <1>1, <1>2, <1>4
    <2> QED
      BY <2>2, <2>3 DEF Spaced
  <1>7. d \in Deframed
    BY <1>5, DeframeType
  <1> HIDE DEF b, d
  <1>8. d.packets \in Seq(RtpPacket) /\ d.pending \in Seq(Byte) /\ d.packets \in Seq(Seq(Byte))
    <2>1. d.packets \in Seq(RtpPacket) /\ d.pending \in Seq(Byte)
      BY <1>7 DEF Deframed
    <2>2. RtpPacket \subseteq Seq(Byte)
      BY DEF RtpPacket
    <2> QED
      BY <2>1, <2>2
  <1>9. /\ read \in [Tracks -> [1 .. MaxEncoders -> Nat]]
        /\ pending \in [Tracks -> [1 .. MaxEncoders -> Seq(Byte)]]
        /\ handed \in [Tracks -> [1 .. MaxEncoders -> Seq(Seq(Byte))]]
        /\ numbering \in [Tracks -> Numbering] /\ out \in [Tracks -> Seq(Written)]
    BY DEF StreamInv
  <1>10. read[t][e] + c \in Nat /\ handed[t][e] \o d.packets \in Seq(Seq(Byte))
    <2>1. read[t][e] \in Nat /\ handed[t][e] \in Seq(Seq(Byte))
      BY <1>9
    <2>2. c \in Nat
      <3>1. Len(Wire[e]) \in Nat
        BY WireBytes, LenProperties
      <3> QED
        BY <2>1, <3>1
    <2>3. handed[t][e] \o d.packets \in Seq(Seq(Byte))
      BY <1>8, <2>1, ConcatProperties
    <2> QED
      BY <2>1, <2>2, <2>3
  <1>11. /\ read' \in [Tracks -> [1 .. MaxEncoders -> Nat]]
         /\ pending' \in [Tracks -> [1 .. MaxEncoders -> Seq(Byte)]]
         /\ handed' \in [Tracks -> [1 .. MaxEncoders -> Seq(Seq(Byte))]]
    BY <1>1, <1>8, <1>9, <1>10
  <1>12. ASSUME NEW u \in Tracks, NEW g \in 1 .. MaxEncoders
         PROVE  Frames(g, handed'[u][g], pending'[u][g], read'[u][g])
    <2>1. CASE u = t /\ g = e
      <3>1. /\ handed'[u][g] = handed[t][e] \o d.packets /\ pending'[u][g] = d.pending
            /\ read'[u][g] = read[t][e] + c
        BY <1>1, <1>9, <2>1
      <3> QED
        BY <1>5, <2>1, <3>1 DEF d
    <2>2. CASE ~(u = t /\ g = e)
      <3>1. /\ handed'[u][g] = handed[u][g] /\ pending'[u][g] = pending[u][g]
            /\ read'[u][g] = read[u][g]
        BY <1>1, <1>9, <2>2
      <3>2. Frames(g, handed[u][g], pending[u][g], read[u][g])
        BY DEF StreamInv
      <3> QED
        BY <3>1, <3>2
    <2> QED
      BY <2>1, <2>2
  <1>13. \A u \in Tracks : Track(numbering[u], out[u], src[u].made)
    BY DEF StreamInv
  <1>14. /\ numbering' \in [Tracks -> Numbering] /\ out' \in [Tracks -> Seq(Written)]
         /\ \A u \in Tracks : Track(numbering'[u], out'[u], src'[u].made)
    <2>1. CASE ~fromCurrent(t, e)
      <3>1. numbering' = numbering /\ out' = out
        BY <1>1, <2>1 DEF Delivered
      <3> QED
        BY <1>6, <1>9, <1>13, <3>1
    <2>2. CASE fromCurrent(t, e)
      <3>1. src[t].made = e
        <4>1. src[t] \in Source /\ Coherent(src[t]) /\ src[t].encoder = e
          BY <1>2, <2>2 DEF MediaInv, Plane, Sound, fromCurrent
        <4>2. e # 0
          BY EncoderNumbers
        <4> QED
          BY <4>1, <4>2 DEF Coherent
      <3> DEFINE z == <<numbering[t], out[t]>>
                 done == Writing(e, z, d.packets)
      <3>2. z \in Tracked(e)
        <4>1. Track(numbering[t], out[t], e)
          BY <1>13, <3>1
        <4>2. numbering[t] \in Numbering /\ out[t] \in Seq(Written)
          BY <1>9
        <4> QED
          BY <4>1, <4>2 DEF Tracked
      <3>3. /\ numbering' = [numbering EXCEPT ![t] = done[1]]
            /\ out' = [out EXCEPT ![t] = done[2]]
        BY <1>1, <2>2 DEF Delivered, Writing
      <3> HIDE DEF z
      <3>4. done \in Tracked(e)
        BY <1>8, <3>2, DeliveryContinues
      <3> HIDE DEF done
      <3>5. done[1] \in Numbering /\ done[2] \in Seq(Written) /\ Track(done[1], done[2], e)
        BY <3>4 DEF Tracked
      <3>6. ASSUME NEW u \in Tracks PROVE Track(numbering'[u], out'[u], src'[u].made)
        <4>1. CASE u = t
          <5>1. numbering'[u] = done[1] /\ out'[u] = done[2] /\ src'[u].made = e
            BY <1>6, <1>9, <3>1, <3>3, <4>1
          <5> QED
            BY <3>5, <5>1
        <4>2. CASE u # t
          <5>1. numbering'[u] = numbering[u] /\ out'[u] = out[u] /\ src'[u].made = src[u].made
            BY <1>6, <1>9, <3>3, <4>2
          <5>2. Track(numbering[u], out[u], src[u].made)
            BY <1>13
          <5> QED
            BY <5>1, <5>2
        <4> QED
          BY <4>1, <4>2
      <3> QED
        BY <1>9, <3>3, <3>5, <3>6
    <2> QED
      BY <2>1, <2>2
  <1> QED
    BY <1>6, <1>11, <1>12, <1>14 DEF StreamInv

\* Every step of the composition.
LEMMA StreamStep ==
  StreamInv /\ [StreamNext]_rtpVars => StreamInv' /\ (Spaced \/ UNCHANGED rtpVars)
  <1> SUFFICES ASSUME StreamInv, [StreamNext]_rtpVars
               PROVE  StreamInv' /\ (Spaced \/ UNCHANGED rtpVars)
    OBVIOUS
  <1>1. CASE (Close \/ \E t \in Tracks : SourceStep(t)) /\ Renew
    BY <1>1, RenewStep
  <1>2. CASE \E t \in Tracks, e \in 1 .. MaxEncoders :
               \E c \in 1 .. Len(Wire[e]) - read[t][e] : Arrive(t, e, c)
    BY <1>2, ArriveStep
  <1>3. CASE UNCHANGED rtpVars
    BY <1>3 DEF rtpVars, StreamInv, MediaInv
  <1> QED
    BY <1>1, <1>2, <1>3 DEF StreamNext

\* The media plane with its bytes keeps the invariant: every source is coherent, every
\* deframer is where its stream is, every numbering continues what was written.
THEOREM StreamInvariant == StreamSpec => []StreamInv
  BY StreamInitial, StreamStep, PTL DEF StreamSpec

\* Type correctness of the media plane with its bytes.
THEOREM StreamTypeCorrect == StreamSpec => []StreamTypeOK
  <1>1. StreamInv => StreamTypeOK
    BY DEF StreamInv, MediaInv, Plane, TypeOK, StreamTypeOK, Frames, Numbering
  <1> QED
    BY <1>1, StreamInvariant, PTL

\* However its stream is cut into chunks, the deframer hands on exactly the packets that
\* have arrived completely, unaltered and in order, and buffers the rest; for packets of
\* any admissible length, in any number.
THEOREM FramesAlwaysIntact == StreamSpec => []FramesIntact
  <1>1. StreamInv => FramesIntact
    BY DEF StreamInv, FramesIntact, Frames
  <1> QED
    BY <1>1, StreamInvariant, PTL

\* A viewer sees one stream across encoder restarts and wrap-arounds of both numbers, for
\* every modulus and every frame step.
THEOREM TrackAlwaysContinuous == StreamSpec => []ContinuousTrack
  <1>1. StreamInv => ContinuousTrack
    BY DEF StreamInv, ContinuousTrack, Track, Follows
  <1> QED
    BY <1>1, StreamInvariant, PTL

\* No source is stuck and no timer outlives its cause when packets and broken streams
\* arrive byte by byte, also after the worker was told to stop.
THEOREM StreamsNeverStuck == StreamSpec => []NoStuckSource
  <1>1. StreamInv => NoStuckSource
    BY MediaNotStuck DEF StreamInv
  <1> QED
    BY <1>1, StreamInvariant, PTL

\* Retries stay spaced when a broken stream fails the worker.
THEOREM StreamRetriesSpaced == StreamSpec => RetriesAreSpaced
  <1>1. StreamInv /\ [StreamNext]_rtpVars
        => [\A t \in Tracks : src'[t].made > src[t].made => ~src[t].cooling]_mediaVars
    <2> SUFFICES ASSUME StreamInv, [StreamNext]_rtpVars, ~UNCHANGED mediaVars,
                        NEW t \in Tracks, src'[t].made > src[t].made
                 PROVE  ~src[t].cooling
      OBVIOUS
    <2>1. Spaced
      BY StreamStep DEF rtpVars, mediaVars
    <2>2. src[t].made \in Nat
      BY SourceFields DEF StreamInv, MediaInv, Plane
    <2> QED
      BY <2>1, <2>2 DEF Spaced
  <1> QED
    BY <1>1, StreamInvariant, PTL DEF StreamSpec, RetriesAreSpaced

=============================================================================
