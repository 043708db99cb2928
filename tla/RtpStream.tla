------------------------------ MODULE RtpStream ------------------------------
(***************************************************************************)
(* The RTP bytes of the media plane: the RFC 4571 deframer of the worker   *)
(* (media/worker.ts), the delivery of its packets to the source, and the   *)
(* renumbering that makes the encoders of a track one stream               *)
(* (media/source.ts), composed with the life of those encoders.            *)
(*                                                                         *)
(* A worker writes packets, then possibly bytes that break the contract;   *)
(* they arrive in chunks cut anywhere, and may arrive after the worker was *)
(* told to stop or has exited.  A packet is a sequence of bytes that       *)
(* begins with its timestamp; its sequence number is always overwritten.   *)
(***************************************************************************)
EXTENDS MediaService, Sequences, SequencesExt

CONSTANTS
  Packets,     \* encoder -> the packets its worker writes
  Junk,        \* encoder -> the bytes that follow them
  Base,        \* number of byte values: 256
  MinPacket,   \* MIN_PACKET_BYTES
  MaxPacket,   \* MAX_PACKET_BYTES
  SeqNumbers,      \* sequence numbers: 2^16
  FrameStep    \* CLOCK_HZ / framerate; timestamps are one byte here

Byte == 0 .. Base - 1

\* Bytes that do not begin with a complete packet.
NoPacket(p) ==
  Len(p) >= 2 => LET length == p[1] * Base + p[2] IN
                 length \in MinPacket .. MaxPacket => Len(p) < 2 + length

ASSUME StreamAssumption ==
  /\ Base \in Nat \ {0} /\ SeqNumbers \in Nat \ {0} /\ FrameStep \in Byte
  /\ MinPacket \in Nat \ {0} /\ MaxPacket \in Nat
  /\ MinPacket <= MaxPacket /\ MaxPacket < Base * Base
  /\ \A e \in 1 .. MaxEncoders :
       /\ Packets[e] \in Seq(Seq(Byte)) /\ Junk[e] \in Seq(Byte)
       /\ \A i \in DOMAIN Packets[e] : Len(Packets[e][i]) \in MinPacket .. MaxPacket
       /\ NoPacket(Junk[e])

VARIABLES
  read,        \* track -> encoder -> bytes of its stream that have arrived
  pending,     \* track -> encoder -> the deframer's buffer
  handed,      \* track -> encoder -> packets given to onPacket
  numbering,   \* track -> sequence, emitted, shift, and whether origin is undefined
  out          \* track -> packets written to the viewers

streamVars == <<read, pending, handed, numbering, out>>
rtpVars == <<src, closed, read, pending, handed, numbering, out>>

-----------------------------------------------------------------------------

Framed(p) == <<Len(p) \div Base, Len(p) % Base>> \o p

\* What the worker of encoder e writes.
Wire == [e \in 1 .. MaxEncoders |->
  FoldLeft(LAMBDA bytes, p : bytes \o Framed(p), <<>>, Packets[e]) \o Junk[e]]

Rest_Lost(p, length) == <<>>

\* What follows the first packet of the buffer.
Rest(p, length) == SubSeq(p, 3 + length, Len(p))

\* The loop of frames(): the complete packets of a buffer, what stays pending, and
\* whether a length out of range was met.
deframe[p \in Seq(Byte)] ==
  LET length == p[1] * Base + p[2]
      later == deframe[Rest(p, length)]
  IN CASE Len(p) < 2 -> [packets |-> <<>>, pending |-> p, broken |-> FALSE]
       [] Len(p) >= 2 /\ length \notin MinPacket .. MaxPacket ->
            [packets |-> <<>>, pending |-> p, broken |-> TRUE]
       [] Len(p) >= 2 /\ length \in MinPacket .. MaxPacket /\ Len(p) < 2 + length ->
            [packets |-> <<>>, pending |-> p, broken |-> FALSE]
       [] OTHER -> [later EXCEPT !.packets = <<SubSeq(p, 3, 2 + length)>> \o @]

\* renumber(): the first packet of an encoder resumes one frame after the last.
renumber(n, original) ==
  LET shift == IF n.fresh THEN (n.emitted + FrameStep - original) % Base ELSE n.shift
  IN [sequence |-> (n.sequence + 1) % SeqNumbers,
      emitted |-> (original + shift) % Base,
      shift |-> shift,
      fresh |-> FALSE]

\* deliver() of one packet of encoder e, on <<numbering, packets written>>.
write(e, state, p) ==
  LET n == renumber(state[1], p[1]) IN
  <<n, Append(state[2], [encoder |-> e, packet |-> p,
                         sequence |-> state[1].sequence, timestamp |-> n.emitted])>>

fresh_Kept(n) == n

\* begin(): each encoder starts its own numbering.
fresh(n) == [n EXCEPT !.fresh = TRUE]

-----------------------------------------------------------------------------

\* The packet callback of begin(): packets of a superseded encoder are dropped.
Delivered(t, e, packets) ==
  IF fromCurrent(t, e) THEN
    LET done == FoldLeft(LAMBDA s, p : write(e, s, p), <<numbering[t], out[t]>>, packets)
    IN /\ numbering' = [numbering EXCEPT ![t] = done[1]]
       /\ out' = [out EXCEPT ![t] = done[2]]
  ELSE UNCHANGED <<numbering, out>>

\* The next n bytes of a worker: its complete packets are delivered one after the
\* other, then a broken stream fails the worker.
Arrive(t, e, n) ==
  LET d == deframe[pending[t][e] \o SubSeq(Wire[e], read[t][e] + 1, read[t][e] + n)]
      s == IF d.packets # <<>> /\ fromCurrent(t, e) THEN deliver(src[t]) ELSE src[t]
  IN
  /\ e <= src[t].made
  /\ read' = [read EXCEPT ![t][e] = @ + n]
  /\ pending' = [pending EXCEPT ![t][e] = d.pending]
  /\ handed' = [handed EXCEPT ![t][e] = @ \o d.packets]
  /\ Delivered(t, e, d.packets)
  /\ src' = [src EXCEPT ![t] =
       IF d.broken /\ FailureDue(t, e)
       THEN finish([s EXCEPT !.settled = @ \cup {e}], "failed") ELSE s]
  /\ UNCHANGED closed

\* The step of a source that may create an encoder.
Renew ==
  /\ numbering' = [t \in Tracks |->
       IF src'[t].made > src[t].made THEN fresh(numbering[t]) ELSE numbering[t]]
  /\ UNCHANGED <<read, pending, handed, out>>

-----------------------------------------------------------------------------

StreamInit ==
  /\ Init
  /\ read = [t \in Tracks |-> [e \in 1 .. MaxEncoders |-> 0]]
  /\ pending = [t \in Tracks |-> [e \in 1 .. MaxEncoders |-> <<>>]]
  /\ handed = [t \in Tracks |-> [e \in 1 .. MaxEncoders |-> <<>>]]
  /\ numbering = [t \in Tracks |-> [sequence |-> 0, emitted |-> 0, shift |-> 0, fresh |-> TRUE]]
  /\ out = [t \in Tracks |-> <<>>]

\* The steps of the media plane, except for the first packet, which Arrive refines,
\* and requests for a keyframe, which change nothing the properties speak of.
SourceStep(t) ==
  \/ GraceExpires(t) \/ StartDeadline(t) \/ CoolingEnds(t) \/ StopEnds(t)
  \/ \E v \in Viewers : Attach(t, v) \/ Detach(t, v)
  \/ \E e \in src[t].live : WorkerStarted(t, e) \/ WorkerFails(t, e)

StreamNext ==
  \/ (Close \/ \E t \in Tracks : SourceStep(t)) /\ Renew
  \/ \E t \in Tracks, e \in 1 .. MaxEncoders :
       \E n \in 1 .. Len(Wire[e]) - read[t][e] : Arrive(t, e, n)

StreamSpec == StreamInit /\ [][StreamNext]_rtpVars

\* As for MediaService: timers fire, and a worker told to stop exits.
StreamFairSpec ==
  /\ StreamSpec
  /\ \A t \in Tracks :
       /\ WF_rtpVars(GraceExpires(t) /\ Renew)
       /\ WF_rtpVars(StartDeadline(t) /\ Renew)
       /\ WF_rtpVars(StopEnds(t) /\ Renew)

-----------------------------------------------------------------------------

\* Type invariant.
StreamTypeOK ==
  /\ TypeOK
  /\ \A t \in Tracks : \A e \in 1 .. MaxEncoders :
       read[t][e] \in 0 .. Len(Wire[e]) /\ pending[t][e] \in Seq(Byte)
  /\ numbering \in [Tracks -> [sequence : 0 .. SeqNumbers - 1, emitted : Byte, shift : Byte,
                               fresh : BOOLEAN]]

\* Bytes of the first k packets of an encoder on the wire.
Extent(e, k) == SumFunction([i \in 1 .. k |-> 2 + Len(Packets[e][i])])

\* The deframer hands on exactly the packets that have arrived completely, unaltered
\* and in order, however the stream was cut into chunks, and buffers the rest.
FramesIntact ==
  \A t \in Tracks : \A e \in 1 .. MaxEncoders :
    LET k == Len(handed[t][e]) IN
    /\ handed[t][e] = SubSeq(Packets[e], 1, k)
    /\ pending[t][e] = SubSeq(Wire[e], Extent(e, k) + 1, read[t][e])
    /\ k < Len(Packets[e]) => read[t][e] < Extent(e, k + 1)

\* A viewer sees one stream across encoder restarts and number wrap-arounds: sequence
\* numbers are consecutive, timestamps advance as the encoder's did or by one frame
\* where the encoder changes, and an encoder that was replaced never writes again.
ContinuousTrack ==
  \A t \in Tracks : \A i \in 1 .. Len(out[t]) - 1 :
    LET a == out[t][i]
        b == out[t][i + 1]
        advance == IF a.encoder = b.encoder THEN b.packet[1] - a.packet[1] ELSE FrameStep
    IN /\ b.sequence = (a.sequence + 1) % SeqNumbers
       /\ (b.timestamp - a.timestamp - advance) % Base = 0
       /\ a.encoder <= b.encoder

=============================================================================
