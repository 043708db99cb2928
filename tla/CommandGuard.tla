---------------------------- MODULE CommandGuard ----------------------------
(***************************************************************************)
(* session/command-guard.ts: who may write to a guarded ROS topic, up to   *)
(* the synchronous ROS publish call.                                       *)
(*                                                                         *)
(* The guard is single threaded, but openHandle, arm, prepare and a        *)
(* ticket's publish call the injected `authorize` hook half-way, and the   *)
(* hook may call back into the guard.  An operation is therefore two       *)
(* steps: its call pushes a frame on the stack `calls` and its return pops *)
(* the frame and finishes the operation in the state the hook left.        *)
(* Operations started while the stack is not empty run inside the hook.    *)
(*                                                                         *)
(* Identifiers of sessions, handles and leases are drawn from one counter, *)
(* as in the code; the random per-guard prefix is left out.                *)
(***************************************************************************)
EXTENDS Integers, Sequences, FiniteSets

CONSTANTS
  Epochs,       \* connection epochs a peer may name
  Topics,       \* resolved output topics
  LeaseTimes,   \* lease durations configured for topics, in clock units
  MaxSessions, MaxHandles,  \* GuardOptions limits
  MaxTime,      \* largest representable time, Number.MAX_SAFE_INTEGER
  MaxSeq,       \* largest sequence number, 2^64 - 1
  MaxId,        \* bound of the model: identifiers issued
  MaxDepth      \* bound of the model: nesting of authorize hooks

ASSUME GuardAssumption ==
  /\ LeaseTimes \subseteq Nat \ {0}
  /\ MaxSessions \in Nat \ {0}
  /\ MaxHandles \in Nat \ {0}
  /\ MaxTime \in Nat
  /\ MaxSeq \in Nat
  /\ MaxId \in Nat
  /\ MaxDepth \in Nat

VARIABLES
  sessions,   \* registered session id -> epoch
  handles,    \* registered handle id -> HandleState
  nextId,     \* last identifier issued
  lastTime,   \* last accepted clock reading
  closed,
  tickets,    \* publish reservations not yet consumed
  calls,      \* stack of operations waiting for the authorize hook
  toRos       \* history: the ROS publish calls made, in order

vars == <<sessions, handles, nextId, lastTime, closed, tickets, calls, toRos>>

Ids == 1 .. MaxId
Times == 0 .. MaxTime
Seqs == 0 .. MaxSeq

\* An absent lease: identifiers start at 1.
NoLease == [id |-> 0, expiresAt |-> 0]
Lease == [id : 0 .. MaxId, expiresAt : Times]

HandleState ==
  [session : Ids, epoch : Epochs, topic : Topics, leaseMs : LeaseTimes,
   lease : Lease, received : Seqs \cup {-1}, published : Seqs \cup {-1}]

\* The wire identity of a command, saved by prepare for its ticket.
Request ==
  [session : Ids, epoch : Epochs, handle : Ids, lease : Ids, seq : Seqs]

Frame ==
  [phase : {"open"}, session : Ids, epoch : Epochs, handle : Ids,
   topic : Topics, leaseMs : LeaseTimes]
  \cup [phase : {"arm"}, session : Ids, handle : Ids]
  \cup [phase : {"receive", "publish"}, request : Request]

Publication ==
  [topic : Topics, session : Ids, handle : Ids, lease : Ids, seq : Seqs]

-----------------------------------------------------------------------------

Owned(s, h) ==
  /\ ~closed
  /\ h \in DOMAIN handles
  /\ handles[h].session = s

IdLeft == nextId < MaxId

\* The hook is entered: the operation is suspended until it returns.
Enter(frame) ==
  /\ Len(calls) < MaxDepth
  /\ calls' = Append(calls, frame)

Top == calls[Len(calls)]

\* The hook of the innermost operation of this phase returns true.
Leave(phase) ==
  /\ calls # <<>>
  /\ Top.phase = phase
  /\ calls' = SubSeq(calls, 1, Len(calls) - 1)

\* now(): a reading before the last one is rejected, an accepted one is kept
\* even when the operation fails afterwards.
ReadClock(t) ==
  /\ t >= lastTime
  /\ lastTime' = t

\* A Map with no entry.
NoEntries == [k \in {} |-> 0]

\* The entries a Map keeps when only the keys of D survive.
Keep(f, D) == [k \in DOMAIN f \cap D |-> f[k]]

-----------------------------------------------------------------------------

OpenSession(e) ==
  /\ ~closed
  /\ IdLeft
  /\ Cardinality(DOMAIN sessions) < MaxSessions
  /\ nextId' = nextId + 1
  /\ sessions' = [s \in DOMAIN sessions \cup {nextId + 1} |->
                    IF s = nextId + 1 THEN e ELSE sessions[s]]
  /\ UNCHANGED <<handles, lastTime, closed, tickets, calls, toRos>>

\* openHandle up to the hook: the identifier is spent even if the hook denies.
OpenHandle(s, t, ms) ==
  /\ ~closed
  /\ IdLeft
  /\ s \in DOMAIN sessions
  /\ nextId' = nextId + 1
  /\ Enter([phase |-> "open", session |-> s, epoch |-> sessions[s],
            handle |-> nextId + 1, topic |-> t, leaseMs |-> ms])
  /\ UNCHANGED <<sessions, handles, lastTime, closed, tickets, toRos>>

SessionStillOpen_Unchecked(s) == TRUE

SessionStillOpen(s) == s \in DOMAIN sessions

HandleRoom_OffByOne == Cardinality(DOMAIN handles) <= MaxHandles

HandleRoom == Cardinality(DOMAIN handles) < MaxHandles

OpenHandleReturn ==
  LET c == Top IN
  /\ Leave("open")
  /\ SessionStillOpen(c.session)
  /\ HandleRoom
  /\ handles' = [h \in DOMAIN handles \cup {c.handle} |->
                   IF h = c.handle
                   THEN [session |-> c.session, epoch |-> c.epoch,
                         topic |-> c.topic, leaseMs |-> c.leaseMs,
                         lease |-> NoLease, received |-> -1, published |-> -1]
                   ELSE handles[h]]
  /\ UNCHANGED <<sessions, nextId, lastTime, closed, tickets, toRos>>

Arm(s, h) ==
  /\ Owned(s, h)
  /\ Enter([phase |-> "arm", session |-> s, handle |-> h])
  /\ UNCHANGED <<sessions, handles, nextId, lastTime, closed, tickets, toRos>>

WriterBusy_Inverted(s, topic, now) ==
  \E h \in DOMAIN handles :
    /\ handles[h].topic = topic
    /\ handles[h].session # s
    /\ handles[h].lease # NoLease
    /\ now >= handles[h].lease.expiresAt

\* Another session holds a live lease on the topic.
WriterBusy(s, topic, now) ==
  \E h \in DOMAIN handles :
    /\ handles[h].topic = topic
    /\ handles[h].session # s
    /\ handles[h].lease # NoLease
    /\ now < handles[h].lease.expiresAt

GrantLease_KeepOthers(h, lease) == [handles EXCEPT ![h].lease = lease]

\* The new lease ends every other lease on the topic, of any session.
GrantLease(h, lease) ==
  [k \in DOMAIN handles |->
    [handles[k] EXCEPT !.lease =
       IF k = h THEN lease
       ELSE IF handles[k].topic = handles[h].topic THEN NoLease ELSE @]]

ClockExhausted_Unchecked(expiresAt) == FALSE

ClockExhausted(expiresAt) == expiresAt > MaxTime

ArmReturn(now) ==
  LET c == Top
      expiresAt == now + handles[c.handle].leaseMs
  IN
  /\ Leave("arm")
  /\ Owned(c.session, c.handle)
  /\ ReadClock(now)
  /\ IF \/ WriterBusy(c.session, handles[c.handle].topic, now)
        \/ ClockExhausted(expiresAt)
     THEN UNCHANGED <<handles, nextId>>
     ELSE /\ IdLeft
          /\ nextId' = nextId + 1
          /\ handles' = GrantLease(c.handle,
                          [id |-> nextId + 1, expiresAt |-> expiresAt])
  /\ UNCHANGED <<sessions, closed, tickets, toRos>>

-----------------------------------------------------------------------------

\* Leases a peer can name: held now, or saved with a ticket or used before.
\* Any other id fails after the hook, and leaves what a denial leaves.
WireLeases ==
  ({handles[h].lease.id : h \in DOMAIN handles} \ {0})
    \cup {r.lease : r \in tickets} \cup {toRos[i].lease : i \in DOMAIN toRos}

\* prepare up to the hook of validate.
Prepare(r) ==
  /\ Owned(r.session, r.handle)
  /\ Enter([phase |-> "receive", request |-> r])
  /\ UNCHANGED <<sessions, handles, nextId, lastTime, closed, tickets, toRos>>

LeaseMatches_AnyLease(r) ==
  /\ Owned(r.session, r.handle)
  /\ handles[r.handle].epoch = r.epoch
  /\ handles[r.handle].lease # NoLease

\* validate after its hook: the checks before the clock is read.
LeaseMatches(r) ==
  /\ Owned(r.session, r.handle)
  /\ handles[r.handle].epoch = r.epoch
  /\ handles[r.handle].lease.id = r.lease

Unexpired_OffByOne(h, now) == now <= handles[h].lease.expiresAt

Unexpired(h, now) == now < handles[h].lease.expiresAt

NewerThanReceived(r) == r.seq > handles[r.handle].received

PrepareReturn(now) ==
  LET r == Top.request IN
  /\ Leave("receive")
  /\ LeaseMatches(r)
  /\ ReadClock(now)
  /\ IF Unexpired(r.handle, now) /\ NewerThanReceived(r)
     THEN /\ handles' = [handles EXCEPT ![r.handle].received = r.seq]
          /\ tickets' = tickets \cup {r}
     ELSE UNCHANGED <<handles, tickets>>
  /\ UNCHANGED <<sessions, nextId, closed, toRos>>

\* ticket.publish: the ticket is spent before anything is validated again.
Publish(r) ==
  /\ r \in tickets
  /\ tickets' = tickets \ {r}
  /\ IF Owned(r.session, r.handle)
     THEN Enter([phase |-> "publish", request |-> r])
     ELSE UNCHANGED calls
  /\ UNCHANGED <<sessions, handles, nextId, lastTime, closed, toRos>>

NewerThanPublished_Unchecked(r) == TRUE

NewerThanPublished(r) == r.seq > handles[r.handle].published

\* The rest of ticket.publish, down to the synchronous ROS call.
PublishReturn(now) ==
  LET r == Top.request IN
  /\ Leave("publish")
  /\ LeaseMatches(r)
  /\ ReadClock(now)
  /\ IF Unexpired(r.handle, now) /\ NewerThanPublished(r)
     THEN /\ handles' = [handles EXCEPT ![r.handle].published = r.seq]
          /\ toRos' = Append(toRos,
               [topic |-> handles[r.handle].topic, session |-> r.session,
                handle |-> r.handle, lease |-> r.lease, seq |-> r.seq])
     ELSE UNCHANGED <<handles, toRos>>
  /\ UNCHANGED <<sessions, nextId, closed, tickets>>

\* The hook denies or throws, or a check after it fails before the clock is
\* read: the operation throws and nothing but the stack changes.  The hook may
\* deny in any state, so this step needs no further guard.
Throw ==
  /\ calls # <<>>
  /\ calls' = SubSeq(calls, 1, Len(calls) - 1)
  /\ UNCHANGED <<sessions, handles, nextId, lastTime, closed, tickets, toRos>>

-----------------------------------------------------------------------------

CloseHandle(s, h) ==
  /\ Owned(s, h)
  /\ handles' = Keep(handles, DOMAIN handles \ {h})
  /\ UNCHANGED <<sessions, nextId, lastTime, closed, tickets, calls, toRos>>

OthersHandles(s) == {h \in DOMAIN handles : handles[h].session # s}

RevokeSession(s) ==
  /\ sessions' = Keep(sessions, DOMAIN sessions \ {s})
  /\ handles' = Keep(handles, OthersHandles(s))
  /\ UNCHANGED <<nextId, lastTime, closed, tickets, calls, toRos>>

Close ==
  /\ closed' = TRUE
  /\ sessions' = NoEntries
  /\ handles' = NoEntries
  /\ UNCHANGED <<nextId, lastTime, tickets, calls, toRos>>

Init ==
  /\ sessions = NoEntries
  /\ handles = NoEntries
  /\ nextId = 0
  /\ lastTime \in Times   \* the constructor reads the clock once
  /\ closed = FALSE
  /\ tickets = {}
  /\ calls = <<>>
  /\ toRos = <<>>

Next ==
  \/ \E e \in Epochs : OpenSession(e)
  \/ \E s \in Ids, t \in Topics, ms \in LeaseTimes : OpenHandle(s, t, ms)
  \/ OpenHandleReturn
  \/ \E s, h \in Ids : Arm(s, h) \/ CloseHandle(s, h)
  \/ \E h \in DOMAIN handles, e \in Epochs, l \in WireLeases, q \in Seqs :
       Prepare([session |-> handles[h].session, epoch |-> e,
                handle |-> h, lease |-> l, seq |-> q])
  \/ \E r \in tickets : Publish(r)
  \/ \E now \in Times : ArmReturn(now) \/ PrepareReturn(now) \/ PublishReturn(now)
  \/ Throw
  \/ \E s \in Ids : RevokeSession(s)
  \/ Close

Spec == Init /\ [][Next]_vars

-----------------------------------------------------------------------------
(***************************************************************************)
(* Properties.                                                             *)
(***************************************************************************)

\* Type invariant: the shape of the guard's maps, tickets, frames and history.
TypeOK ==
  /\ DOMAIN sessions \subseteq Ids
  /\ \A s \in DOMAIN sessions : sessions[s] \in Epochs
  /\ DOMAIN handles \subseteq Ids
  /\ \A h \in DOMAIN handles : handles[h] \in HandleState
  /\ nextId \in 0 .. MaxId
  /\ lastTime \in Times
  /\ closed \in BOOLEAN
  /\ tickets \subseteq Request
  /\ calls \in Seq(Frame)
  /\ toRos \in Seq(Publication)

\* A topic has at most one writer: no two handles, of the same or of different
\* sessions, hold a lease on it at once (arm clears every lease of the topic).
OneLeasePerTopic ==
  \A g, h \in DOMAIN handles :
    /\ handles[g].topic = handles[h].topic
    /\ handles[g].lease # NoLease
    /\ handles[h].lease # NoLease
    => g = h

\* A handle never outlives its session, not even when the session is revoked or
\* the guard closed while openHandle waits for its hook.  owned() relies on
\* this: it looks at the handle only, never at the session.
HandlesHaveSessions ==
  /\ \A h \in DOMAIN handles : handles[h].session \in DOMAIN sessions
  /\ closed => DOMAIN sessions = {}

\* The configured limits hold although the hook may register handles between
\* the call of openHandle and its return.
ResourceBounds ==
  /\ Cardinality(DOMAIN sessions) <= MaxSessions
  /\ Cardinality(DOMAIN handles) <= MaxHandles

\* Publications of a topic are fenced: once a newer lease has been used on the
\* topic, a command sent under an older one never reaches ROS, whatever tickets
\* were prepared before (validate compares the lease id again after its hook).
FencedByLease ==
  \A i, j \in DOMAIN toRos :
    i < j /\ toRos[i].topic = toRos[j].topic => toRos[i].lease <= toRos[j].lease

\* Commands of a handle reach ROS in strictly increasing sequence order, so at
\* most once each, even when tickets are redeemed out of order.
PublishedInOrder ==
  \A i, j \in DOMAIN toRos :
    i < j /\ toRos[i].handle = toRos[j].handle => toRos[i].seq < toRos[j].seq

\* A received sequence number is reserved for ever: every outstanding ticket of
\* a registered handle, and everything it published, is at most `received`, and
\* two tickets of a handle never carry the same number.
TicketsReserved ==
  /\ \A r \in tickets :
       r.handle \in DOMAIN handles => r.seq <= handles[r.handle].received
  /\ \A h \in DOMAIN handles : handles[h].published <= handles[h].received
  /\ \A q, r \in tickets : q.handle = r.handle /\ q.seq = r.seq => q = r

\* A step publishes only for a registered session, through its own handle, under
\* the lease that handle holds now, strictly before that lease expires.
PublishUnderLiveLease ==
  [][\A i \in DOMAIN toRos' \ DOMAIN toRos :
       LET p == toRos'[i] IN
       /\ ~closed
       /\ p.session \in DOMAIN sessions
       /\ p.handle \in DOMAIN handles
       /\ handles[p.handle].session = p.session
       /\ handles[p.handle].lease.id = p.lease
       /\ lastTime' < handles[p.handle].lease.expiresAt]_vars

\* A lease is never taken from a handle that stays registered before it has
\* expired, except by a rearm of the same session (arm throws writer_busy).
NoLeaseStolen ==
  [][\A h \in DOMAIN handles \cap DOMAIN handles' :
       handles[h].lease # NoLease /\ handles'[h].lease # handles[h].lease
       => \/ lastTime' >= handles[h].lease.expiresAt
          \/ \E k \in DOMAIN handles :
               /\ handles[k].session = handles[h].session
               /\ handles'[k].lease.id > nextId]_vars

-----------------------------------------------------------------------------
(***************************************************************************)
(* What makes the properties above inductive.                              *)
(***************************************************************************)

OpenFrames == {i \in DOMAIN calls : calls[i].phase = "open"}
PublishFrames == {i \in DOMAIN calls : calls[i].phase = "publish"}

\* Identifiers in use have been issued.
Issued ==
  /\ \A h \in DOMAIN handles : h <= nextId /\ handles[h].lease.id <= nextId
  /\ \A i \in DOMAIN toRos : toRos[i].handle <= nextId /\ toRos[i].lease <= nextId
  /\ \A r \in tickets : r.handle <= nextId
  /\ \A i \in OpenFrames : calls[i].handle <= nextId
  /\ \A i \in PublishFrames : calls[i].request.handle <= nextId

\* The handle that a pending openHandle will register is known to nobody yet.
OpeningFresh ==
  \A i \in OpenFrames :
    /\ calls[i].handle \notin DOMAIN handles
    /\ \A j \in DOMAIN toRos : toRos[j].handle # calls[i].handle
    /\ \A r \in tickets : r.handle # calls[i].handle
    /\ \A j \in PublishFrames : calls[j].request.handle # calls[i].handle
    /\ \A j \in OpenFrames : j # i => calls[j].handle # calls[i].handle

\* The lease held on a topic is at least as new as any lease used on it.
NewestLease ==
  \A h \in DOMAIN handles, i \in DOMAIN toRos :
    handles[h].lease # NoLease /\ toRos[i].topic = handles[h].topic
    => toRos[i].lease <= handles[h].lease.id

\* What a handle published is at most its `published`, and what is about to be
\* published is at most its `received`.
SeqBounds ==
  /\ \A i \in DOMAIN toRos :
       toRos[i].handle \in DOMAIN handles
       => toRos[i].seq <= handles[toRos[i].handle].published
  /\ \A i \in PublishFrames :
       calls[i].request.handle \in DOMAIN handles
       => calls[i].request.seq <= handles[calls[i].request.handle].received

\* The inductive invariant of the guard: no identifier is ever reused, and the
\* state a handle keeps summarises the history of its topic.
GuardInv ==
  /\ OneLeasePerTopic
  /\ HandlesHaveSessions
  /\ FencedByLease
  /\ PublishedInOrder
  /\ TicketsReserved
  /\ Issued
  /\ OpeningFresh
  /\ NewestLease
  /\ SeqBounds

-----------------------------------------------------------------------------
(***************************************************************************)
(* What the guard promises, without handles, tickets and hooks: one writer *)
(* per topic (WriterAuthority).  The writer of a topic is the handle that  *)
(* holds its lease, expired or not.                                        *)
(***************************************************************************)

Holders(t) ==
  {h \in DOMAIN handles : handles[h].topic = t /\ handles[h].lease # NoLease}

Nobody == [session |-> 0, handle |-> 0, lease |-> 0, expiresAt |-> 0]

WriterOf(h) ==
  [session |-> handles[h].session, handle |-> h,
   lease |-> handles[h].lease.id, expiresAt |-> handles[h].lease.expiresAt]

Writer ==
  [t \in Topics |->
    IF Holders(t) = {} THEN Nobody ELSE WriterOf(CHOOSE h \in Holders(t) : TRUE)]

Authority == INSTANCE WriterAuthority
  WITH writer <- Writer, clock <- lastTime, issued <- nextId, out <- toRos

\* The guard implements the abstract single-writer authority: every step of the
\* guard grants, withdraws or uses writer authority the way it allows, or none.
ImplementsAuthority == Authority!Spec

=============================================================================
