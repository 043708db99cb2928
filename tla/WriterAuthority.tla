--------------------------- MODULE WriterAuthority ---------------------------
(***************************************************************************)
(* The promise of the command guard to whoever reads a guarded ROS topic:  *)
(* at every moment a topic has at most one writer; authority is granted    *)
(* for a time, to one session at a time, under lease numbers that only     *)
(* grow; and a command reaches the topic only from its current writer, in  *)
(* that writer's sequence order.                                           *)
(***************************************************************************)
EXTENDS Integers, Sequences

CONSTANT Topics

VARIABLES
  writer,   \* topic -> its writer, or Nobody
  clock,    \* the time of the last decision
  issued,   \* no lease number above this one has been issued
  out       \* the commands that reached a topic, in order

authorityVars == <<writer, clock, issued, out>>

Nobody == [session |-> 0, handle |-> 0, lease |-> 0, expiresAt |-> 0]

Init ==
  /\ writer = [t \in Topics |-> Nobody]
  /\ clock \in Nat
  /\ issued = 0
  /\ out = <<>>

\* Time passes and numbers are spent on things other than leases.
Pass ==
  /\ clock' >= clock
  /\ issued' >= issued
  /\ UNCHANGED <<writer, out>>

\* Authority ends with its owner: a handle, a session or everything goes away.
Withdraw ==
  /\ \A t \in Topics : writer'[t] \in {writer[t], Nobody}
  /\ writer' = [t \in Topics |-> writer'[t]]
  /\ UNCHANGED <<clock, issued, out>>

\* Authority over t passes to a new lease: from nobody, from a lease that has
\* expired, or from the same session.
Grant(t) ==
  /\ clock' >= clock
  /\ \/ writer[t] = Nobody
     \/ writer[t].expiresAt <= clock'
     \/ writer[t].session = writer'[t].session
  /\ writer'[t].lease > issued
  /\ writer'[t].expiresAt > clock'
  /\ issued' >= writer'[t].lease
  /\ writer' = [writer EXCEPT ![t] = writer'[t]]
  /\ UNCHANGED out

\* A command of t's writer reaches the topic before its lease expires.
Publish(t) ==
  /\ writer[t] # Nobody
  /\ clock' >= clock
  /\ clock' < writer[t].expiresAt
  /\ Len(out') = Len(out) + 1
  /\ LET c == out'[Len(out')] IN
     /\ out' = Append(out, c)
     /\ c.topic = t
     /\ c.session = writer[t].session
     /\ c.handle = writer[t].handle
     /\ c.lease = writer[t].lease
     /\ \A i \in DOMAIN out : out[i].handle = c.handle => out[i].seq < c.seq
  /\ UNCHANGED <<writer, issued>>

Next == Pass \/ Withdraw \/ \E t \in Topics : Grant(t) \/ Publish(t)

Spec == Init /\ [][Next]_authorityVars

=============================================================================
