----------------------------- MODULE RosAdapter -----------------------------
(***************************************************************************)
(* TopicRosAdapter (ros/adapter.ts): the ROS entities made once at start,  *)
(* the listeners sessions add and remove, and the fan-out of a sample.     *)
(*                                                                         *)
(* JavaScript runs one callback at a time, but a listener may itself       *)
(* subscribe, unsubscribe or close the adapter, so the fan-out is a        *)
(* sequence of steps with those operations between them.  Every call of    *)
(* subscribe brings a function of its own.  rclnodejs is external.         *)
(***************************************************************************)
EXTENDS Naturals, Sequences, FiniteSets, SequencesExt

CONSTANTS
  Names,       \* the registry: public names, in order
  Direction,   \* name -> "web_to_ros" or "ros_to_web"
  EntityKey,   \* name -> ROS topic, type and QoS
  Callbacks,   \* the functions sessions subscribe with
  None         \* no callback, no name

NameSet == ToSet(Names)
Keys == {EntityKey[n] : n \in NameSet}
Outputs == {n \in NameSet : Direction[n] = "ros_to_web"}
Inputs == NameSet \ Outputs

\* The constructor refuses a name that is registered twice.
ASSUME AdapterAssumption ==
  /\ Names \in Seq(NameSet) /\ IsInjective(Names)
  /\ Direction \in [NameSet -> {"web_to_ros", "ros_to_web"}]
  /\ None \notin Callbacks \cup NameSet

VARIABLES
  phase,          \* start(): not called, in its loop, over, or thrown
  state,          \* the adapter's own new, running, closed
  registered,     \* registrations start() has been through
  publishers,     \* keys of the publishers map
  subscriptions,  \* key -> its aliases
  native,         \* direction -> key -> native entities made
  context,        \* the ROS context: open, shut, or left open by a failed shutdown
  listeners,      \* name -> callbacks
  home,           \* callback -> the name it was subscribed to
  fan,            \* the sample being delivered: aliases left, current alias and snapshot
  busy,           \* the callback that is running
  heard,          \* history: calls of each callback for the last sample
  due             \* history: callbacks the last sample must reach

startVars == <<phase, registered, subscriptions, native>>
fanVars == <<fan, busy, heard, due>>
adapterVars == <<phase, state, registered, publishers, subscriptions, native, context,
                 listeners, home, fan, busy, heard, due>>

NoFan == [aliases |-> <<>>, alias |-> None, todo |-> {}]

\* Other code runs when no fan-out is in progress, or inside one of its callbacks.
MayCall == fan = NoFan \/ busy # None

-----------------------------------------------------------------------------

\* close(): idempotent; listeners and publishers are gone even when backend.close() throws.
CloseAll ==
  IF state = "closed" THEN UNCHANGED <<state, listeners, publishers, context>>
  ELSE /\ state' = "closed"
       /\ listeners' = [n \in NameSet |-> {}]
       /\ publishers' = {}
       /\ context' \in {"shut", "stuck"}

Start ==
  /\ phase = "idle" /\ state = "new"
  /\ phase' = "starting"
  /\ UNCHANGED <<state, registered, publishers, subscriptions, native, context, listeners,
                 home, fanVars>>

\* A native entity for the first name of its direction and key.
MakeEntity(n) ==
  LET known == IF n \in Inputs THEN EntityKey[n] \in publishers
                               ELSE subscriptions[EntityKey[n]] # <<>>
  IN native' = IF known THEN native
               ELSE [native EXCEPT ![Direction[n]][EntityKey[n]] = @ + 1]

\* One turn of the loop of start().
Register ==
  /\ phase = "starting"
  /\ registered < Len(Names)
  /\ registered' = registered + 1
  /\ LET n == Names[registered + 1] IN
     /\ MakeEntity(n)
     /\ publishers' = IF n \in Inputs THEN publishers \cup {EntityKey[n]} ELSE publishers
     /\ subscriptions' = IF n \in Outputs
          THEN [subscriptions EXCEPT ![EntityKey[n]] = Append(@, n)] ELSE subscriptions
  /\ UNCHANGED <<phase, state, context, listeners, home, fanVars>>

Spin ==
  /\ phase = "starting"
  /\ registered = Len(Names)
  /\ phase' = "started"
  /\ state' = "running"
  /\ UNCHANGED <<registered, publishers, subscriptions, native, context, listeners, home,
                 fanVars>>

Cleanup_Nothing == UNCHANGED <<state, listeners, publishers, context>>

\* The catch clause of start().
Cleanup == CloseAll

\* Creating an entity or spin() throws.
StartFails ==
  /\ phase = "starting"
  /\ phase' = "failed"
  /\ Cleanup
  /\ UNCHANGED <<registered, subscriptions, native, home, fanVars>>

-----------------------------------------------------------------------------

Subscribe(c, n) ==
  /\ MayCall
  /\ state = "running"
  /\ n \in Outputs
  /\ home[c] = None
  /\ home' = [home EXCEPT ![c] = n]
  /\ listeners' = [listeners EXCEPT ![n] = @ \cup {c}]
  /\ UNCHANGED <<startVars, state, publishers, context, fanVars>>

\* The function subscribe returned.
Unsubscribe(c) ==
  /\ MayCall
  /\ home[c] # None
  /\ c \in listeners[home[c]]
  /\ listeners' = [listeners EXCEPT ![home[c]] = @ \ {c}]
  /\ due' = due \ {c}
  /\ UNCHANGED <<startVars, state, publishers, context, home, fan, busy, heard>>

\* Between operations: start() is synchronous and nobody calls in the middle of it.
Close ==
  /\ MayCall
  /\ phase # "starting"
  /\ CloseAll
  /\ due' = {}
  /\ UNCHANGED <<startVars, home, fan, busy, heard>>

-----------------------------------------------------------------------------
(***************************************************************************)
(* A sample: receive() for every alias of its subscription.                *)
(***************************************************************************)

\* A native callback; the context may still deliver one after close().
Sample(k) ==
  /\ fan = NoFan
  /\ phase = "started"
  /\ subscriptions[k] # <<>>
  /\ fan' = [NoFan EXCEPT !.aliases = subscriptions[k]]
  /\ heard' = [c \in Callbacks |-> 0]
  /\ due' = UNION {listeners[n] : n \in ToSet(subscriptions[k])}
  /\ UNCHANGED <<startVars, state, publishers, context, listeners, home, busy>>

\* receive() of the next alias, up to its loop.
NextAlias ==
  /\ fan.aliases # <<>> /\ fan.alias = None
  /\ state = "running"
  /\ fan' = [aliases |-> Tail(fan.aliases), alias |-> Head(fan.aliases),
             todo |-> listeners[Head(fan.aliases)]]
  /\ UNCHANGED <<startVars, state, publishers, context, listeners, home, busy, heard, due>>

\* receive() that returns early: the adapter is closed, or the sample has no encoding.
SkipAlias ==
  /\ fan.aliases # <<>> /\ fan.alias = None
  /\ fan' = [fan EXCEPT !.aliases = Tail(@)]
  /\ due' = due \ listeners[Head(fan.aliases)]
  /\ UNCHANGED <<startVars, state, publishers, context, listeners, home, busy, heard>>

StillListening_Snapshot(c) == TRUE

\* listeners.has(callback)
StillListening(c) == c \in listeners[fan.alias]

Invoke(c) ==
  /\ busy = None
  /\ c \in fan.todo
  /\ fan' = [fan EXCEPT !.todo = @ \ {c}]
  /\ IF StillListening(c)
     THEN busy' = c /\ heard' = [heard EXCEPT ![c] = @ + 1]
     ELSE UNCHANGED <<busy, heard>>
  /\ UNCHANGED <<startVars, state, publishers, context, listeners, home, due>>

AfterCallback_Escapes(throws) ==
  fan' = IF throws THEN [fan EXCEPT !.todo = {}] ELSE fan

\* An exception of the callback is reported and the loop goes on.
AfterCallback(throws) == UNCHANGED fan

Return(throws) ==
  /\ busy # None
  /\ busy' = None
  /\ AfterCallback(throws)
  /\ UNCHANGED <<startVars, state, publishers, context, listeners, home, heard, due>>

AliasEnds ==
  /\ fan.alias # None /\ fan.todo = {} /\ busy = None
  /\ fan' = [fan EXCEPT !.alias = None]
  /\ UNCHANGED <<startVars, state, publishers, context, listeners, home, busy, heard, due>>

-----------------------------------------------------------------------------

Init ==
  /\ phase = "idle" /\ state = "new"
  /\ registered = 0
  /\ publishers = {}
  /\ subscriptions = [k \in Keys |-> <<>>]
  /\ native = [d \in {"web_to_ros", "ros_to_web"} |-> [k \in Keys |-> 0]]
  /\ context = "open"
  /\ listeners = [n \in NameSet |-> {}]
  /\ home = [c \in Callbacks |-> None]
  /\ fan = NoFan /\ busy = None
  /\ heard = [c \in Callbacks |-> 0]
  /\ due = {}

Next ==
  \/ Start \/ Register \/ Spin \/ StartFails \/ Close
  \/ \E c \in Callbacks :
       \/ \E n \in NameSet : Subscribe(c, n)
       \/ Unsubscribe(c) \/ Invoke(c)
  \/ \E k \in Keys : Sample(k)
  \/ NextAlias \/ SkipAlias \/ AliasEnds
  \/ \E throws \in BOOLEAN : Return(throws)

Spec == Init /\ [][Next]_adapterVars

-----------------------------------------------------------------------------

\* Type invariant.
TypeOK ==
  /\ phase \in {"idle", "starting", "started", "failed"}
  /\ state \in {"new", "running", "closed"}
  /\ registered \in 0 .. Len(Names)
  /\ publishers \subseteq Keys
  /\ subscriptions \in [Keys -> Seq(Outputs)]
  /\ native \in [{"web_to_ros", "ros_to_web"} -> [Keys -> Nat]]
  /\ context \in {"open", "shut", "stuck"}
  /\ listeners \in [NameSet -> SUBSET Callbacks]
  /\ home \in [Callbacks -> NameSet \cup {None}]
  /\ fan \in [aliases : Seq(Outputs), alias : Outputs \cup {None}, todo : SUBSET Callbacks]
  /\ busy \in Callbacks \cup {None}
  /\ heard \in [Callbacks -> Nat]
  /\ due \subseteq Callbacks

\* A start that returned holds exactly one native entity per direction and key, with
\* every name behind one of them; one that threw, and an adapter closed before, during or
\* after its start, have no listener or publisher left and have shut the context that
\* owns the native entities, or reported that it cannot be shut ("Partial failures clean
\* up and rethrow").
StartAllOrNothing ==
  /\ state = "running" =>
       /\ context = "open"
       /\ publishers = {EntityKey[n] : n \in Inputs}
       /\ \A k \in Keys :
            /\ ToSet(subscriptions[k]) = {n \in Outputs : EntityKey[n] = k}
            /\ IsInjective(subscriptions[k])
            /\ native["ros_to_web"][k] = (IF subscriptions[k] = <<>> THEN 0 ELSE 1)
            /\ native["web_to_ros"][k] = (IF k \in publishers THEN 1 ELSE 0)
  /\ phase = "failed" \/ state = "closed" =>
       /\ context # "open"
       /\ publishers = {}
       /\ \A n \in NameSet : listeners[n] = {}

\* Whatever the callbacks of a sample do (throw, subscribe, unsubscribe each other,
\* close the adapter), nobody hears it twice, and when its delivery is over everyone
\* who listened from before it until after it has heard it.
EveryListenerOnce ==
  /\ \A c \in Callbacks : heard[c] <= 1
  /\ fan = NoFan => \A c \in due : heard[c] = 1

\* A callback is never called after it was unsubscribed or the adapter closed, even
\* by a delivery that began before.
NeverAfterRemoval ==
  [][\A c \in Callbacks : heard'[c] > heard[c] =>
       state = "running" /\ home[c] # None /\ c \in listeners[home[c]]]_adapterVars

=============================================================================
