-------------------------- MODULE RosAdapterProofs --------------------------
(***************************************************************************)
(* What the ROS adapter keeps for any registry, any keys and any number of *)
(* callbacks.  The argument has two halves: StartInv follows the loop of   *)
(* start() name by name, and FanInv says of every callback where a sample  *)
(* stands with it: already called, in the snapshot, or behind an alias     *)
(* still to come.                                                          *)
(***************************************************************************)
EXTENDS RosAdapter, TLAPS

\* The names start() has been through.
Done == {Names[i] : i \in 1 .. registered}

\* The phase of start(), the adapter's state and its context agree, and nobody listens
\* unless the adapter runs.
PhaseInv ==
  /\ phase = "starting" => state = "new"
  /\ phase = "idle" => state \in {"new", "closed"} /\ registered = 0
  /\ phase = "started" => state \in {"running", "closed"} /\ registered = Len(Names)
  /\ phase = "failed" => state = "closed"
  /\ state = "closed" <=> context # "open"
  /\ state = "closed" => publishers = {}
  /\ state # "running" => \A n \in NameSet : listeners[n] = {}

\* The entities are those of the names done so far, one per direction and key.
EntityInv ==
  /\ state # "closed" =>
       /\ publishers = {EntityKey[n] : n \in Done \cap Inputs}
       /\ \A k \in Keys : native["web_to_ros"][k] = (IF k \in publishers THEN 1 ELSE 0)
  /\ \A k \in Keys :
       /\ ToSet(subscriptions[k]) = {n \in Done \cap Outputs : EntityKey[n] = k}
       /\ IsInjective(subscriptions[k])
       /\ native["ros_to_web"][k] = (IF subscriptions[k] = <<>> THEN 0 ELSE 1)

StartInv == PhaseInv /\ EntityInv

\* A callback listens only where it was subscribed.
AtHome == \A n \in NameSet : \A c \in listeners[n] : home[c] = n

\* The current alias and the aliases to come are different names.
AliasesDistinct ==
  /\ IsInjective(fan.aliases)
  /\ fan.alias \notin ToSet(fan.aliases)
  /\ fan.alias = None => fan.todo = {}
  /\ \A c \in fan.todo : home[c] = fan.alias

\* A callback that was called has no call to come.
CalledInv ==
  \A c \in Callbacks :
    /\ heard[c] \in {0, 1}
    /\ heard[c] = 1 => /\ home[c] # None
                       /\ c \notin fan.todo
                       /\ home[c] \notin ToSet(fan.aliases)

\* A callback the sample must reach still listens, and was called or has its call to come.
DueInv ==
  \A c \in due :
    /\ home[c] \in NameSet /\ c \in listeners[home[c]]
    /\ heard[c] = 1 \/ c \in fan.todo \/ home[c] \in ToSet(fan.aliases)

FanInv == AtHome /\ AliasesDistinct /\ CalledInv /\ DueInv

-----------------------------------------------------------------------------

\* A sequence without repetitions, and what its head and tail hold.
LEMMA HeadAndTail ==
  ASSUME NEW S, NEW q \in Seq(S), q # <<>>
  PROVE  /\ Head(q) \in S /\ Tail(q) \in Seq(S)
         /\ ToSet(q) = {Head(q)} \cup ToSet(Tail(q))
         /\ IsInjective(q) => Head(q) \notin ToSet(Tail(q)) /\ IsInjective(Tail(q))
  <1>1. /\ Len(q) \in Nat /\ Len(q) > 0 /\ DOMAIN q = 1 .. Len(q)
        /\ Head(q) = q[1] /\ Head(q) \in S /\ Tail(q) \in Seq(S)
        /\ DOMAIN Tail(q) = 1 .. Len(q) - 1
        /\ \A i \in 1 .. Len(q) - 1 : Tail(q)[i] = q[i + 1]
    OBVIOUS
  <1>2. ToSet(q) = {Head(q)} \cup ToSet(Tail(q))
    <2>1. ASSUME NEW i \in DOMAIN q PROVE q[i] = Head(q) \/ q[i] \in ToSet(Tail(q))
      <3>1. CASE i = 1
        BY <1>1, <3>1
      <3>2. CASE i # 1
        <4>1. i - 1 \in DOMAIN Tail(q) /\ Tail(q)[i - 1] = q[i]
          BY <1>1, <3>2
        <4>2. QED
          BY <4>1 DEF ToSet
      <3>3. QED
        BY <3>1, <3>2
    <2>2. ASSUME NEW i \in DOMAIN Tail(q) PROVE Tail(q)[i] \in ToSet(q)
      <3>1. i + 1 \in DOMAIN q /\ Tail(q)[i] = q[i + 1]
        BY <1>1
      <3>2. QED
        BY <3>1 DEF ToSet
    <2>3. Head(q) \in ToSet(q)
      BY <1>1 DEF ToSet
    <2>4. QED
      BY <2>1, <2>2, <2>3 DEF ToSet
  <1>3. ASSUME IsInjective(q) PROVE Head(q) \notin ToSet(Tail(q)) /\ IsInjective(Tail(q))
    BY <1>1, <1>3 DEF IsInjective, ToSet
  <1>4. QED
    BY <1>1, <1>2, <1>3

\* Appending a new element to a sequence without repetitions.
LEMMA AppendNew ==
  ASSUME NEW S, NEW q \in Seq(S), NEW x \in S
  PROVE  /\ Append(q, x) \in Seq(S) /\ Append(q, x) # <<>>
         /\ ToSet(Append(q, x)) = ToSet(q) \cup {x}
         /\ IsInjective(q) /\ x \notin ToSet(q) => IsInjective(Append(q, x))
  <1>1. /\ Len(q) \in Nat /\ DOMAIN q = 1 .. Len(q)
        /\ Append(q, x) \in Seq(S) /\ DOMAIN Append(q, x) = 1 .. Len(q) + 1
        /\ \A i \in 1 .. Len(q) : Append(q, x)[i] = q[i]
        /\ Append(q, x)[Len(q) + 1] = x
    OBVIOUS
  <1>2. ToSet(Append(q, x)) = ToSet(q) \cup {x}
    BY <1>1 DEF ToSet
  <1>3. Append(q, x) # <<>>
    BY <1>1
  <1>4. ASSUME IsInjective(q), x \notin ToSet(q) PROVE IsInjective(Append(q, x))
    BY <1>1, <1>4 DEF IsInjective, ToSet
  <1>5. QED
    BY <1>1, <1>2, <1>3, <1>4

\* The empty sequence.
LEMMA EmptySequence == ToSet(<<>>) = {} /\ IsInjective(<<>>)
  BY DEF ToSet, IsInjective

\* Facts about the registry: a name has one direction and a key, and None is no name.
LEMMA RegistryFacts ==
  /\ \A n \in NameSet : EntityKey[n] \in Keys /\ Direction[n] \in {"web_to_ros", "ros_to_web"}
  /\ \A n \in NameSet : n \in Inputs <=> n \notin Outputs
  /\ \A n \in Inputs : Direction[n] = "web_to_ros"
  /\ \A n \in Outputs : Direction[n] = "ros_to_web"
  /\ Outputs \subseteq NameSet /\ Inputs \subseteq NameSet
  /\ None \notin NameSet /\ None \notin Callbacks
  /\ Len(Names) \in Nat
  /\ \A i \in 1 .. Len(Names) : Names[i] \in NameSet
  BY AdapterAssumption DEF Keys, Outputs, Inputs, AdapterAssumption

-----------------------------------------------------------------------------

\* Every step keeps the types.
LEMMA TypeStep == TypeOK /\ [Next]_adapterVars => TypeOK'
  <1> SUFFICES ASSUME TypeOK, [Next]_adapterVars PROVE TypeOK'
    OBVIOUS
  <1> USE RegistryFacts
  <1>1. CASE Start
    BY <1>1 DEF Start, TypeOK, fanVars
  <1>2. CASE Register
    <2>1. PICK n \in NameSet : n = Names[registered + 1]
      <3>1. registered + 1 \in 1 .. Len(Names)
        BY <1>2 DEF Register, TypeOK
      <3>2. QED
        BY <3>1
    <2>2. registered' \in 0 .. Len(Names)
      BY <1>2 DEF Register, TypeOK
    <2>3. publishers' \subseteq Keys
      BY <1>2, <2>1 DEF Register, TypeOK
    <2>4. subscriptions' \in [Keys -> Seq(Outputs)]
      BY <1>2, <2>1, AppendNew DEF Register, TypeOK
    <2>5. native' \in [{"web_to_ros", "ros_to_web"} -> [Keys -> Nat]]
      <3>1. \/ native' = native
            \/ native' = [native EXCEPT ![Direction[n]][EntityKey[n]] = @ + 1]
        BY <1>2, <2>1, Zenon DEF Register, MakeEntity
      <3>2. /\ Direction[n] \in {"web_to_ros", "ros_to_web"} /\ EntityKey[n] \in Keys
            /\ native[Direction[n]] \in [Keys -> Nat]
        BY <2>1 DEF TypeOK
      <3>3. native[Direction[n]][EntityKey[n]] + 1 \in Nat
        BY <3>2
      <3>4. [native[Direction[n]] EXCEPT ![EntityKey[n]] = @ + 1] \in [Keys -> Nat]
        BY <3>2, <3>3
      <3>5. CASE native' = native
        BY <3>5 DEF TypeOK
      <3>6. CASE native' = [native EXCEPT ![Direction[n]][EntityKey[n]] = @ + 1]
        <4>1. native' = [native EXCEPT ![Direction[n]] =
                           [native[Direction[n]] EXCEPT ![EntityKey[n]] = @ + 1]]
          BY <3>6, Zenon
        <4>2. QED
          BY <3>2, <3>4, <4>1 DEF TypeOK
      <3>7. QED
        BY <3>1, <3>5, <3>6
    <2>6. QED
      BY <1>2, <2>2, <2>3, <2>4, <2>5 DEF Register, TypeOK, fanVars
  <1>3. CASE Spin
    BY <1>3 DEF Spin, TypeOK, fanVars
  <1>4. CASE StartFails
    BY <1>4 DEF StartFails, Cleanup, CloseAll, TypeOK, fanVars
  <1>5. CASE Close
    BY <1>5 DEF Close, CloseAll, TypeOK, startVars
  <1>6. ASSUME NEW c \in Callbacks, NEW n \in NameSet, Subscribe(c, n) PROVE TypeOK'
    BY <1>6 DEF Subscribe, TypeOK, startVars, fanVars
  <1>7. ASSUME NEW c \in Callbacks, Unsubscribe(c) PROVE TypeOK'
    BY <1>7 DEF Unsubscribe, TypeOK, startVars
  <1>8. ASSUME NEW c \in Callbacks, Invoke(c) PROVE TypeOK'
    <2>1. heard' \in [Callbacks -> Nat] /\ busy' \in Callbacks \cup {None}
      BY <1>8 DEF Invoke, TypeOK
    <2>2. fan' \in [aliases : Seq(Outputs), alias : Outputs \cup {None}, todo : SUBSET Callbacks]
      BY <1>8 DEF Invoke, TypeOK
    <2>3. QED
      BY <1>8, <2>1, <2>2 DEF Invoke, TypeOK, startVars
  <1>9. ASSUME NEW k \in Keys, Sample(k) PROVE TypeOK'
    <2>1. subscriptions[k] \in Seq(Outputs)
      BY DEF TypeOK
    <2>2. ToSet(subscriptions[k]) \subseteq NameSet
      BY <2>1 DEF ToSet
    <2>3. due' \subseteq Callbacks
      BY <1>9, <2>2 DEF Sample, TypeOK
    <2>4. fan' \in [aliases : Seq(Outputs), alias : Outputs \cup {None}, todo : SUBSET Callbacks]
      BY <1>9, <2>1 DEF Sample, NoFan
    <2>5. heard' \in [Callbacks -> Nat]
      BY <1>9 DEF Sample
    <2>6. QED
      BY <1>9, <2>3, <2>4, <2>5 DEF Sample, TypeOK, startVars
  <1>10. CASE NextAlias
    <2>1. fan.aliases \in Seq(Outputs) /\ fan.aliases # <<>>
      BY <1>10 DEF NextAlias, TypeOK
    <2>2. Head(fan.aliases) \in Outputs /\ Tail(fan.aliases) \in Seq(Outputs)
      BY <2>1, HeadAndTail
    <2>3. QED
      BY <1>10, <2>2 DEF NextAlias, TypeOK, startVars
  <1>11. CASE SkipAlias
    <2>1. fan.aliases \in Seq(Outputs) /\ fan.aliases # <<>>
      BY <1>11 DEF SkipAlias, TypeOK
    <2>2. Tail(fan.aliases) \in Seq(Outputs)
      BY <2>1, HeadAndTail
    <2>3. QED
      BY <1>11, <2>2 DEF SkipAlias, TypeOK, startVars
  <1>12. CASE AliasEnds
    BY <1>12 DEF AliasEnds, TypeOK, startVars
  <1>13. ASSUME NEW throws \in BOOLEAN, Return(throws) PROVE TypeOK'
    BY <1>13 DEF Return, AfterCallback, TypeOK, startVars
  <1>14. CASE UNCHANGED adapterVars
    BY <1>14 DEF adapterVars, TypeOK
  <1>15. QED
    BY <1>1, <1>2, <1>3, <1>4, <1>5, <1>6, <1>7, <1>8, <1>9, <1>10, <1>11, <1>12, <1>13,
       <1>14 DEF Next

\* A new adapter has its types.
LEMMA TypeInit == Init => TypeOK
  BY RegistryFacts DEF Init, TypeOK, NoFan

\* The variables of the adapter always have their types.
THEOREM TypeCorrect == Spec => []TypeOK
  BY TypeInit, TypeStep, PTL DEF Spec

-----------------------------------------------------------------------------

\* One turn of the loop adds the next name, which the registry lists only once.
LEMMA NextName ==
  ASSUME TypeOK, registered < Len(Names), registered' = registered + 1
  PROVE  /\ Names[registered + 1] \in NameSet \ Done
         /\ Done' = Done \cup {Names[registered + 1]}
  <1>1. registered \in Nat /\ registered + 1 \in 1 .. Len(Names) /\ DOMAIN Names = 1 .. Len(Names)
    BY RegistryFacts, AdapterAssumption DEF TypeOK, AdapterAssumption
  <1>2. Names[registered + 1] \notin Done
    BY <1>1, AdapterAssumption DEF AdapterAssumption, IsInjective, Done
  <1>3. 1 .. registered + 1 = (1 .. registered) \cup {registered + 1}
    BY <1>1
  <1>4. Done' = Done \cup {Names[registered + 1]}
    BY <1>3 DEF Done
  <1>5. QED
    BY <1>1, <1>2, <1>4, RegistryFacts

\* After the last turn every name has been through the loop.
LEMMA AllDone ==
  ASSUME registered = Len(Names)
  PROVE  Done = NameSet
  BY AdapterAssumption DEF AdapterAssumption, NameSet, Done, ToSet

\* The loop keeps one entity per direction and key.
LEMMA RegisterEntities ==
  ASSUME TypeOK, StartInv, Register
  PROVE  EntityInv'
  <1> PICK n : n = Names[registered + 1]
    OBVIOUS
  <1>1. /\ n \in NameSet /\ n \notin Done /\ Done' = Done \cup {n}
        /\ state = "new" /\ state' = "new"
    BY NextName DEF Register, StartInv, PhaseInv
  <1>2. EntityKey[n] \in Keys
    BY <1>1, RegistryFacts
  <1>3. \A k \in Keys : subscriptions[k] \in Seq(Outputs)
    BY DEF TypeOK
  <1>4. /\ MakeEntity(n)
        /\ publishers' = IF n \in Inputs THEN publishers \cup {EntityKey[n]} ELSE publishers
        /\ subscriptions' = IF n \in Outputs
             THEN [subscriptions EXCEPT ![EntityKey[n]] = Append(@, n)] ELSE subscriptions
    BY Zenon DEF Register
  <1>5. /\ publishers = {EntityKey[m] : m \in Done \cap Inputs}
        /\ \A k \in Keys : native["web_to_ros"][k] = (IF k \in publishers THEN 1 ELSE 0)
        /\ \A k \in Keys :
             /\ ToSet(subscriptions[k]) = {m \in Done \cap Outputs : EntityKey[m] = k}
             /\ IsInjective(subscriptions[k])
             /\ native["ros_to_web"][k] = (IF subscriptions[k] = <<>> THEN 0 ELSE 1)
    BY <1>1 DEF StartInv, EntityInv
  <1>6. CASE n \in Inputs
    <2>1. n \notin Outputs /\ Direction[n] = "web_to_ros"
      BY <1>1, <1>6, RegistryFacts
    <2>2. subscriptions' = subscriptions /\ publishers' = publishers \cup {EntityKey[n]}
      BY <1>4, <1>6, <2>1
    <2>3. /\ Done' \cap Outputs = Done \cap Outputs
          /\ Done' \cap Inputs = (Done \cap Inputs) \cup {n}
      BY <1>1, <1>6, <2>1
    <2>4. publishers' = {EntityKey[m] : m \in Done' \cap Inputs}
      BY <1>5, <2>2, <2>3
    <2>5. native' = IF EntityKey[n] \in publishers THEN native
                    ELSE [native EXCEPT !["web_to_ros"][EntityKey[n]] = @ + 1]
      BY <1>4, <1>6, <2>1 DEF MakeEntity
    <2>6. \A k \in Keys : native'["ros_to_web"][k] = native["ros_to_web"][k]
      BY <2>5 DEF TypeOK
    <2>7. \A k \in Keys : native'["web_to_ros"][k] = (IF k \in publishers' THEN 1 ELSE 0)
      BY <1>2, <1>5, <2>2, <2>5 DEF TypeOK
    <2>8. \A k \in Keys :
             /\ ToSet(subscriptions'[k]) = {m \in Done' \cap Outputs : EntityKey[m] = k}
             /\ IsInjective(subscriptions'[k])
             /\ native'["ros_to_web"][k] = (IF subscriptions'[k] = <<>> THEN 0 ELSE 1)
      BY <1>5, <2>2, <2>3, <2>6
    <2>9. QED
      BY <2>4, <2>7, <2>8 DEF EntityInv
  <1>7. CASE n \in Outputs
    <2>1. n \notin Inputs /\ Direction[n] = "ros_to_web"
      BY <1>1, <1>7, RegistryFacts
    <2>2. /\ publishers' = publishers
          /\ subscriptions' = [subscriptions EXCEPT ![EntityKey[n]] = Append(@, n)]
      BY <1>4, <1>7, <2>1
    <2>3. /\ Done' \cap Inputs = Done \cap Inputs
          /\ Done' \cap Outputs = (Done \cap Outputs) \cup {n}
      BY <1>1, <1>7, <2>1
    <2>4. publishers' = {EntityKey[m] : m \in Done' \cap Inputs}
      BY <1>5, <2>2, <2>3
    <2>5. native' = IF subscriptions[EntityKey[n]] # <<>> THEN native
                    ELSE [native EXCEPT !["ros_to_web"][EntityKey[n]] = @ + 1]
      BY <1>4, <2>1 DEF MakeEntity
    <2>6. \A k \in Keys : native'["web_to_ros"][k] = native["web_to_ros"][k]
      BY <2>5 DEF TypeOK
    <2>7. ASSUME NEW k \in Keys
          PROVE  /\ ToSet(subscriptions'[k]) = {m \in Done' \cap Outputs : EntityKey[m] = k}
                 /\ IsInjective(subscriptions'[k])
                 /\ native'["ros_to_web"][k] = (IF subscriptions'[k] = <<>> THEN 0 ELSE 1)
      <3>1. CASE k = EntityKey[n]
        <4>1. subscriptions'[k] = Append(subscriptions[k], n)
          BY <1>2, <2>2, <3>1 DEF TypeOK
        <4>2. n \notin ToSet(subscriptions[k])
          BY <1>1, <1>5
        <4>3. /\ subscriptions'[k] # <<>> /\ IsInjective(subscriptions'[k])
              /\ ToSet(subscriptions'[k]) = ToSet(subscriptions[k]) \cup {n}
          BY <1>3, <1>5, <1>7, <4>1, <4>2, AppendNew
        <4>4. ToSet(subscriptions'[k]) = {m \in Done' \cap Outputs : EntityKey[m] = k}
          BY <1>5, <2>3, <3>1, <4>3
        <4>5. native'["ros_to_web"][k] = 1
          BY <1>5, <2>5, <3>1 DEF TypeOK
        <4>6. QED
          BY <4>3, <4>4, <4>5
      <3>2. CASE k # EntityKey[n]
        <4>1. subscriptions'[k] = subscriptions[k]
          BY <1>2, <2>2, <3>2 DEF TypeOK
        <4>2. native'["ros_to_web"][k] = native["ros_to_web"][k]
          BY <1>2, <2>5, <3>2 DEF TypeOK
        <4>3. ToSet(subscriptions'[k]) = {m \in Done' \cap Outputs : EntityKey[m] = k}
          BY <1>5, <2>3, <3>2, <4>1
        <4>4. QED
          BY <1>5, <4>1, <4>2, <4>3
      <3>3. QED
        BY <3>1, <3>2
    <2>8. QED
      BY <1>5, <2>2, <2>4, <2>6, <2>7 DEF EntityInv
  <1>8. QED
    BY <1>1, <1>6, <1>7, RegistryFacts

\* Steps that make no entity leave EntityInv alone; closing only drops publishers.
LEMMA EntitiesKept ==
  ASSUME EntityInv, UNCHANGED <<registered, subscriptions, native>>,
         UNCHANGED publishers \/ state' = "closed", state = "closed" => state' = "closed"
  PROVE  EntityInv'
  BY DEF EntityInv, Done

\* Every step keeps StartInv.
LEMMA StartStep == TypeOK /\ StartInv /\ [Next]_adapterVars => StartInv'
  <1> SUFFICES ASSUME TypeOK, StartInv, [Next]_adapterVars PROVE StartInv'
    OBVIOUS
  <1>1. CASE Start
    BY <1>1, EntitiesKept DEF Start, StartInv, PhaseInv, TypeOK
  <1>2. CASE Register
    <2>1. PhaseInv'
      BY <1>2 DEF Register, StartInv, PhaseInv
    <2>2. QED
      BY <1>2, <2>1, RegisterEntities DEF StartInv
  <1>3. CASE Spin
    <2>1. PhaseInv'
      BY <1>3 DEF Spin, StartInv, PhaseInv
    <2>2. QED
      BY <1>3, <2>1, EntitiesKept DEF Spin, StartInv, PhaseInv
  <1>4. CASE StartFails
    <2>1. PhaseInv'
      BY <1>4 DEF StartFails, Cleanup, CloseAll, StartInv, PhaseInv
    <2>2. QED
      BY <1>4, <2>1, EntitiesKept DEF StartFails, Cleanup, CloseAll, StartInv
  <1>5. CASE Close
    <2>1. PhaseInv'
      BY <1>5 DEF Close, CloseAll, StartInv, PhaseInv, startVars
    <2>2. QED
      BY <1>5, <2>1, EntitiesKept DEF Close, CloseAll, StartInv, startVars
  <1>6. ASSUME NEW c \in Callbacks, NEW n \in NameSet, Subscribe(c, n) PROVE StartInv'
    BY <1>6, EntitiesKept DEF Subscribe, StartInv, PhaseInv, startVars
  <1>7. ASSUME NEW c \in Callbacks, Unsubscribe(c) PROVE StartInv'
    <2>1. state = "running"
      BY <1>7 DEF Unsubscribe, StartInv, PhaseInv, TypeOK
    <2>2. QED
      BY <1>7, <2>1, EntitiesKept DEF Unsubscribe, StartInv, PhaseInv, startVars
  <1>8. ASSUME UNCHANGED <<startVars, state, publishers, context, listeners>> PROVE StartInv'
    BY <1>8, EntitiesKept DEF StartInv, PhaseInv, startVars
  <1>9. QED
    BY <1>1, <1>2, <1>3, <1>4, <1>5, <1>6, <1>7, <1>8
       DEF Next, Invoke, Sample, NextAlias, SkipAlias, AliasEnds, Return, startVars, adapterVars

\* A new adapter satisfies StartInv.
LEMMA StartInit == Init => StartInv
  <1> SUFFICES ASSUME Init PROVE StartInv
    OBVIOUS
  <1>1. Done = {}
    BY DEF Init, Done
  <1>2. PhaseInv
    BY RegistryFacts DEF Init, PhaseInv
  <1>3. QED
    BY <1>1, <1>2, EmptySequence DEF Init, StartInv, EntityInv

\* Every moment of start() and close() accounts for the entities made so far.
THEOREM StartInvariant == Spec => [](TypeOK /\ StartInv)
  BY TypeInit, TypeStep, StartInit, StartStep, PTL DEF Spec

\* start() that returned holds exactly one native entity per direction and key with all
\* its names; start() that threw, and close(), leave nothing.
THEOREM StartedWholeOrNotAtAll == Spec => []StartAllOrNothing
  <1>1. TypeOK /\ StartInv => StartAllOrNothing
    <2> SUFFICES ASSUME TypeOK, StartInv PROVE StartAllOrNothing
      OBVIOUS
    <2>1. ASSUME state = "running"
          PROVE  /\ context = "open"
                 /\ publishers = {EntityKey[n] : n \in Inputs}
                 /\ \A k \in Keys :
                      /\ ToSet(subscriptions[k]) = {n \in Outputs : EntityKey[n] = k}
                      /\ IsInjective(subscriptions[k])
                      /\ native["ros_to_web"][k] = (IF subscriptions[k] = <<>> THEN 0 ELSE 1)
                      /\ native["web_to_ros"][k] = (IF k \in publishers THEN 1 ELSE 0)
      <3>1. Done = NameSet /\ context = "open"
        BY <2>1, AllDone DEF StartInv, PhaseInv, TypeOK
      <3>2. Done \cap Inputs = Inputs /\ Done \cap Outputs = Outputs
        BY <3>1, RegistryFacts
      <3>3. QED
        BY <2>1, <3>1, <3>2 DEF StartInv, EntityInv
    <2>2. ASSUME phase = "failed" \/ state = "closed"
          PROVE  context # "open" /\ publishers = {} /\ \A n \in NameSet : listeners[n] = {}
      BY <2>2 DEF StartInv, PhaseInv
    <2>3. QED
      BY <2>1, <2>2 DEF StartAllOrNothing
  <1>2. QED
    BY <1>1, StartInvariant, PTL

-----------------------------------------------------------------------------

\* A fan-out keeps its invariant while listeners come and go: subscribe() brings a
\* function of its own, and who stops listening is due no longer.
LEMMA FanKept ==
  ASSUME TypeOK, FanInv, UNCHANGED <<fan, heard>>, due' \subseteq due,
         AtHome', home' \in [Callbacks -> NameSet \cup {None}],
         \A c \in Callbacks : home'[c] # home[c] => home[c] = None,
         \A c \in due' : c \in listeners'[home'[c]]
  PROVE  FanInv'
  <1>1. AliasesDistinct'
    BY RegistryFacts DEF FanInv, AliasesDistinct, TypeOK
  <1>2. CalledInv'
    BY RegistryFacts DEF FanInv, CalledInv, TypeOK
  <1>3. DueInv'
    BY RegistryFacts DEF FanInv, DueInv, TypeOK
  <1>4. QED
    BY <1>1, <1>2, <1>3 DEF FanInv

\* A sample starts from the aliases of its subscription, all different.
LEMMA FanSample ==
  ASSUME TypeOK, StartInv, FanInv, NEW k \in Keys, Sample(k)
  PROVE  FanInv'
  <1>1. /\ fan'.aliases = subscriptions[k] /\ fan'.alias = None /\ fan'.todo = {}
        /\ heard' = [c \in Callbacks |-> 0] /\ listeners' = listeners /\ home' = home
        /\ due' = UNION {listeners[n] : n \in ToSet(subscriptions[k])}
    BY DEF Sample, NoFan
  <1>2. IsInjective(subscriptions[k]) /\ ToSet(subscriptions[k]) \subseteq Outputs
    BY DEF StartInv, EntityInv
  <1>3. AtHome'
    BY <1>1 DEF FanInv, AtHome
  <1>4. AliasesDistinct'
    BY <1>1, <1>2, RegistryFacts DEF AliasesDistinct
  <1>5. CalledInv'
    BY <1>1 DEF CalledInv
  <1>6. DueInv'
    <2>1. ASSUME NEW c \in due'
          PROVE  home[c] \in ToSet(subscriptions[k]) /\ c \in listeners[home[c]]
      <3>1. PICK n \in ToSet(subscriptions[k]) : c \in listeners[n]
        BY <1>1
      <3>2. home[c] = n
        BY <1>2, <3>1, RegistryFacts DEF FanInv, AtHome
      <3>3. QED
        BY <3>1, <3>2
    <2>2. QED
      BY <1>1, <1>2, <2>1, RegistryFacts DEF DueInv
  <1>7. QED
    BY <1>3, <1>4, <1>5, <1>6 DEF FanInv

\* What a step on the next alias may assume.
LEMMA HeadAlias ==
  ASSUME TypeOK, FanInv, fan.aliases # <<>>
  PROVE  /\ Head(fan.aliases) \in Outputs
         /\ ToSet(fan.aliases) = {Head(fan.aliases)} \cup ToSet(Tail(fan.aliases))
         /\ Head(fan.aliases) \notin ToSet(Tail(fan.aliases))
         /\ IsInjective(Tail(fan.aliases))
  <1>1. fan.aliases \in Seq(Outputs) /\ IsInjective(fan.aliases)
    BY DEF TypeOK, FanInv, AliasesDistinct
  <1>2. QED
    BY <1>1, HeadAndTail

\* receive() snapshots the listeners of the next alias.
LEMMA FanNextAlias ==
  ASSUME TypeOK, FanInv, NextAlias
  PROVE  FanInv'
  <1> PICK a, r : a = Head(fan.aliases) /\ r = Tail(fan.aliases)
    OBVIOUS
  <1>1. /\ a \in Outputs /\ a \in NameSet /\ a # None
        /\ ToSet(fan.aliases) = {a} \cup ToSet(r) /\ a \notin ToSet(r) /\ IsInjective(r)
    BY HeadAlias, RegistryFacts DEF NextAlias
  <1>2. /\ fan'.aliases = r /\ fan'.alias = a /\ fan'.todo = listeners[a]
        /\ UNCHANGED <<listeners, home, heard, due>> /\ fan.todo = {}
    BY DEF NextAlias, FanInv, AliasesDistinct
  <1>3. AtHome' /\ \A c \in listeners[a] : home[c] = a
    BY <1>1, <1>2 DEF FanInv, AtHome
  <1>4. AliasesDistinct'
    BY <1>1, <1>2, <1>3 DEF AliasesDistinct
  <1>5. CalledInv'
    BY <1>1, <1>2, <1>3 DEF FanInv, CalledInv
  <1>6. DueInv'
    BY <1>1, <1>2 DEF FanInv, DueInv
  <1>7. QED
    BY <1>3, <1>4, <1>5, <1>6 DEF FanInv

\* An alias whose sample is not delivered is due to nobody.
LEMMA FanSkipAlias ==
  ASSUME TypeOK, FanInv, SkipAlias
  PROVE  FanInv'
  <1> PICK a, r : a = Head(fan.aliases) /\ r = Tail(fan.aliases)
    OBVIOUS
  <1>1. /\ a \in Outputs /\ a \in NameSet /\ a # None
        /\ ToSet(fan.aliases) = {a} \cup ToSet(r) /\ a \notin ToSet(r) /\ IsInjective(r)
    BY HeadAlias, RegistryFacts DEF SkipAlias
  <1>2. /\ fan'.aliases = r /\ fan'.alias = None /\ fan'.todo = {} /\ fan.todo = {}
        /\ UNCHANGED <<listeners, home, heard>> /\ due' = due \ listeners[a]
    BY DEF SkipAlias, FanInv, AliasesDistinct, TypeOK
  <1>3. None \notin ToSet(r)
    BY <1>1 DEF SkipAlias, FanInv, AliasesDistinct
  <1>4. AtHome' /\ AliasesDistinct'
    BY <1>1, <1>2, <1>3 DEF FanInv, AtHome, AliasesDistinct
  <1>5. CalledInv'
    BY <1>1, <1>2 DEF FanInv, CalledInv
  <1>6. DueInv'
    BY <1>1, <1>2 DEF FanInv, DueInv
  <1>7. QED
    BY <1>4, <1>5, <1>6 DEF FanInv

\* A callback of the snapshot is called when it still listens, and is not due otherwise.
LEMMA FanInvoke ==
  ASSUME TypeOK, FanInv, NEW c \in Callbacks, Invoke(c)
  PROVE  FanInv'
  <1>1. /\ fan'.aliases = fan.aliases /\ fan'.alias = fan.alias
        /\ fan'.todo = fan.todo \ {c} /\ c \in fan.todo
        /\ UNCHANGED <<listeners, home, due>>
    BY DEF Invoke, TypeOK
  <1>2. home[c] = fan.alias /\ fan.alias # None /\ fan.alias \notin ToSet(fan.aliases)
    BY <1>1 DEF FanInv, AliasesDistinct
  <1>3. heard[c] = 0
    BY <1>1 DEF FanInv, CalledInv
  <1>4. AtHome' /\ AliasesDistinct'
    BY <1>1 DEF FanInv, AtHome, AliasesDistinct
  <1>5. CASE c \in listeners[fan.alias] /\ heard' = [heard EXCEPT ![c] = @ + 1]
    <2>1. heard'[c] = 1 /\ \A d \in Callbacks \ {c} : heard'[d] = heard[d]
      BY <1>3, <1>5 DEF TypeOK
    <2>2. CalledInv'
      BY <1>1, <1>2, <2>1 DEF FanInv, CalledInv
    <2>3. DueInv'
      BY <1>1, <2>1 DEF FanInv, DueInv, TypeOK
    <2>4. QED
      BY <1>4, <2>2, <2>3 DEF FanInv
  <1>6. CASE c \notin listeners[fan.alias] /\ heard' = heard
    <2>1. c \notin due
      BY <1>2, <1>6 DEF FanInv, DueInv
    <2>2. CalledInv' /\ DueInv'
      BY <1>1, <1>6, <2>1 DEF FanInv, CalledInv, DueInv
    <2>3. QED
      BY <1>4, <2>2 DEF FanInv
  <1>7. QED
    BY <1>5, <1>6 DEF Invoke, StillListening

\* Every step keeps FanInv.
LEMMA FanStep == TypeOK /\ StartInv /\ FanInv /\ [Next]_adapterVars => FanInv'
  <1> SUFFICES ASSUME TypeOK, StartInv, FanInv, [Next]_adapterVars PROVE FanInv'
    OBVIOUS
  <1>1. ASSUME UNCHANGED <<listeners, home, fan, heard, due>> PROVE FanInv'
    BY <1>1 DEF FanInv, AtHome, AliasesDistinct, CalledInv, DueInv
  <1>2. CASE StartFails
    <2>1. \A n \in NameSet : listeners[n] = {} /\ listeners'[n] = {}
      BY <1>2 DEF StartFails, Cleanup, CloseAll, StartInv, PhaseInv
    <2>2. due = {} /\ AtHome'
      BY <2>1 DEF FanInv, DueInv, AtHome
    <2>3. QED
      BY <1>2, <2>2, FanKept DEF StartFails, TypeOK, fanVars
  <1>3. CASE Close
    <2>1. AtHome'
      BY <1>3 DEF Close, CloseAll, FanInv, AtHome
    <2>2. QED
      BY <1>3, <2>1, FanKept DEF Close, TypeOK
  <1>4. ASSUME NEW c \in Callbacks, NEW n \in NameSet, Subscribe(c, n) PROVE FanInv'
    <2>1. AtHome'
      BY <1>4, RegistryFacts DEF Subscribe, FanInv, AtHome, TypeOK
    <2>2. c \notin due
      BY <1>4, RegistryFacts DEF Subscribe, FanInv, DueInv
    <2>3. \A d \in due : d \in listeners'[home'[d]]
      BY <1>4, <2>2 DEF Subscribe, FanInv, DueInv, TypeOK
    <2>4. QED
      BY <1>4, <2>1, <2>3, FanKept DEF Subscribe, TypeOK, fanVars
  <1>5. ASSUME NEW c \in Callbacks, Unsubscribe(c) PROVE FanInv'
    <2>1. AtHome'
      BY <1>5 DEF Unsubscribe, FanInv, AtHome, TypeOK
    <2>2. \A d \in due' : d \in listeners'[home'[d]]
      BY <1>5 DEF Unsubscribe, FanInv, DueInv, TypeOK
    <2>3. QED
      BY <1>5, <2>1, <2>2, FanKept DEF Unsubscribe, TypeOK
  <1>6. ASSUME NEW c \in Callbacks, Invoke(c) PROVE FanInv'
    BY <1>6, FanInvoke
  <1>7. ASSUME NEW k \in Keys, Sample(k) PROVE FanInv'
    BY <1>7, FanSample
  <1>8. CASE NextAlias
    BY <1>8, FanNextAlias
  <1>9. CASE SkipAlias
    BY <1>9, FanSkipAlias
  <1>10. CASE AliasEnds
    <2>1. /\ fan'.aliases = fan.aliases /\ fan'.alias = None /\ fan'.todo = fan.todo
          /\ fan.todo = {} /\ UNCHANGED <<listeners, home, heard, due>>
      BY <1>10 DEF AliasEnds, TypeOK
    <2>2. None \notin ToSet(fan.aliases)
      BY RegistryFacts DEF TypeOK, ToSet
    <2>3. QED
      BY <2>1, <2>2 DEF FanInv, AtHome, AliasesDistinct, CalledInv, DueInv
  <1>11. QED
    BY <1>1, <1>2, <1>3, <1>4, <1>5, <1>6, <1>7, <1>8, <1>9, <1>10
       DEF Next, Start, Register, Spin, Return, AfterCallback, fanVars, adapterVars

\* A new adapter satisfies FanInv.
LEMMA FanInit == Init => FanInv
  BY EmptySequence DEF Init, NoFan, FanInv, AtHome, AliasesDistinct, CalledInv, DueInv

\* A sample stands with every callback in one of three ways: called, in the snapshot,
\* or behind an alias to come.
THEOREM FanInvariant == Spec => [](TypeOK /\ StartInv /\ FanInv)
  <1>1. Init => TypeOK /\ StartInv /\ FanInv
    BY TypeInit, StartInit, FanInit
  <1>2. TypeOK /\ StartInv /\ FanInv /\ [Next]_adapterVars => (TypeOK /\ StartInv /\ FanInv)'
    BY TypeStep, StartStep, FanStep
  <1>3. QED
    BY <1>1, <1>2, PTL DEF Spec

\* Whatever the callbacks of a sample do, nobody hears it twice, and everyone who
\* listened throughout has heard it when its delivery is over.
THEOREM HeardExactlyOnce == Spec => []EveryListenerOnce
  <1>1. TypeOK /\ FanInv => EveryListenerOnce
    <2> SUFFICES ASSUME TypeOK, FanInv PROVE EveryListenerOnce
      OBVIOUS
    <2>1. \A c \in Callbacks : heard[c] <= 1
      BY DEF FanInv, CalledInv
    <2>2. ASSUME fan = NoFan, NEW c \in due PROVE heard[c] = 1
      BY <2>2, EmptySequence DEF FanInv, DueInv, NoFan
    <2>3. QED
      BY <2>1, <2>2 DEF EveryListenerOnce
  <1>2. QED
    BY <1>1, FanInvariant, PTL

\* No delivery, not even one that began before, calls a callback after it was
\* unsubscribed or the adapter closed.
THEOREM RemovedStaysSilent == Spec => NeverAfterRemoval
  <1>1. TypeOK /\ StartInv /\ FanInv /\ [Next]_adapterVars =>
          [\A c \in Callbacks : heard'[c] > heard[c] =>
             state = "running" /\ home[c] # None /\ c \in listeners[home[c]]]_adapterVars
    <2> SUFFICES ASSUME TypeOK, StartInv, FanInv, Next, NEW c \in Callbacks, heard'[c] > heard[c]
                 PROVE  state = "running" /\ home[c] # None /\ c \in listeners[home[c]]
      OBVIOUS
    <2>1. heard[c] \in Nat
      BY DEF TypeOK
    <2>2. ASSUME NEW d \in Callbacks, Invoke(d)
          PROVE  state = "running" /\ home[c] # None /\ c \in listeners[home[c]]
      <3>1. d = c /\ c \in fan.todo /\ c \in listeners[fan.alias]
        BY <2>1, <2>2 DEF Invoke, StillListening, TypeOK
      <3>2. home[c] = fan.alias /\ fan.alias # None
        BY <3>1 DEF FanInv, AliasesDistinct
      <3>3. home[c] \in NameSet
        BY <3>2 DEF TypeOK
      <3>4. QED
        BY <3>1, <3>2, <3>3 DEF StartInv, PhaseInv
    <2>3. ASSUME NEW k \in Keys, Sample(k) PROVE FALSE
      BY <2>1, <2>3 DEF Sample
    <2>4. QED
      BY <2>1, <2>2, <2>3
         DEF Next, Start, Register, Spin, StartFails, Close, Subscribe, Unsubscribe, NextAlias,
             SkipAlias, AliasEnds, Return, fanVars
  <1>2. QED
    BY <1>1, FanInvariant, PTL DEF Spec, NeverAfterRemoval

=============================================================================
