--------------------------- MODULE MCCommandGuard ---------------------------
(***************************************************************************)
(* The instance of CommandGuard for TLC: model values for epochs and       *)
(* topics, and the part of it that is explored.                            *)
(***************************************************************************)
EXTENDS CommandGuard, TLC

Symmetry == Permutations(Epochs) \cup Permutations(Topics)

\* The suspended operations of these phases.
Frames(phases) == {calls[i] : i \in {j \in DOMAIN calls : calls[j].phase \in phases}}

\* Only the first command of each handle is under way.
FirstCommands ==
  /\ \A h \in DOMAIN handles : handles[h].received <= 0
  /\ \A r \in tickets \cup {f.request : f \in Frames({"receive", "publish"})} : r.seq = 0

\* Leases on two topics that expire and are taken over, with hooks that are not nested.
Takeovers == Len(calls) <= 1 /\ FirstCommands

\* Hooks nested two deep on one topic, with two sessions or with several commands.
Nested ==
  /\ nextId < IF FirstCommands THEN MaxId ELSE MaxId - 1
  /\ lastTime < MaxTime /\ \A h \in DOMAIN handles : handles[h].lease.expiresAt < MaxTime
  /\ Cardinality({handles[h].topic : h \in DOMAIN handles} \cup {f.topic : f \in Frames({"open"})}
                 \cup {toRos[i].topic : i \in DOMAIN toRos}) <= 1

\* TLC goes on from states of either kind.
Explored == Takeovers \/ Nested

=============================================================================
