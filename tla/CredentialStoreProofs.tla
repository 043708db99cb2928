------------------------ MODULE CredentialStoreProofs ------------------------
(***************************************************************************)
(* Proofs about CredentialStore, for any number of callers and of power    *)
(* losses: the credential is never partly written, and is created once.    *)
(***************************************************************************)
EXTENDS CredentialStore, TLAPS

\* Where a caller has not yet tried to link its candidate.
Unlinked == {"idle", "mkdir", "lookup", "stage", "write", "fsync", "link"}

\* Where an ensure holds a credential it has read and not yet returned.
Syncing == {"syncDir", "syncUp", "rm"}

\* What is linked is written and synced, and a caller's file is linked by itself only.
WrittenBeforeLinked ==
  /\ disk.target # None => disk.target \in disk.synced /\ disk.content[disk.target] = "full"
  /\ \A c \in Callers :
       /\ caller[c].pc \in {"fsync", "link"} => disk.content[c] = "full"
       /\ caller[c].pc = "link" => c \in disk.synced
       /\ caller[c].pc \in Unlinked => disk.target # c

\* Only an ensure between mkdtemp and its finally clause, or one that failed or was
\* killed there, has a candidate on disk.
CandidateOwned ==
  /\ \A c \in disk.staging :
       /\ caller[c].op = "ensure"
       /\ caller[c].pc \notin {"idle", "mkdir", "lookup", "stage", "done"}
  /\ \A c \in Callers : caller[c].pc = "stage" => caller[c].op = "ensure"

\* What a caller has read was linked when it read it; nothing replaces it before the
\* next power loss, and a caller that is still running has seen no loss since.
ReadIsLinked ==
  \A c \in Callers :
    /\ caller[c].era <= losses
    /\ caller[c].pc \in Syncing \cup {"done"} => caller[c].value # None
    /\ caller[c].pc \in Syncing => caller[c].op = "ensure" /\ caller[c].era = losses
    /\ caller[c].value # None /\ caller[c].era = losses => caller[c].value = disk.target
    /\ \A d \in Callers :
         /\ caller[c].value # None /\ caller[d].value # None
         /\ caller[c].era = caller[d].era
         => caller[c].value = caller[d].value

\* syncDirectoryTree() has made the link durable before ensure returns.
SyncedBeforeReturned ==
  \A c \in Callers :
    /\ caller[c].pc \in {"syncUp", "rm"} => disk.kept
    /\ caller[c].pc = "rm" => disk.dir = "kept"
    /\ Returned(c) /\ caller[c].op = "ensure" =>
         /\ disk.kept /\ disk.dir = "kept" /\ disk.target = caller[c].value
         /\ \A d \in Callers :
              caller[d].value # None /\ caller[c].era < caller[d].era
              => caller[d].value = caller[c].value

\* The inductive invariant of the store.
StoreInv == WrittenBeforeLinked /\ CandidateOwned /\ ReadIsLinked /\ SyncedBeforeReturned

-----------------------------------------------------------------------------
(***************************************************************************)
(* Type correctness.                                                       *)
(***************************************************************************)

Pcs ==
  {"idle", "mkdir", "lookup", "stage", "write", "fsync", "link", "reread", "syncDir",
   "syncUp", "rm", "cleanup", "done", "failed", "killed"}

\* A file operation that leaves a well-formed disk keeps the types.
LEMMA TypeDoes ==
  ASSUME TypeOK, NEW c \in Callers, NEW at, NEW to \in Pcs, NEW d \in Disk,
         Does(c, at, to, d)
  PROVE  TypeOK'
  <1>1. caller' \in [Callers -> Caller]
    BY DEF TypeOK, Caller, Does, Pcs
  <1>2. QED
    BY <1>1 DEF TypeOK, Does

\* Every step of a caller is a file operation, a call or a read.
LEMMA StepType ==
  ASSUME TypeOK, NEW c \in Callers, Step(c)
  PROVE  TypeOK'
  <1> USE DEF Pcs
  <1>1. disk \in Disk /\ losses \in Nat /\ caller[c] \in Caller
    BY StoreAssumption DEF TypeOK
  <1>2. ASSUME NEW o \in {"ensure", "read"}, Call(c, o) PROVE TypeOK'
    <2>1. caller' \in [Callers -> Caller]
      BY <1>2 DEF TypeOK, Caller, Call
    <2>2. QED
      BY <1>2, <2>1 DEF TypeOK, Call
  <1>3. CASE Read(c)
    <2>1. AfterRead(c) \in {"syncDir", "done"} /\ disk.target \in Callers \cup {None}
      BY <1>1 DEF AfterRead, Disk
    <2>2. caller' \in [Callers -> Caller]
      BY <1>1, <1>3, <2>1 DEF TypeOK, Caller, Read
    <2>3. QED
      BY <1>3, <2>2 DEF TypeOK, Read
  <1>4. CASE Mkdir(c)
    <2>1. [disk EXCEPT !.dir = IF @ = "absent" THEN "made" ELSE @] \in Disk
      BY <1>1 DEF Disk
    <2>2. QED
      BY <1>4, <2>1, TypeDoes DEF Mkdir
  <1>5. CASE Missing(c) \/ Fails(c) \/ Kill(c)
    BY <1>1, <1>5, TypeDoes DEF Missing, Fails, Kill
  <1>6. CASE Stage(c)
    <2>1. [disk EXCEPT !.staging = @ \cup {c}, !.content[c] = "partial"] \in Disk
      BY <1>1 DEF Disk
    <2>2. QED
      BY <1>6, <2>1, TypeDoes DEF Stage
  <1>7. CASE Write(c)
    <2>1. [disk EXCEPT !.content[c] = "full"] \in Disk
      BY <1>1 DEF Disk
    <2>2. QED
      BY <1>7, <2>1, TypeDoes DEF Write
  <1>8. CASE Fsync(c)
    <2>1. [disk EXCEPT !.synced = @ \cup {c}] \in Disk
      BY <1>1 DEF Disk
    <2>2. QED
      BY <1>8, <2>1, TypeDoes DEF Fsync
  <1>9. CASE Link(c)
    <2>1. [disk EXCEPT !.target = c, !.kept = FALSE] \in Disk
      BY <1>1 DEF Disk
    <2>2. QED
      BY <1>1, <1>9, <2>1, TypeDoes DEF Link
  <1>10. CASE SyncDir(c)
    <2>1. [disk EXCEPT !.kept = TRUE] \in Disk
      BY <1>1 DEF Disk
    <2>2. QED
      BY <1>10, <2>1, TypeDoes DEF SyncDir
  <1>11. CASE SyncUp(c)
    <2>1. [disk EXCEPT !.dir = "kept"] \in Disk
      BY <1>1 DEF Disk
    <2>2. QED
      BY <1>11, <2>1, TypeDoes DEF SyncUp
  <1>12. CASE Rm(c)
    <2>1. [disk EXCEPT !.staging = @ \ {c}] \in Disk
      BY <1>1 DEF Disk
    <2>2. QED
      BY <1>12, <2>1, TypeDoes DEF Rm
  <1>13. QED
    BY <1>2, <1>3, <1>4, <1>5, <1>6, <1>7, <1>8, <1>9, <1>10, <1>11, <1>12 DEF Step

\* What a power loss leaves: no caller runs, and what was synced is still there.
LEMMA PowerLossProperties ==
  ASSUME TypeOK, PowerLoss
  PROVE  /\ losses' = losses + 1 /\ losses' \in 0 .. MaxLosses
         /\ caller' \in [Callers -> Caller]
         /\ \A c \in Callers :
              /\ caller'[c].op = caller[c].op /\ caller'[c].value = caller[c].value
              /\ caller'[c].era = caller[c].era
              /\ caller'[c].pc = IF Running(c) THEN "killed" ELSE caller[c].pc
         /\ disk' \in Disk
         /\ disk'.target \in {disk.target, None}
         /\ disk.kept /\ disk.dir = "kept" =>
              /\ disk'.target = disk.target /\ disk'.dir = "kept"
              /\ disk.target # None => disk'.kept
         /\ disk'.staging \subseteq disk.staging
         /\ \A c \in Callers : /\ c \in disk.synced => disk'.content[c] = disk.content[c]
                               /\ disk'.content[c] = "full" => c \in disk'.synced
  <1>1. losses' = losses + 1 /\ losses' \in 0 .. MaxLosses
    BY StoreAssumption DEF TypeOK, PowerLoss
  <1>2. caller' \in [Callers -> Caller]
    BY DEF TypeOK, Caller, PowerLoss
  <1>3. \A c \in Callers :
          /\ caller'[c].op = caller[c].op /\ caller'[c].value = caller[c].value
          /\ caller'[c].era = caller[c].era
          /\ caller'[c].pc = IF Running(c) THEN "killed" ELSE caller[c].pc
    BY DEF TypeOK, Caller, PowerLoss
  <1>4. PICK dir \in IF disk.dir = "made" THEN {"absent", "kept"} ELSE {disk.dir},
             target \in IF disk.kept THEN {disk.target} ELSE {disk.target, None},
             torn \in SUBSET {c \in Callers \ disk.synced : disk.content[c] = "full"},
             staging \in SUBSET disk.staging :
          LET found == IF dir = "absent" THEN None ELSE target
              content == [c \in Callers |-> IF c \in torn THEN "partial" ELSE disk.content[c]]
          IN
          disk' = [dir |-> dir, target |-> found, kept |-> found # None,
                   content |-> content,
                   synced |-> {c \in Callers : content[c] = "full"},
                   staging |-> IF dir = "absent" THEN {} ELSE staging]
    BY DEF PowerLoss
  <1>5. disk \in Disk
    BY DEF TypeOK
  <1>6. disk' \in Disk
    BY <1>4, <1>5 DEF Disk
  <1>7. QED
    BY <1>1, <1>2, <1>3, <1>4, <1>5, <1>6 DEF Disk

\* Type correctness is inductive.
LEMMA TypeNext == TypeOK /\ [Next]_storeVars => TypeOK'
  <1> SUFFICES ASSUME TypeOK, [Next]_storeVars PROVE TypeOK'
    OBVIOUS
  <1>1. CASE PowerLoss
    BY <1>1, PowerLossProperties DEF TypeOK
  <1>2. CASE UNCHANGED storeVars
    BY <1>2 DEF TypeOK, storeVars
  <1>3. QED
    BY <1>1, <1>2, StepType DEF Next

\* Nobody has called, and there is no credential.
LEMMA TypeInit == Init => TypeOK
  BY StoreAssumption DEF Init, TypeOK, Caller, Disk

\* Type correctness: the file system and the program of every caller are well formed.
THEOREM TypeCorrect == Spec => []TypeOK
  BY TypeInit, TypeNext, PTL DEF Spec

-----------------------------------------------------------------------------
(***************************************************************************)
(* The inductive invariant.  Most operations change one thing on the disk; *)
(* the lemmas say of each part of the invariant which steps can disturb it. *)
(***************************************************************************)

\* Nothing is on disk and nobody holds a credential.
LEMMA InvInit == Init => StoreInv
  BY StoreAssumption DEF Init, StoreInv, WrittenBeforeLinked, CandidateOwned, ReadIsLinked,
     SyncedBeforeReturned, Unlinked, Syncing, Returned

\* Steps that neither read the credential nor touch what is durable.
LEMMA InvQuiet ==
  ASSUME TypeOK, StoreInv, NEW c \in Callers,
         Mkdir(c) \/ Missing(c) \/ Fails(c) \/ Kill(c) \/ \E o \in {"ensure", "read"} : Call(c, o)
  PROVE  StoreInv'
  <1>1. /\ losses' = losses
        /\ disk'.target = disk.target /\ disk'.kept = disk.kept
        /\ disk'.content = disk.content /\ disk'.synced = disk.synced
        /\ disk'.staging = disk.staging
        /\ disk.dir = "kept" => disk'.dir = "kept"
    <2>1. disk \in Disk
      BY DEF TypeOK
    <2>2. QED
      BY <2>1 DEF Mkdir, Missing, Fails, Kill, Call, Does, Disk
  <1>2. \A x \in Callers :
          /\ caller'[x].value = caller[x].value /\ caller'[x].era = caller[x].era
          /\ x # c => caller'[x] = caller[x]
    BY DEF TypeOK, Caller, Mkdir, Missing, Fails, Kill, Call, Does
  <1>3. /\ caller'[c].pc \in {"mkdir", "lookup", "stage", "cleanup", "failed", "killed"}
        /\ caller'[c].pc \in {"mkdir", "lookup", "stage"} => caller[c].pc \in Unlinked
        /\ caller'[c].op = caller[c].op \/ caller[c].pc = "idle"
        /\ caller'[c].pc \in {"mkdir", "lookup", "stage"} => c \notin disk.staging
        /\ caller'[c].pc = "stage" => caller'[c].op = "ensure"
        /\ caller[c].pc # "done"
    <2>1. caller[c] \in Caller /\ caller' = [caller EXCEPT ![c] = caller'[c]]
      BY DEF TypeOK, Caller, Mkdir, Missing, Fails, Kill, Call, Does
    <2>2. QED
      BY <2>1 DEF TypeOK, Caller, Mkdir, Missing, Fails, Kill, Call, Does, Unlinked, Running,
         StoreInv, CandidateOwned
  <1>4. WrittenBeforeLinked'
    BY <1>1, <1>2, <1>3 DEF StoreInv, WrittenBeforeLinked, Unlinked
  <1>5. CandidateOwned'
    BY <1>1, <1>2, <1>3 DEF StoreInv, CandidateOwned, TypeOK, Disk
  <1>6. ReadIsLinked'
    BY <1>1, <1>2, <1>3 DEF StoreInv, ReadIsLinked, Syncing
  <1>7. SyncedBeforeReturned'
    BY <1>1, <1>2, <1>3 DEF StoreInv, SyncedBeforeReturned, Returned
  <1>8. QED
    BY <1>4, <1>5, <1>6, <1>7 DEF StoreInv

\* A read takes what is linked, in the present era: it agrees with every other read of
\* this era, and with what an ensure returned before, which is still linked.
LEMMA InvRead ==
  ASSUME TypeOK, StoreInv, NEW c \in Callers, Read(c)
  PROVE  StoreInv'
  <1>1. /\ disk' = disk /\ losses' = losses /\ disk.target # None
        /\ caller[c].pc \in {"lookup", "reread"}
    BY DEF Read, Validated
  <1>2. /\ caller'[c].op = caller[c].op
        /\ caller'[c].value = disk.target /\ caller'[c].era = losses
        /\ caller'[c].pc = IF caller[c].op = "ensure" THEN "syncDir" ELSE "done"
        /\ \A x \in Callers : x # c => caller'[x] = caller[x]
    BY DEF TypeOK, Caller, Read, AfterRead
  <1>3. losses \in Nat /\ \A x \in Callers : caller[x].era \in Nat
    BY StoreAssumption DEF TypeOK, Caller
  <1>4. WrittenBeforeLinked' /\ CandidateOwned'
    BY <1>1, <1>2 DEF StoreInv, WrittenBeforeLinked, CandidateOwned, Unlinked, TypeOK, Disk
  <1>5. ReadIsLinked'
    BY <1>1, <1>2, <1>3 DEF StoreInv, ReadIsLinked, Syncing
  <1>6. SyncedBeforeReturned'
    BY <1>1, <1>2, <1>3 DEF StoreInv, SyncedBeforeReturned, ReadIsLinked, Returned
  <1>7. QED
    BY <1>4, <1>5, <1>6 DEF StoreInv

\* A candidate is staged, written and synced before anybody can find it.
LEMMA InvCandidate ==
  ASSUME TypeOK, StoreInv, NEW c \in Callers, Stage(c) \/ Write(c) \/ Fsync(c)
  PROVE  StoreInv'
  <1>1. /\ losses' = losses /\ disk'.dir = disk.dir
        /\ disk'.target = disk.target /\ disk'.kept = disk.kept
        /\ disk.synced \subseteq disk'.synced
        /\ \A x \in Callers \ {c} : disk'.content[x] = disk.content[x]
        /\ \/ disk'.staging = disk.staging
           \/ disk'.staging = disk.staging \cup {c} /\ caller'[c].pc = "write"
        /\ caller'[c].pc \in {"fsync", "link"} => disk'.content[c] = "full"
        /\ caller'[c].pc = "link" => c \in disk'.synced
    <2>1. disk \in Disk
      BY DEF TypeOK
    <2>2. CASE Stage(c)
      BY <2>1, <2>2 DEF Stage, Does, Disk, TypeOK, Caller
    <2>3. CASE Write(c)
      BY <2>1, <2>3 DEF Write, Does, Disk, TypeOK, Caller
    <2>4. CASE Fsync(c)
      BY <2>1, <2>4
         DEF Fsync, Does, Disk, TypeOK, Caller, StoreInv, WrittenBeforeLinked
    <2>5. QED
      BY <2>2, <2>3, <2>4
  <1>2. \A x \in Callers :
          /\ caller'[x].value = caller[x].value /\ caller'[x].era = caller[x].era
          /\ caller'[x].op = caller[x].op
          /\ x # c => caller'[x] = caller[x]
    BY DEF TypeOK, Caller, Stage, Write, Fsync, Does
  <1>3. caller[c].pc \in {"stage", "write", "fsync"} /\ caller'[c].pc \in {"write", "fsync", "link"}
    BY DEF TypeOK, Caller, Stage, Write, Fsync, Does
  <1>4. disk.target \in Callers \cup {None} /\ disk.target # c /\ None \notin Callers
    BY <1>3, StoreAssumption DEF TypeOK, Disk, StoreInv, WrittenBeforeLinked, Unlinked
  <1>5. WrittenBeforeLinked'
    BY <1>1, <1>2, <1>3, <1>4 DEF StoreInv, WrittenBeforeLinked, Unlinked
  <1>6. CandidateOwned'
    <2>1. caller'[c].pc = "write" => caller[c].op = "ensure"
      BY DEF TypeOK, Caller, Stage, Write, Fsync, Does, StoreInv, CandidateOwned
    <2>2. QED
      BY <1>1, <1>2, <1>3, <2>1 DEF StoreInv, CandidateOwned, TypeOK, Disk
  <1>7. ReadIsLinked'
    BY <1>1, <1>2, <1>3 DEF StoreInv, ReadIsLinked, Syncing
  <1>8. SyncedBeforeReturned'
    BY <1>1, <1>2, <1>3 DEF StoreInv, SyncedBeforeReturned, Returned
  <1>9. QED
    BY <1>5, <1>6, <1>7, <1>8 DEF StoreInv

\* link(2) publishes a synced file where there was none; then no ensure has returned and
\* nobody has read anything in this era.
LEMMA InvLink ==
  ASSUME TypeOK, StoreInv, NEW c \in Callers, Link(c)
  PROVE  StoreInv'
  <1>1. /\ losses' = losses /\ disk'.dir = disk.dir
        /\ disk'.content = disk.content /\ disk'.synced = disk.synced
        /\ disk'.staging = disk.staging
        /\ caller[c].pc = "link" /\ caller'[c].pc = "reread"
        /\ \/ disk.target # None /\ disk'.target = disk.target /\ disk'.kept = disk.kept
           \/ disk.target = None /\ disk'.target = c
    <2>1. disk \in Disk
      BY DEF TypeOK
    <2>2. QED
      BY <2>1 DEF Link, Does, Disk, TypeOK, Caller
  <1>2. \A x \in Callers :
          /\ caller'[x].value = caller[x].value /\ caller'[x].era = caller[x].era
          /\ caller'[x].op = caller[x].op
          /\ x # c => caller'[x] = caller[x]
    BY DEF TypeOK, Caller, Link, Does
  <1>3. WrittenBeforeLinked'
    BY <1>1, <1>2 DEF StoreInv, WrittenBeforeLinked, Unlinked
  <1>4. CandidateOwned'
    BY <1>1, <1>2 DEF StoreInv, CandidateOwned, TypeOK, Disk
  <1>5. disk.target = None =>
          \A x \in Callers : /\ ~(caller[x].value # None /\ caller[x].era = losses)
                             /\ ~(Returned(x) /\ caller[x].op = "ensure")
                             /\ caller[x].pc \notin Syncing
    BY DEF StoreInv, ReadIsLinked, SyncedBeforeReturned, Returned
  <1>6. ReadIsLinked'
    BY <1>1, <1>2, <1>5 DEF StoreInv, ReadIsLinked, Syncing
  <1>7. SyncedBeforeReturned'
    BY <1>1, <1>2, <1>5 DEF StoreInv, SyncedBeforeReturned, Returned, Syncing
  <1>8. QED
    BY <1>3, <1>4, <1>6, <1>7 DEF StoreInv

\* The syncs before ensure returns make the link durable; the caller that returns has
\* read it in this era, and no later era has begun.
LEMMA InvReturn ==
  ASSUME TypeOK, StoreInv, NEW c \in Callers, SyncDir(c) \/ SyncUp(c) \/ Rm(c)
  PROVE  StoreInv'
  <1>1. /\ losses' = losses /\ disk'.target = disk.target
        /\ disk'.content = disk.content /\ disk'.synced = disk.synced
        /\ disk'.staging \subseteq disk.staging
        /\ disk.kept => disk'.kept
        /\ disk.dir = "kept" => disk'.dir = "kept"
        /\ caller[c].pc \in Syncing \cup {"cleanup"}
        /\ caller'[c].pc \in {"syncUp", "rm", "done", "failed"}
        /\ caller'[c].pc \in {"syncUp", "rm", "done"} => caller[c].pc \in Syncing
        /\ caller'[c].pc \in {"syncUp", "rm", "done"} => disk'.kept
        /\ caller'[c].pc \in {"rm", "done"} => disk'.dir = "kept"
        /\ caller'[c].pc = "done" => c \notin disk'.staging
    <2>1. disk \in Disk
      BY DEF TypeOK
    <2>2. CASE SyncDir(c)
      BY <2>1, <2>2 DEF SyncDir, Does, Disk, Syncing, TypeOK, Caller
    <2>3. CASE SyncUp(c)
      BY <2>1, <2>3
         DEF SyncUp, Does, Disk, Syncing, TypeOK, Caller, StoreInv, SyncedBeforeReturned
    <2>4. CASE Rm(c)
      BY <2>1, <2>4
         DEF Rm, Does, Disk, Syncing, TypeOK, Caller, StoreInv, SyncedBeforeReturned
    <2>5. QED
      BY <2>2, <2>3, <2>4
  <1>2. \A x \in Callers :
          /\ caller'[x].value = caller[x].value /\ caller'[x].era = caller[x].era
          /\ caller'[x].op = caller[x].op
          /\ x # c => caller'[x] = caller[x]
    BY DEF TypeOK, Caller, SyncDir, SyncUp, Rm, Does
  <1>3. losses \in Nat /\ \A x \in Callers : caller[x].era \in Nat
    BY StoreAssumption DEF TypeOK, Caller
  <1>4. WrittenBeforeLinked'
    BY <1>1, <1>2 DEF StoreInv, WrittenBeforeLinked, Unlinked
  <1>5. CandidateOwned'
    BY <1>1, <1>2 DEF StoreInv, CandidateOwned, TypeOK, Disk
  <1>6. ReadIsLinked'
    BY <1>1, <1>2 DEF StoreInv, ReadIsLinked, Syncing
  <1>7. SyncedBeforeReturned'
    BY <1>1, <1>2, <1>3 DEF StoreInv, SyncedBeforeReturned, ReadIsLinked, Returned, Syncing
  <1>8. QED
    BY <1>4, <1>5, <1>6, <1>7 DEF StoreInv

\* A power loss stops everybody and begins an era in which nobody has read anything.
LEMMA InvPowerLoss ==
  ASSUME TypeOK, StoreInv, PowerLoss
  PROVE  StoreInv'
  <1>1. losses \in Nat /\ losses' = losses + 1 /\ \A x \in Callers : caller[x].era \in Nat
    BY PowerLossProperties, StoreAssumption DEF TypeOK, Caller
  <1>2. \A x \in Callers :
          /\ caller'[x].value = caller[x].value /\ caller'[x].era = caller[x].era
          /\ caller'[x].op = caller[x].op
          /\ caller'[x].pc \in {"idle", "done", "failed", "killed"}
          /\ caller'[x].pc = caller[x].pc \/ caller'[x].pc = "killed"
    BY PowerLossProperties DEF Running
  <1>3. WrittenBeforeLinked'
    <2>1. /\ disk.target \in Callers \cup {None} /\ disk'.target \in {disk.target, None}
          /\ \A x \in Callers : /\ x \in disk.synced => disk'.content[x] = disk.content[x]
                                /\ disk'.content[x] = "full" => x \in disk'.synced
      BY PowerLossProperties DEF TypeOK, Disk
    <2>2. QED
      BY <1>2, <2>1, StoreAssumption DEF StoreInv, WrittenBeforeLinked, Unlinked
  <1>4. CandidateOwned'
    <2>1. disk'.staging \subseteq disk.staging /\ disk.staging \subseteq Callers
      BY PowerLossProperties DEF TypeOK, Disk
    <2>2. QED
      BY <1>2, <2>1 DEF StoreInv, CandidateOwned
  <1>5. ReadIsLinked'
    BY <1>1, <1>2 DEF StoreInv, ReadIsLinked, Syncing
  <1>6. SyncedBeforeReturned'
    BY <1>1, <1>2, PowerLossProperties DEF StoreInv, SyncedBeforeReturned, ReadIsLinked, Returned
  <1>7. QED
    BY <1>3, <1>4, <1>5, <1>6 DEF StoreInv

\* The invariant is inductive.
LEMMA InvNext == TypeOK /\ StoreInv /\ [Next]_storeVars => StoreInv'
  <1> SUFFICES ASSUME TypeOK, StoreInv, [Next]_storeVars PROVE StoreInv'
    OBVIOUS
  <1>1. CASE UNCHANGED storeVars
    BY <1>1 DEF storeVars, StoreInv, WrittenBeforeLinked, CandidateOwned, ReadIsLinked,
       SyncedBeforeReturned, Returned
  <1>2. QED
    BY <1>1, InvPowerLoss, InvQuiet, InvRead, InvCandidate, InvLink, InvReturn DEF Next, Step

\* The inductive invariant: written and synced before linked, read after linked, the
\* link synced before ensure returns.
THEOREM StoreInvariant == Spec => []StoreInv
  BY TypeCorrect, InvInit, InvNext, PTL DEF Spec

\* For any number of callers and crashes the path never holds a partly written
\* credential, and a caller that returned has removed its candidate.
THEOREM NeverPartlyWritten == Spec => []NeverPartial
  <1>1. StoreInv => NeverPartial
    BY DEF StoreInv, WrittenBeforeLinked, CandidateOwned, NeverPartial, Returned
  <1>2. QED
    BY <1>1, StoreInvariant, PTL

\* For any number of callers and crashes the credential is created once.
THEOREM CreatedOnce == Spec => []OneCredential
  <1>1. TypeOK /\ StoreInv => OneCredential
    BY DEF StoreInv, ReadIsLinked, SyncedBeforeReturned, OneCredential, Returned
  <1>2. QED
    BY <1>1, TypeCorrect, StoreInvariant, PTL

=============================================================================
