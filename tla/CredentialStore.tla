--------------------------- MODULE CredentialStore ---------------------------
(***************************************************************************)
(* scripts/credential-store.mjs: callers in any number of processes create *)
(* or read one credential file.  A step is one awaited file operation of a *)
(* caller; callers interleave at every step, an operation may fail with an *)
(* I/O error, a caller may be killed, and the machine may lose power.      *)
(*                                                                         *)
(* The file system is external.  It keeps what was synced; what was not    *)
(* may or may not be there after a power loss.  A file is named by the     *)
(* caller that wrote it, and so is the secret in it (32 random bytes).     *)
(***************************************************************************)
EXTENDS Naturals

CONSTANTS
  Callers,     \* calls of ensureCredential or readCredential, each made once
  None,        \* no file
  MaxLosses    \* bound of the model: power losses

ASSUME StoreAssumption == None \notin Callers /\ MaxLosses \in Nat

VARIABLES
  caller,   \* caller -> the call it makes, its next file operation, what it has read
  disk,     \* the file system as processes see it, and what of it is synced
  losses    \* power losses so far

storeVars == <<caller, disk, losses>>

Caller ==
  [op : {"ensure", "read"},
   pc : {"idle", "mkdir", "lookup", "stage", "write", "fsync", "link", "reread", "syncDir",
         "syncUp", "rm", "cleanup", "done", "failed", "killed"},
   value : Callers \cup {None},
   era : Nat]                         \* power losses before it read the value

Disk ==
  [dir : {"absent", "made", "kept"},  \* the directory; kept: its entry is synced
   target : Callers \cup {None},      \* the file linked at the credential's path
   kept : BOOLEAN,                    \* has the entry of the target been synced?
   content : [Callers -> {"none", "partial", "full"}],
   synced : SUBSET Callers,           \* files whose content is synced
   staging : SUBSET Callers]          \* callers whose .credential- directory exists

Running(c) == caller[c].pc \notin {"idle", "done", "failed", "killed"}

\* The file operation of c at one point of its program, which takes it to another.
Does(c, at, to, d) ==
  /\ caller[c].pc = at
  /\ caller' = [caller EXCEPT ![c].pc = to]
  /\ disk' = d
  /\ UNCHANGED losses

-----------------------------------------------------------------------------
(***************************************************************************)
(* ensureCredential and readCredential, one awaited operation at a time.   *)
(***************************************************************************)

Call(c, o) ==
  /\ caller[c].pc = "idle"
  /\ caller' = [caller EXCEPT ![c].op = o, ![c].pc = IF o = "ensure" THEN "mkdir" ELSE "lookup"]
  /\ UNCHANGED <<disk, losses>>

\* checkAncestors, then a recursive mkdir that leaves an existing directory alone.
Mkdir(c) ==
  Does(c, "mkdir", "lookup", [disk EXCEPT !.dir = IF @ = "absent" THEN "made" ELSE @])

\* readStored() accepts a file only with its whole content.
Validated == disk.target # None /\ disk.content[disk.target] = "full"

AfterRead_NoSync(c) == IF c \in disk.staging THEN "rm" ELSE "done"

\* A caller of ensure goes on to readDurable()'s sync, of read returns.
AfterRead(c) == IF caller[c].op = "ensure" THEN "syncDir" ELSE "done"

\* checkDirectory and readStored(), the first time or after link().
Read(c) ==
  /\ caller[c].pc \in {"lookup", "reread"}
  /\ Validated
  /\ caller' = [caller EXCEPT ![c].value = disk.target, ![c].era = losses,
                              ![c].pc = AfterRead(c)]
  /\ UNCHANGED <<disk, losses>>

\* ENOENT: ensure creates a candidate.
Missing(c) ==
  caller[c].op = "ensure" /\ disk.target = None /\ Does(c, "lookup", "stage", disk)

\* mkdtemp, and the candidate opened in it.
Stage(c) ==
  Does(c, "stage", "write",
       [disk EXCEPT !.staging = @ \cup {c}, !.content[c] = "partial"])

Write(c) == Does(c, "write", "fsync", [disk EXCEPT !.content[c] = "full"])

Fsync_Skipped(c) == Does(c, "fsync", "link", disk)

Fsync(c) == Does(c, "fsync", "link", [disk EXCEPT !.synced = @ \cup {c}])

\* link(2) never replaces: EEXIST leaves the winner's file.
Link(c) ==
  Does(c, "link", "reread",
       IF disk.target = None THEN [disk EXCEPT !.target = c, !.kept = FALSE] ELSE disk)

\* syncDirectoryTree(): the directory itself, then every ancestor.
SyncDir(c) == Does(c, "syncDir", "syncUp", [disk EXCEPT !.kept = TRUE])

SyncUp(c) ==
  Does(c, "syncUp", IF c \in disk.staging THEN "rm" ELSE "done", [disk EXCEPT !.dir = "kept"])

\* The finally clause of ensureCredential; a caller that failed before still fails.
Rm(c) ==
  LET removed == [disk EXCEPT !.staging = @ \ {c}] IN
  Does(c, "rm", "done", removed) \/ Does(c, "cleanup", "failed", removed)

\* An operation reports an error, or a reader finds no or an invalid file: the
\* candidate is removed if there is one, and the caller rejects.
Fails(c) ==
  /\ Running(c)
  /\ Does(c, caller[c].pc,
          IF c \in disk.staging /\ caller[c].pc \notin {"rm", "cleanup"}
          THEN "cleanup" ELSE "failed", disk)

-----------------------------------------------------------------------------

Kill(c) == Running(c) /\ Does(c, caller[c].pc, "killed", disk)

\* External.  Entries and contents that were not synced survive or not, each on its
\* own; what is left is on disk.
PowerLoss ==
  /\ losses < MaxLosses
  /\ losses' = losses + 1
  /\ caller' = [c \in Callers |->
       IF Running(c) THEN [caller[c] EXCEPT !.pc = "killed"] ELSE caller[c]]
  /\ \E dir \in IF disk.dir = "made" THEN {"absent", "kept"} ELSE {disk.dir},
        target \in IF disk.kept THEN {disk.target} ELSE {disk.target, None},
        torn \in SUBSET {c \in Callers \ disk.synced : disk.content[c] = "full"},
        staging \in SUBSET disk.staging :
       LET found == IF dir = "absent" THEN None ELSE target
           content == [c \in Callers |-> IF c \in torn THEN "partial" ELSE disk.content[c]]
       IN
       disk' = [dir |-> dir, target |-> found, kept |-> found # None,
                content |-> content,
                synced |-> {c \in Callers : content[c] = "full"},
                staging |-> IF dir = "absent" THEN {} ELSE staging]

-----------------------------------------------------------------------------

Init ==
  /\ caller = [c \in Callers |-> [op |-> "ensure", pc |-> "idle", value |-> None, era |-> 0]]
  /\ \E dir \in {"absent", "kept"} :
       disk = [dir |-> dir, target |-> None, kept |-> FALSE,
               content |-> [c \in Callers |-> "none"], synced |-> {}, staging |-> {}]
  /\ losses = 0

Step(c) ==
  \/ \E o \in {"ensure", "read"} : Call(c, o)
  \/ Mkdir(c) \/ Read(c) \/ Missing(c) \/ Stage(c) \/ Write(c) \/ Fsync(c) \/ Link(c)
  \/ SyncDir(c) \/ SyncUp(c) \/ Rm(c) \/ Fails(c) \/ Kill(c)

Next == PowerLoss \/ \E c \in Callers : Step(c)

Spec == Init /\ [][Next]_storeVars

-----------------------------------------------------------------------------

\* Type invariant.
TypeOK == caller \in [Callers -> Caller] /\ disk \in Disk /\ losses \in 0 .. MaxLosses

Returned(c) == caller[c].pc = "done"

\* At no moment, and after no crash, does the path hold a partly written credential
\* ("never a partially written destination"), and a caller that finished normally has
\* removed its candidate.
NeverPartial ==
  /\ disk.target # None => disk.content[disk.target] = "full"
  /\ \A c \in disk.staging : ~Returned(c)

\* "Create once": every credential returned between two power losses is the same, and
\* one that ensure returned is the one returned ever after.
OneCredential ==
  \A c, d \in Callers :
    /\ Returned(c) /\ Returned(d)
    /\ \/ caller[c].era = caller[d].era
       \/ caller[c].op = "ensure" /\ caller[c].era < caller[d].era
    => caller[c].value = caller[d].value

=============================================================================
