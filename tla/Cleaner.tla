------------------------------ MODULE Cleaner --------------------------------
(***************************************************************************)
(* grootfs clean: commands/clean.go, groot/cleaner.go and                  *)
(* store/garbage_collector/gc.go.  The command takes the gc lock, then the *)
(* global lock exclusively; under both it finds the volumes no image       *)
(* depends on and renames each to gc.<id>; it releases the global lock     *)
(* and destroys every gc. volume, its own and those left by others.        *)
(***************************************************************************)
EXTENDS Locksmith, OverlayXFS, ImageStore

VARIABLES
  gpc,      \* the next call of the process
  queue,    \* orphaned volumes still to mark, or gc. volumes still to destroy
  ids,      \* images whose dependencies are still to be read
  cur,      \* the volume being marked or destroyed
  late,     \* a goroutine still waits for the global lock after its timeout
  garbage   \* history: volumes that were unused when the images were listed

cleanerVars == <<gpc, queue, ids, cur, late, garbage>>

CleanerPC ==
  {"idle", "gclock", "measure", "glock", "list", "deps", "mark", "mvunlink",
   "mvsymlink", "mvdir", "mvmeta", "unlock", "collect", "destroy", "dvlink",
   "dvmeta", "dvdir", "metrics"}

CleanerInit ==
  /\ gpc = [g \in Cleaners |-> "idle"]
  /\ queue = [g \in Cleaners |-> {}]
  /\ ids = [g \in Cleaners |-> {}]
  /\ cur = [g \in Cleaners |-> None]
  /\ late = [g \in Cleaners |-> FALSE]
  /\ garbage = [g \in Cleaners |-> {}]

CleanerTypeOK ==
  /\ gpc \in [Cleaners -> CleanerPC]
  /\ queue \in [Cleaners -> SUBSET Name]
  /\ ids \in [Cleaners -> SUBSET Id]
  /\ cur \in [Cleaners -> Name \cup {None}]
  /\ late \in [Cleaners -> BOOLEAN]
  /\ garbage \in [Cleaners -> SUBSET Name]

Goto(g, to) == gpc' = [gpc EXCEPT ![g] = to]
At(g, from, to) == gpc[g] = from /\ Goto(g, to)

\* The process ends: nothing of it is left but what it did to the store.
ExitClean(g) ==
  /\ Goto(g, "idle")
  /\ queue' = [queue EXCEPT ![g] = {}]
  /\ ids' = [ids EXCEPT ![g] = {}]
  /\ cur' = [cur EXCEPT ![g] = None]
  /\ late' = [late EXCEPT ![g] = FALSE]
  /\ garbage' = [garbage EXCEPT ![g] = {}]
  /\ ReleaseAll(g)

------------------------------------------------------------------------------
(* The command, up to collectGarbage *)

StartClean(g) ==
  /\ At(g, "idle", "gclock")
  /\ StartCommand
  /\ UNCHANGED <<queue, ids, cur, late, garbage, lockVars, volVars, imgVars>>

LockGC(g) ==
  /\ At(g, "gclock", "measure")
  /\ LockExclusive(g, GCLockKey)
  /\ UNCHANGED <<queue, ids, cur, late, garbage, volVars, imgVars, spent>>

\* LockWithTimeout gives up on the gc lock; the command exits at once.
LockGCTimeout(g) ==
  /\ gpc[g] = "gclock"
  /\ ExitClean(g)
  /\ UNCHANGED <<volVars, imgVars, spent>>

\* cleaner.run: below the threshold there is nothing to do.
Measure(g) ==
  /\ gpc[g] = "measure"
  /\ \E to \in {"glock", "metrics"} : Goto(g, to)
  /\ UNCHANGED <<queue, ids, cur, late, garbage, lockVars, volVars, imgVars, spent>>

LockGlobalExclusive(g) ==
  /\ At(g, "glock", "list")
  /\ LockExclusive(g, GlobalLockKey)
  /\ UNCHANGED <<queue, ids, cur, late, garbage, volVars, imgVars, spent>>

\* LockWithTimeout gives up on the global lock.  Its goroutine does not, and
\* may yet take the lock, which is then held until the process ends.
LockGlobalTimeout(g) ==
  /\ At(g, "glock", "metrics")
  /\ late' = [late EXCEPT ![g] = TRUE]
  /\ UNCHANGED <<queue, ids, cur, garbage, lockVars, volVars, imgVars, spent>>

LockGlobalLate(g) ==
  /\ gpc[g] = "metrics"
  /\ late[g]
  /\ LockExclusive(g, GlobalLockKey)
  /\ late' = [late EXCEPT ![g] = FALSE]
  /\ UNCHANGED <<gpc, queue, ids, cur, garbage, volVars, imgVars, spent>>

------------------------------------------------------------------------------
(* GarbageCollector.UnusedVolumes *)

\* The volumes, then the images; volumes cannot change in between, since
\* creates are kept out by the global lock.
ListVolumesAndImages(g) ==
  /\ At(g, "list", "deps")
  /\ queue' = [queue EXCEPT ![g] = {n \in Volumes : ~n.gc}]
  /\ ids' = [ids EXCEPT ![g] = ImageIDs]
  /\ garbage' = [garbage EXCEPT ![g] =
       {n \in Volumes : ~n.gc /\ (n = Final(n.chain) => ~InUse(n.chain))}]
  /\ UNCHANGED <<cur, late, lockVars, volVars, imgVars, spent>>

ReadDependencies(g, i) ==
  /\ gpc[g] = "deps"
  /\ i \in ids[g]
  /\ depFile[i] = "whole"
  /\ queue' = [queue EXCEPT ![g] = @ \ {Final(c) : c \in deps[i]}]
  /\ ids' = [ids EXCEPT ![g] = @ \ {i}]
  /\ UNCHANGED <<gpc, cur, late, garbage, lockVars, volVars, imgVars, spent>>

\* Mutant of ReadDependenciesError: the error does not stop the marking.
ReadDependenciesErrorIgnored(g, i) ==
  /\ At(g, "deps", "mark")
  /\ i \in ids[g]
  /\ depFile[i] # "whole"
  /\ ids' = [ids EXCEPT ![g] = {}]
  /\ UNCHANGED <<queue, cur, late, garbage, lockVars, volVars, imgVars, spent>>

\* The dependencies of a listed image are missing or do not parse: the error
\* is logged, and nothing is marked.
ReadDependenciesError(g, i) ==
  /\ At(g, "deps", "mark")
  /\ i \in ids[g]
  /\ depFile[i] # "whole"
  /\ queue' = [queue EXCEPT ![g] = {}]
  /\ ids' = [ids EXCEPT ![g] = {}]
  /\ UNCHANGED <<cur, late, garbage, lockVars, volVars, imgVars, spent>>

DependenciesRead(g) ==
  /\ At(g, "deps", "mark")
  /\ ids[g] = {}
  /\ UNCHANGED <<queue, ids, cur, late, garbage, lockVars, volVars, imgVars, spent>>

\* A directory or a dependency file cannot be read: the same.
UnusedVolumesFails(g) ==
  /\ gpc[g] \in {"list", "deps"}
  /\ Goto(g, "mark")
  /\ queue' = [queue EXCEPT ![g] = {}]
  /\ ids' = [ids EXCEPT ![g] = {}]
  /\ CallFails
  /\ UNCHANGED <<cur, late, garbage, lockVars, volVars, imgVars>>

------------------------------------------------------------------------------
(* MarkUnused: MarkVolumeArtifacts, that is MoveVolume and the metadata    *)

\* Mutant of MarkNext: one volume is marked, the others are forgotten.
MarkNextOnly(g, n) ==
  /\ At(g, "mark", "mvunlink")
  /\ n \in queue[g]
  /\ Movable(n)
  /\ queue' = [queue EXCEPT ![g] = {}]
  /\ cur' = [cur EXCEPT ![g] = n]
  /\ MoveLinkFile(n, GcName(n))
  /\ UNCHANGED <<ids, late, garbage, lockVars, imgVars, spent>>

\* Mutant of MarkNext: a volume stays in the list, and is tried again.
MarkNextAgain(g, n) ==
  /\ gpc[g] = "mark"
  /\ n \in queue[g]
  /\ IF Movable(n)
     THEN /\ Goto(g, "mvunlink")
          /\ cur' = [cur EXCEPT ![g] = n]
          /\ MoveLinkFile(n, GcName(n))
     ELSE UNCHANGED <<gpc, cur, volVars>>
  /\ UNCHANGED <<queue, ids, late, garbage, lockVars, imgVars, spent>>

MarkNext(g, n) ==
  /\ gpc[g] = "mark"
  /\ n \in queue[g]
  /\ queue' = [queue EXCEPT ![g] = @ \ {n}]
  /\ IF Movable(n)
     THEN /\ Goto(g, "mvunlink")
          /\ cur' = [cur EXCEPT ![g] = n]
          /\ MoveLinkFile(n, GcName(n))
     ELSE UNCHANGED <<gpc, cur, volVars>>
  /\ UNCHANGED <<ids, late, garbage, lockVars, imgVars, spent>>

\* The short id that MoveVolume read before it renamed the link file.
MarkUnlink(g) ==
  /\ gpc[g] = "mvunlink"
  /\ LET t == link[GcName(cur[g])]
     IN  IF sym[t] # None
         THEN Goto(g, "mvsymlink") /\ RemoveSymlink(t) /\ UNCHANGED cur
         ELSE Goto(g, "mark") /\ cur' = [cur EXCEPT ![g] = None] /\ UNCHANGED volVars
  /\ UNCHANGED <<queue, ids, late, garbage, lockVars, imgVars, spent>>

MarkSymlink(g) ==
  /\ At(g, "mvsymlink", "mvdir")
  /\ MakeSymlink(link[GcName(cur[g])], GcName(cur[g]))
  /\ UNCHANGED <<queue, ids, cur, late, garbage, lockVars, imgVars, spent>>

MarkDir(g) ==
  /\ At(g, "mvdir", "mvmeta")
  /\ RenameVolumeDir(cur[g], GcName(cur[g]))
  /\ UNCHANGED <<queue, ids, cur, late, garbage, lockVars, imgVars, spent>>

MarkMeta(g) ==
  /\ At(g, "mvmeta", "mark")
  /\ MoveVolumeMeta(cur[g], GcName(cur[g]))
  /\ cur' = [cur EXCEPT ![g] = None]
  /\ UNCHANGED <<queue, ids, late, garbage, lockVars, imgVars, spent>>

\* The first rename of MoveVolume fails: the volume stays as it is.
MarkNextFails(g, n) ==
  /\ gpc[g] = "mark"
  /\ n \in queue[g]
  /\ queue' = [queue EXCEPT ![g] = @ \ {n}]
  /\ CallFails
  /\ UNCHANGED <<gpc, ids, cur, late, garbage, lockVars, volVars, imgVars>>

\* A later call of MarkVolumeArtifacts fails: the error is kept for the log,
\* and the next volume is tried.
MarkFails(g) ==
  /\ gpc[g] \in {"mvunlink", "mvsymlink", "mvdir", "mvmeta"}
  /\ Goto(g, "mark")
  /\ cur' = [cur EXCEPT ![g] = None]
  /\ CallFails
  /\ UNCHANGED <<queue, ids, late, garbage, lockVars, volVars, imgVars>>

MarkDone(g) ==
  /\ At(g, "mark", "unlock")
  /\ queue[g] = {}
  /\ UNCHANGED <<queue, ids, cur, late, garbage, lockVars, volVars, imgVars, spent>>

UnlockGlobal(g) ==
  /\ At(g, "unlock", "collect")
  /\ Unlock(g, {GlobalLockKey})
  /\ UNCHANGED <<queue, ids, cur, late, garbage, volVars, imgVars, spent>>

------------------------------------------------------------------------------
(* Collect: DestroyVolume of every gc. volume, under the gc lock only      *)

\* Mutant of GcVolumes: volumes without the gc. prefix are taken too.
GcVolumesAll(g) ==
  /\ At(g, "collect", "destroy")
  /\ queue' = [queue EXCEPT ![g] = Volumes]
  /\ UNCHANGED <<ids, cur, late, garbage, lockVars, volVars, imgVars, spent>>

GcVolumes(g) ==
  /\ At(g, "collect", "destroy")
  /\ queue' = [queue EXCEPT ![g] = {n \in Volumes : n.gc}]
  /\ UNCHANGED <<ids, cur, late, garbage, lockVars, volVars, imgVars, spent>>

\* Mutant of DestroyNext: one volume is destroyed, the others are forgotten.
DestroyNextOnly(g, n) ==
  /\ At(g, "destroy", "dvlink")
  /\ n \in queue[g]
  /\ queue' = [queue EXCEPT ![g] = {}]
  /\ cur' = [cur EXCEPT ![g] = n]
  /\ RemoveVolumeSymlink(n)
  /\ UNCHANGED <<ids, late, garbage, lockVars, imgVars, spent>>

DestroyNext(g, n) ==
  /\ At(g, "destroy", "dvlink")
  /\ n \in queue[g]
  /\ queue' = [queue EXCEPT ![g] = @ \ {n}]
  /\ cur' = [cur EXCEPT ![g] = n]
  /\ RemoveVolumeSymlink(n)
  /\ UNCHANGED <<ids, late, garbage, lockVars, imgVars, spent>>

DestroyLinkFile(g) ==
  /\ At(g, "dvlink", "dvmeta")
  /\ RemoveLinkFile(cur[g])
  /\ UNCHANGED <<queue, ids, cur, late, garbage, lockVars, imgVars, spent>>

DestroyMeta(g) ==
  /\ At(g, "dvmeta", "dvdir")
  /\ RemoveVolumeMeta(cur[g])
  /\ UNCHANGED <<queue, ids, cur, late, garbage, lockVars, imgVars, spent>>

DestroyDirBegin(g) ==
  /\ gpc[g] = "dvdir"
  /\ vol[cur[g]] = "whole"
  /\ RemoveVolumeDir(cur[g], "partial")
  /\ UNCHANGED <<cleanerVars, lockVars, imgVars, spent>>

DestroyDirEnd(g) ==
  /\ At(g, "dvdir", "destroy")
  /\ RemoveVolumeDir(cur[g], "absent")
  /\ cur' = [cur EXCEPT ![g] = None]
  /\ UNCHANGED <<queue, ids, late, garbage, lockVars, imgVars, spent>>

\* volumes/ cannot be read: Collect is over.
GcVolumesFails(g) ==
  /\ At(g, "collect", "metrics")
  /\ CallFails
  /\ UNCHANGED <<queue, ids, cur, late, garbage, lockVars, volVars, imgVars>>

\* The first call of DestroyVolume fails: remembered for the exit status,
\* next volume ...
DestroyNextFails(g, n) ==
  /\ gpc[g] = "destroy"
  /\ n \in queue[g]
  /\ queue' = [queue EXCEPT ![g] = @ \ {n}]
  /\ CallFails
  /\ UNCHANGED <<gpc, ids, cur, late, garbage, lockVars, volVars, imgVars>>

\* ... or the removal of the metadata: logged, and the directory goes ...
DestroyMetaFails(g) ==
  /\ At(g, "dvmeta", "dvdir")
  /\ CallFails
  /\ UNCHANGED <<queue, ids, cur, late, garbage, lockVars, volVars, imgVars>>

\* ... or another call: as the first.
DestroyFails(g) ==
  /\ gpc[g] \in {"dvlink", "dvdir"}
  /\ Goto(g, "destroy")
  /\ cur' = [cur EXCEPT ![g] = None]
  /\ CallFails
  /\ UNCHANGED <<queue, ids, late, garbage, lockVars, volVars, imgVars>>

CollectDone(g) ==
  /\ At(g, "destroy", "metrics")
  /\ queue[g] = {}
  /\ UNCHANGED <<queue, ids, cur, late, garbage, lockVars, volVars, imgVars, spent>>

------------------------------------------------------------------------------
(* The ways out *)

\* The sizes are measured, without lock, and the gc lock is released.
EndClean(g) ==
  /\ gpc[g] = "metrics"
  /\ ExitClean(g)
  /\ UNCHANGED <<volVars, imgVars, spent>>

\* cleaner.Clean stops waiting for run: the command exits, wherever run is.
CleaningTimeout(g) ==
  /\ gpc[g] \notin {"idle", "gclock", "metrics"}
  /\ ExitClean(g)
  /\ TimedOut
  /\ UNCHANGED <<volVars, imgVars>>

KillClean(g) ==
  /\ gpc[g] # "idle"
  /\ ExitClean(g)
  /\ Killed
  /\ UNCHANGED <<volVars, imgVars>>

\* What a running clean does by itself.
CleanStep(g) ==
  \/ LockGC(g) \/ LockGCTimeout(g) \/ Measure(g)
  \/ LockGlobalExclusive(g) \/ LockGlobalTimeout(g) \/ LockGlobalLate(g)
  \/ ListVolumesAndImages(g)
  \/ \E i \in Id : ReadDependencies(g, i) \/ ReadDependenciesError(g, i)
  \/ DependenciesRead(g)
  \/ \E n \in Name : MarkNext(g, n)
  \/ MarkUnlink(g) \/ MarkSymlink(g) \/ MarkDir(g) \/ MarkMeta(g)
  \/ MarkDone(g) \/ UnlockGlobal(g) \/ GcVolumes(g)
  \/ \E n \in Name : DestroyNext(g, n)
  \/ DestroyLinkFile(g) \/ DestroyMeta(g) \/ DestroyDirBegin(g) \/ DestroyDirEnd(g)
  \/ CollectDone(g) \/ EndClean(g)

\* What happens to it.
CleanFault(g) ==
  \/ UnusedVolumesFails(g) \/ MarkFails(g) \/ GcVolumesFails(g)
  \/ \E n \in Name : MarkNextFails(g, n) \/ DestroyNextFails(g, n)
  \/ DestroyMetaFails(g) \/ DestroyFails(g)
  \/ CleaningTimeout(g) \/ KillClean(g)
==============================================================================
