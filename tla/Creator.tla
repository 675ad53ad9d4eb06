------------------------------ MODULE Creator --------------------------------
(***************************************************************************)
(* grootfs create: groot/creator.go, the pull of the base image            *)
(* (base_image_puller/base_image_puller.go), the making of the image       *)
(* (store/image_manager) and the registration of its dependencies.         *)
(*                                                                         *)
(* A create holds the global lock shared from before the pull to its end.  *)
(* buildLayer(index) recurses from the top layer towards the bottom one,   *)
(* holding the exclusive lock of every chain id on the way that it did not *)
(* find, and unpacks the missing layers while it returns.                  *)
(***************************************************************************)
EXTENDS Locksmith, OverlayXFS, ImageStore

VARIABLES
  cpc,   \* the next call of the process
  job    \* its image id, base image, buildLayer's index, and the token of
         \* the download in progress

creatorVars == <<cpc, job>>

CreatorPC ==
  {"idle", "glock", "probe", "clock", "reprobe", "stream", "symlink", "linkfile",
   "unpack", "meta", "mvlink", "mvunlink", "mvsymlink", "mvdir", "dvsym", "dvlink",
   "dvmeta", "mkimage", "build", "own", "register", "regwrite", "undo", "undorm",
   "unlock"}

Job == [id: Id, image: Image, index: Nat, token: Token]

NoJob == [id |-> CHOOSE i \in Id : TRUE, image |-> CHOOSE s \in Image : TRUE,
          index |-> 0, token |-> CHOOSE t \in Token : TRUE]

CreatorInit ==
  /\ cpc = [p \in Creators |-> "idle"]
  /\ job = [p \in Creators |-> NoJob]

CreatorTypeOK ==
  /\ cpc \in [Creators -> CreatorPC]
  /\ job \in [Creators -> Job]

Layer(p) == job[p].image[job[p].index]
TempVolume(p) == Incomplete(Layer(p), job[p].token)

\* Process p goes from one point of its program to another.
Step(p, from, to) == cpc[p] = from /\ cpc' = [cpc EXCEPT ![p] = to]

------------------------------------------------------------------------------
(* Creator.Create up to the global lock *)

\* The id must be free; this check is made before any lock is taken.
StartCreate(p, i, image) ==
  /\ Cardinality({q \in Creators : cpc[q] # "idle"}) < spent.budget.creates
  /\ image \in spent.budget.images
  /\ ~ImageExists(i)
  /\ spent.budget.sameId \/ \A q \in Creators : cpc[q] # "idle" => job[q].id # i
  /\ Step(p, "idle", "glock")
  /\ job' = [job EXCEPT ![p] = [NoJob EXCEPT !.id = i, !.image = image]]
  /\ StartCommand
  /\ UNCHANGED <<lockVars, volVars, imgVars>>

\* FetchBaseImageInfo fails, or the lock file: nothing to release.
FetchBaseImageInfoFails(p) ==
  /\ Step(p, "glock", "idle")
  /\ job' = [job EXCEPT ![p] = NoJob]
  /\ CallFails
  /\ UNCHANGED <<lockVars, volVars, imgVars>>

\* The lock, and the entry of Pull: buildLayer for the topmost layer.
LockGlobalShared(p) ==
  /\ Step(p, "glock", "probe")
  /\ LockShared(p, GlobalLockKey)
  /\ job' = [job EXCEPT ![p].index = Len(job[p].image)]
  /\ UNCHANGED <<volVars, imgVars, spent>>

------------------------------------------------------------------------------
(* BaseImagePuller.buildLayer *)

\* buildLayer(index) returns nil: its caller downloads the layer above, or,
\* for the topmost layer, Pull is over.
LayerDone(p) ==
  IF job[p].index = Len(job[p].image)
  THEN cpc' = [cpc EXCEPT ![p] = "mkimage"] /\ UNCHANGED job
  ELSE /\ cpc' = [cpc EXCEPT ![p] = "stream"]
       /\ job' = [job EXCEPT ![p].index = @ + 1]

\* A pull gives up: every buildLayer in progress unlocks its chain id on the
\* way out, and Create goes on to its deferred Unlock.
GiveUpPull(p) ==
  /\ cpc' = [cpc EXCEPT ![p] = "unlock"]
  /\ Unlock(p, Chain)

ProbeVolume(p) ==
  /\ cpc[p] = "probe"
  /\ IF VolumeExists(Final(Layer(p)))
     THEN LayerDone(p)
     ELSE cpc' = [cpc EXCEPT ![p] = "clock"] /\ UNCHANGED job
  /\ UNCHANGED <<lockVars, volVars, imgVars, spent>>

\* Mutant of LockChain: with the shared locksmith.
LockChainShared(p) ==
  /\ Step(p, "clock", "reprobe")
  /\ LockShared(p, Layer(p))
  /\ UNCHANGED <<job, volVars, imgVars, spent>>

LockChain(p) ==
  /\ Step(p, "clock", "reprobe")
  /\ LockExclusive(p, Layer(p))
  /\ UNCHANGED <<job, volVars, imgVars, spent>>

ReprobeHit(p) ==
  /\ cpc[p] = "reprobe"
  /\ VolumeExists(Final(Layer(p)))
  /\ Unlock(p, {Layer(p)})
  /\ LayerDone(p)
  /\ UNCHANGED <<volVars, imgVars, spent>>

\* Mutant of ReprobeMiss: the layers below are not built first.
ReprobeMissAlone(p) ==
  /\ Step(p, "reprobe", "stream")
  /\ ~VolumeExists(Final(Layer(p)))
  /\ UNCHANGED <<job, lockVars, volVars, imgVars, spent>>

\* Mutant of ReprobeMiss: buildLayer calls itself for the layer it is at.
ReprobeMissSame(p) ==
  /\ Step(p, "reprobe", IF job[p].index > 1 THEN "probe" ELSE "stream")
  /\ ~VolumeExists(Final(Layer(p)))
  /\ UNCHANGED <<job, lockVars, volVars, imgVars, spent>>

ReprobeMiss(p) ==
  /\ cpc[p] = "reprobe"
  /\ ~VolumeExists(Final(Layer(p)))
  /\ IF job[p].index > 1
     THEN /\ cpc' = [cpc EXCEPT ![p] = "probe"]
          /\ job' = [job EXCEPT ![p].index = @ - 1]
     ELSE cpc' = [cpc EXCEPT ![p] = "stream"] /\ UNCHANGED job
  /\ UNCHANGED <<lockVars, volVars, imgVars, spent>>

------------------------------------------------------------------------------
(* downloadLayer, unpackLayer: the layer goes to a temporary volume *)

\* Mutant of StreamAndMkdir: the layer is unpacked under its chain id.
StreamAndMkdirInPlace(p) ==
  /\ Step(p, "stream", "symlink")
  /\ MakeVolumeDir(Final(Layer(p)))
  /\ UNCHANGED <<job, lockVars, imgVars, spent>>

\* StreamBlob succeeds, and CreateVolume makes the directory.  Tokens differ in
\* nothing but identity: any fresh one will do.
StreamAndMkdir(p) ==
  /\ Step(p, "stream", "symlink")
  /\ \E t \in Token : Fresh(t)
  /\ LET t == CHOOSE t \in Token : Fresh(t)
     IN  /\ job' = [job EXCEPT ![p].token = t]
         /\ MakeVolumeDir(Incomplete(Layer(p), t))
  /\ UNCHANGED <<lockVars, imgVars, spent>>

CreateSymlink(p) ==
  /\ Step(p, "symlink", "linkfile")
  /\ MakeSymlink(job[p].token, TempVolume(p))
  /\ UNCHANGED <<job, lockVars, imgVars, spent>>

CreateLinkFile(p) ==
  /\ Step(p, "linkfile", "unpack")
  /\ WriteLinkFile(TempVolume(p), job[p].token)
  /\ UNCHANGED <<job, lockVars, imgVars, spent>>

Unpack(p) ==
  /\ Step(p, "unpack", "meta")
  /\ FillVolume(TempVolume(p))
  /\ UNCHANGED <<job, lockVars, imgVars, spent>>

\* Mutant of UnpackFails: the error is dropped.
UnpackFailsUnseen(p) ==
  /\ Step(p, "unpack", "meta")
  /\ CallFails
  /\ UNCHANGED <<job, lockVars, volVars, imgVars>>

\* The unpacker fails: DestroyVolume is called with the chain id (the
\* temporary volume stays, for clean to find), then the error is returned.
UnpackFails(p) ==
  /\ Step(p, "unpack", "dvsym")
  /\ CallFails
  /\ UNCHANGED <<job, lockVars, volVars, imgVars>>

DestroyVolumeSymlink(p) ==
  /\ Step(p, "dvsym", "dvlink")
  /\ RemoveVolumeSymlink(Final(Layer(p)))
  /\ UNCHANGED <<job, lockVars, imgVars, spent>>

DestroyVolumeLinkFile(p) ==
  /\ Step(p, "dvlink", "dvmeta")
  /\ RemoveLinkFile(Final(Layer(p)))
  /\ UNCHANGED <<job, lockVars, imgVars, spent>>

\* Metadata, then RemoveAll of a directory that does not exist: the chain id
\* was probed under its lock.
DestroyVolumeMeta(p) ==
  /\ cpc[p] = "dvmeta"
  /\ RemoveVolumeMeta(Final(Layer(p)))
  /\ GiveUpPull(p)
  /\ UNCHANGED <<job, imgVars, spent>>

------------------------------------------------------------------------------
(* finalizeVolume: metadata under the final name, then MoveVolume *)

FinalizeMeta(p) ==
  /\ Step(p, "meta", "mvlink")
  /\ WriteVolumeMeta(Final(Layer(p)))
  /\ UNCHANGED <<job, lockVars, imgVars, spent>>

FinalizeLinkFile(p) ==
  /\ cpc[p] = "mvlink"
  /\ IF Movable(TempVolume(p))
     THEN /\ Step(p, "mvlink", "mvunlink")
          /\ MoveLinkFile(TempVolume(p), Final(Layer(p)))
          /\ UNCHANGED lockVars
     ELSE GiveUpPull(p) /\ UNCHANGED volVars
  /\ UNCHANGED <<job, imgVars, spent>>

FinalizeUnlink(p) ==
  /\ cpc[p] = "mvunlink"
  /\ IF sym[job[p].token] # None
     THEN /\ Step(p, "mvunlink", "mvsymlink")
          /\ RemoveSymlink(job[p].token)
          /\ UNCHANGED lockVars
     ELSE GiveUpPull(p) /\ UNCHANGED volVars
  /\ UNCHANGED <<job, imgVars, spent>>

FinalizeSymlink(p) ==
  /\ Step(p, "mvsymlink", "mvdir")
  /\ MakeSymlink(job[p].token, Final(Layer(p)))
  /\ UNCHANGED <<job, lockVars, imgVars, spent>>

\* The volume appears under its chain id; buildLayer unlocks and returns.
FinalizeDir(p) ==
  /\ cpc[p] = "mvdir"
  /\ RenameVolumeDir(TempVolume(p), Final(Layer(p)))
  /\ Unlock(p, {Layer(p)})
  /\ LayerDone(p)
  /\ UNCHANGED <<imgVars, spent>>

\* The quota check at the entry of Pull, or any other call of the pull, fails;
\* so may those of the DestroyVolume that follows a failed unpack.
PullFails(p) ==
  /\ cpc[p] \in {"probe", "clock", "stream", "symlink", "linkfile", "unpack", "meta",
                 "mvlink", "mvunlink", "mvsymlink", "mvdir", "dvsym", "dvlink", "dvmeta"}
  /\ GiveUpPull(p)
  /\ CallFails
  /\ UNCHANGED <<job, volVars, imgVars>>

------------------------------------------------------------------------------
(* ImageManager.Create, DependencyManager.Register *)

MkdirImage(p) ==
  /\ Step(p, "mkimage", "build")
  /\ ~ImageExists(job[p].id)
  /\ MakeImageDir(job[p].id)
  /\ UNCHANGED <<job, lockVars, volVars, spent>>

\* Mkdir fails because the path exists: the deferred cleanup runs all the same.
MkdirImageExists(p) ==
  /\ Step(p, "mkimage", "undo")
  /\ ImageExists(job[p].id)
  /\ UNCHANGED <<job, lockVars, volVars, imgVars, spent>>

\* CreateImage: the image path and every base volume must be there.
CreateImageReady(p) ==
  /\ ImageExists(job[p].id)
  /\ \A c \in Layers(job[p].image) : LowerDirFound(Final(c))

\* Mutant of CreateImage: stacked on the topmost base volume only.
CreateImageTopOnly(p) ==
  /\ Step(p, "build", "own")
  /\ CreateImageReady(p)
  /\ BuildRootfs(job[p].id, {job[p].image[Len(job[p].image)]})
  /\ UNCHANGED <<job, lockVars, volVars, spent>>

CreateImage(p) ==
  /\ Step(p, "build", "own")
  /\ CreateImageReady(p)
  /\ BuildRootfs(job[p].id, Layers(job[p].image))
  /\ UNCHANGED <<job, lockVars, volVars, spent>>

CreateImageNotReady(p) ==
  /\ Step(p, "build", "undo")
  /\ ~CreateImageReady(p)
  /\ UNCHANGED <<job, lockVars, volVars, imgVars, spent>>

\* Mkdir, disk limit, directories, mount or image info failing.
CreateImageFails(p) ==
  /\ cpc[p] \in {"mkimage", "build"}
  /\ cpc' = [cpc EXCEPT ![p] = "undo"]
  /\ CallFails
  /\ UNCHANGED <<job, lockVars, volVars, imgVars>>

SetOwnership(p) ==
  /\ Step(p, "own", "register")
  /\ UNCHANGED <<job, lockVars, volVars, imgVars, spent>>

\* The error of setOwnership shadows the one the cleanup tests: the image
\* directory stays.
SetOwnershipFails(p) ==
  /\ Step(p, "own", "unlock")
  /\ CallFails
  /\ UNCHANGED <<job, lockVars, volVars, imgVars>>

RegisterOpen(p) ==
  /\ Step(p, "register", "regwrite")
  /\ OpenDepFile(job[p].id)
  /\ UNCHANGED <<job, lockVars, volVars, spent>>

RegisterWrite(p) ==
  /\ Step(p, "regwrite", "unlock")
  /\ WriteDepFile(job[p].id, Layers(job[p].image))
  /\ UNCHANGED <<job, lockVars, volVars, spent>>

\* Register fails, and Create destroys the image.
RegisterFails(p) ==
  /\ cpc[p] \in {"register", "regwrite"}
  /\ cpc' = [cpc EXCEPT ![p] = "undo"]
  /\ CallFails
  /\ UNCHANGED <<job, lockVars, volVars, imgVars>>

\* DestroyImage of the cleanup, in its two steps.
UndoUnmount(p) ==
  /\ Step(p, "undo", "undorm")
  /\ UnmountImage(job[p].id)
  /\ UNCHANGED <<job, lockVars, volVars, spent>>

UndoRemove(p) ==
  /\ Step(p, "undorm", "unlock")
  /\ RemoveImageDir(job[p].id)
  /\ UNCHANGED <<job, lockVars, volVars, spent>>

\* A call of the cleanup fails, which is logged: the cleanup of ImageManager.Create
\* goes on to RemoveAll, the one after a failed Register does not.
UndoFails(p) ==
  /\ \/ Step(p, "undo", "undorm")
     \/ Step(p, "undo", "unlock")
     \/ Step(p, "undorm", "unlock")
  /\ CallFails
  /\ UNCHANGED <<job, lockVars, volVars, imgVars>>

\* The deferred Unlock; the process ends.  A clean started by
\* --with-clean is a process of its own (groot/async_cleaner.go).
EndCreate(p) ==
  /\ Step(p, "unlock", "idle")
  /\ job' = [job EXCEPT ![p] = NoJob]
  /\ ReleaseAll(p)
  /\ UNCHANGED <<volVars, imgVars, spent>>

KillCreate(p) ==
  /\ cpc[p] # "idle"
  /\ cpc' = [cpc EXCEPT ![p] = "idle"]
  /\ job' = [job EXCEPT ![p] = NoJob]
  /\ ReleaseAll(p)
  /\ Killed
  /\ UNCHANGED <<volVars, imgVars>>

------------------------------------------------------------------------------

\* What a running create does by itself.
CreateStep(p) ==
  \/ LockGlobalShared(p) \/ ProbeVolume(p) \/ LockChain(p)
  \/ ReprobeHit(p) \/ ReprobeMiss(p)
  \/ StreamAndMkdir(p) \/ CreateSymlink(p) \/ CreateLinkFile(p) \/ Unpack(p)
  \/ DestroyVolumeSymlink(p) \/ DestroyVolumeLinkFile(p) \/ DestroyVolumeMeta(p)
  \/ FinalizeMeta(p) \/ FinalizeLinkFile(p) \/ FinalizeUnlink(p)
  \/ FinalizeSymlink(p) \/ FinalizeDir(p)
  \/ MkdirImage(p) \/ MkdirImageExists(p) \/ CreateImage(p) \/ CreateImageNotReady(p)
  \/ SetOwnership(p) \/ RegisterOpen(p) \/ RegisterWrite(p)
  \/ UndoUnmount(p) \/ UndoRemove(p) \/ EndCreate(p)

\* What happens to it.
CreateFault(p) ==
  \/ FetchBaseImageInfoFails(p) \/ UnpackFails(p) \/ PullFails(p)
  \/ CreateImageFails(p) \/ SetOwnershipFails(p) \/ RegisterFails(p)
  \/ UndoFails(p) \/ KillCreate(p)
==============================================================================
