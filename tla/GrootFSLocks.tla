---------------------------- MODULE GrootFSLocks -----------------------------
(***************************************************************************)
(* The types of GrootFS and who excludes whom, for all constants.          *)
(*                                                                         *)
(* The type of a volume name depends on buildLayer's index being one of    *)
(* the image's layers, and clean renames and destroys the volume it has in *)
(* hand: the inductive invariant adds what these are.                      *)
(*                                                                         *)
(* For the locks it says which ones a command holds at every point of its  *)
(* program: a create in buildLayer holds the lock of its layer and of      *)
(* every layer above it that it still has to download, which is what keeps *)
(* two creates off one layer.  That the locks of the layers above survive  *)
(* the unlocking of the layer below rests on the chain ids of an image     *)
(* being distinct.                                                         *)
(*                                                                         *)
(* The converse, who can be holding a lock, then shows that no commands    *)
(* wait for each other in a circle.                                        *)
(***************************************************************************)
EXTENDS GrootFS, WellFoundedInduction, TLAPS

\* buildLayer's index is a position in the base image.
IndexOK ==
  \A p \in Creators : Creating(p) => job[p].index \in 1 .. Len(job[p].image)

\* Clean marks volumes that are not marked yet, and destroys marked ones.
MarkPC == {"mvunlink", "mvsymlink", "mvdir", "mvmeta"}
DestroyPC == {"dvlink", "dvmeta", "dvdir"}

CleanNames ==
  \A g \in Cleaners :
    /\ gpc[g] \in {"deps", "mark"} \cup MarkPC => \A n \in queue[g] : n.gc = FALSE
    /\ gpc[g] \in MarkPC => cur[g] \in Name /\ cur[g].gc = FALSE
    /\ gpc[g] \in {"destroy"} \cup DestroyPC => \A n \in queue[g] : n.gc = TRUE
    /\ gpc[g] \in DestroyPC => cur[g] \in Name /\ cur[g].gc = TRUE

Types == TypeOK /\ IndexOK /\ CleanNames

\* The job of an idle create is a job.
LEMMA NoJobType == NoJob \in Job
<1>1. /\ (CHOOSE i \in Id : TRUE) \in Id
      /\ (CHOOSE s \in Image : TRUE) \in Image
      /\ (CHOOSE t \in Token : TRUE) \in Token
  BY ImageAssumption
<1>2. QED
  BY <1>1 DEF NoJob, Job

\* Chain ids, temporary names and gc. names are volume ids.
LEMMA NameTypes ==
  ASSUME NEW c \in Chain, NEW t \in Token, NEW n \in Name
  PROVE  Final(c) \in Name /\ Incomplete(c, t) \in Name /\ GcName(n) \in Name
BY DEF Name, Final, Incomplete, GcName

\* A base image is a non-empty sequence of chain ids.
LEMMA ImageTypes ==
  ASSUME NEW s \in Image
  PROVE  /\ s \in Seq(Chain) /\ Len(s) \in Nat /\ Len(s) > 0
         /\ DOMAIN s = 1 .. Len(s)
         /\ \A k \in 1 .. Len(s) : s[k] \in Chain
         /\ Layers(s) \in SUBSET Chain
BY ImageAssumption DEF Layers

\* While buildLayer's index is within the image, its layer is a chain id.
LEMMA LayerType ==
  ASSUME Types, NEW p \in Creators, Creating(p)
  PROVE  Layer(p) \in Chain /\ TempVolume(p) \in Name /\ Final(Layer(p)) \in Name
<1>1. job[p] \in Job /\ job[p].index \in 1 .. Len(job[p].image)
  BY DEF Types, TypeOK, CreatorTypeOK, IndexOK
<1>2. job[p].image \in Image /\ job[p].token \in Token
  BY <1>1 DEF Job
<1>3. Layer(p) \in Chain
  BY <1>1, <1>2, ImageTypes DEF Layer
<1>4. QED
  BY <1>2, <1>3 DEF TempVolume, Name, Final, Incomplete

(* The parts of the state keep their types under the operators that change them. *)

\* Lock and Unlock keep the types of the lock table.
LEMMA LockOps ==
  ASSUME LockTypeOK, NEW p \in Process, NEW k \in LockKey
  PROVE  /\ LockShared(p, k) => LockTypeOK'
         /\ LockExclusive(p, k) => LockTypeOK'
         /\ \A K : Unlock(p, K) => LockTypeOK'
         /\ ReleaseAll(p) => LockTypeOK'
BY DEF LockTypeOK, LockShared, LockExclusive, Unlock, ReleaseAll

\* Starting a command, failing, being killed and timing out count up.
LEMMA BudgetOps ==
  ASSUME BudgetTypeOK
  PROVE  /\ StartCommand => BudgetTypeOK'
         /\ CallFails => BudgetTypeOK'
         /\ Killed => BudgetTypeOK'
         /\ TimedOut => BudgetTypeOK'
BY DEF BudgetTypeOK, StartCommand, CallFails, Killed, TimedOut

\* Every system call on a volume keeps the types of the volume state.
LEMMA VolOps ==
  ASSUME VolTypeOK, NEW n \in Name, NEW m \in Name, NEW t \in Token
  PROVE  /\ MakeVolumeDir(n) => VolTypeOK'
         /\ MakeSymlink(t, n) => VolTypeOK'
         /\ WriteLinkFile(n, t) => VolTypeOK'
         /\ FillVolume(n) => VolTypeOK'
         /\ WriteVolumeMeta(n) => VolTypeOK'
         /\ MoveLinkFile(n, m) => VolTypeOK'
         /\ RenameVolumeDir(n, m) => VolTypeOK'
         /\ MoveVolumeMeta(n, m) => VolTypeOK'
         /\ RemoveVolumeSymlink(n) => VolTypeOK'
         /\ RemoveLinkFile(n) => VolTypeOK'
         /\ RemoveVolumeMeta(n) => VolTypeOK'
         /\ RemoveVolumeDir(n, "partial") => VolTypeOK'
         /\ RemoveVolumeDir(n, "absent") => VolTypeOK'
BY DEF VolTypeOK, MakeVolumeDir, MakeSymlink, WriteLinkFile, FillVolume,
       WriteVolumeMeta, MoveLinkFile, RenameVolumeDir, MoveVolumeMeta,
       RemoveVolumeSymlink, RemoveLinkFile, RemoveVolumeMeta, RemoveVolumeDir

\* So do the symlink calls of a move, whatever short id was read.
LEMMA SymOps ==
  ASSUME VolTypeOK, NEW t, NEW n \in Name
  PROVE  /\ RemoveSymlink(t) => VolTypeOK'
         /\ MakeSymlink(t, n) => VolTypeOK'
BY DEF VolTypeOK, RemoveSymlink, MakeSymlink

\* Every step on an image or its dependency file keeps their types.
LEMMA ImgOps ==
  ASSUME ImgTypeOK, NEW i \in Id, NEW layers \in SUBSET Chain
  PROVE  /\ MakeImageDir(i) => ImgTypeOK'
         /\ BuildRootfs(i, layers) => ImgTypeOK'
         /\ UnmountImage(i) => ImgTypeOK'
         /\ RemoveImageDir(i) => ImgTypeOK'
         /\ OpenDepFile(i) => ImgTypeOK'
         /\ WriteDepFile(i, layers) => ImgTypeOK'
         /\ RemoveDepFile(i) => ImgTypeOK'
BY DEF ImgTypeOK, MakeImageDir, BuildRootfs, UnmountImage, RemoveImageDir,
       OpenDepFile, WriteDepFile, RemoveDepFile

\* What a step leaves alone keeps its type.
LEMMA Frames ==
  /\ LockTypeOK /\ UNCHANGED lockVars => LockTypeOK'
  /\ VolTypeOK /\ UNCHANGED volVars => VolTypeOK'
  /\ ImgTypeOK /\ UNCHANGED imgVars => ImgTypeOK'
  /\ BudgetTypeOK /\ UNCHANGED spent => BudgetTypeOK'
  /\ CreatorTypeOK /\ UNCHANGED creatorVars => CreatorTypeOK'
  /\ CleanerTypeOK /\ UNCHANGED cleanerVars => CleanerTypeOK'
  /\ DeleterTypeOK /\ UNCHANGED deleterVars => DeleterTypeOK'
  /\ IndexOK /\ UNCHANGED creatorVars => IndexOK'
  /\ CleanNames /\ UNCHANGED cleanerVars => CleanNames'
BY DEF LockTypeOK, lockVars, VolTypeOK, volVars, ImgTypeOK, imgVars, BudgetTypeOK,
       CreatorTypeOK, creatorVars, CleanerTypeOK, cleanerVars, DeleterTypeOK,
       deleterVars, IndexOK, Creating, CleanNames
------------------------------------------------------------------------------
(* Creates *)

\* A buildLayer that returns leaves a create with a valid index.
LEMMA LayerDoneType ==
  ASSUME Types, NEW p \in Creators, Creating(p), LayerDone(p)
  PROVE  CreatorTypeOK' /\ IndexOK'
<1>1. /\ job \in [Creators -> Job] /\ cpc \in [Creators -> CreatorPC]
      /\ job[p].index \in 1 .. Len(job[p].image)
      /\ Len(job[p].image) \in Nat
  BY ImageTypes DEF Types, TypeOK, CreatorTypeOK, IndexOK, Job
<1>2. CASE job[p].index = Len(job[p].image)
  BY <1>1, <1>2 DEF LayerDone, Types, CreatorTypeOK, CreatorPC, IndexOK, Creating
<1>3. CASE job[p].index # Len(job[p].image)
  <2>1. /\ cpc' = [cpc EXCEPT ![p] = "stream"]
        /\ job' = [job EXCEPT ![p].index = job[p].index + 1]
    BY <1>3 DEF LayerDone
  <2>2. job' \in [Creators -> Job]
    BY <1>1, <2>1 DEF Job
  <2>3. \A q \in Creators : /\ q # p => job'[q] = job[q] /\ cpc'[q] = cpc[q]
                            /\ job'[p].image = job[p].image
                            /\ job'[p].index = job[p].index + 1
    BY <1>1, <2>1 DEF Job
  <2>4. IndexOK'
    BY <1>1, <1>3, <2>3 DEF IndexOK, Types, Creating
  <2>5. QED
    BY <1>1, <2>1, <2>2, <2>4 DEF CreatorTypeOK, CreatorPC
<1>4. QED
  BY <1>2, <1>3

\* The steps that leave the job alone and move the program counter only.
LEMMA PCType ==
  ASSUME Types, NEW p \in Creators, NEW l \in CreatorPC,
         Creating(p), cpc' = [cpc EXCEPT ![p] = l], UNCHANGED job
  PROVE  CreatorTypeOK' /\ IndexOK'
BY DEF Types, TypeOK, CreatorTypeOK, IndexOK, Creating

\* The steps with which a create ends.
LEMMA LeaveType ==
  ASSUME Types, NEW p \in Creators,
         cpc' = [cpc EXCEPT ![p] = "idle"], job' = [job EXCEPT ![p] = NoJob]
  PROVE  CreatorTypeOK' /\ IndexOK'
BY NoJobType DEF Types, TypeOK, CreatorTypeOK, CreatorPC, IndexOK, Creating

\* Every action of create keeps the types.
LEMMA CreateTypes ==
  ASSUME Types, NEW p \in Creators, Create(p)
  PROVE  Types'
<1> USE DEF CreatorPC
<1>a. /\ BudgetTypeOK /\ LockTypeOK /\ VolTypeOK /\ ImgTypeOK /\ CreatorTypeOK
      /\ IndexOK /\ job[p] \in Job /\ p \in Process /\ cpc[p] \in CreatorPC
      /\ GlobalLockKey \in LockKey
  BY DEF Types, TypeOK, CreatorTypeOK, Process, LockKey
<1>b. /\ job[p].id \in Id /\ job[p].image \in Image /\ job[p].token \in Token
      /\ Layers(job[p].image) \in SUBSET Chain
  BY <1>a, ImageTypes DEF Job
<1>c. CleanerTypeOK' /\ DeleterTypeOK' /\ CleanNames'
  BY Frames DEF Create, Types, TypeOK
<1>d. Creating(p) => /\ Layer(p) \in Chain /\ Layer(p) \in LockKey
                     /\ TempVolume(p) \in Name /\ Final(Layer(p)) \in Name
  BY LayerType DEF LockKey
<1>e. SUFFICES /\ BudgetTypeOK' /\ LockTypeOK' /\ VolTypeOK' /\ ImgTypeOK'
               /\ CreatorTypeOK' /\ IndexOK'
  BY <1>c DEF Types, TypeOK
<1>1. ASSUME NEW i \in Id, NEW image \in Image, StartCreate(p, i, image)
      PROVE  /\ BudgetTypeOK' /\ LockTypeOK' /\ VolTypeOK' /\ ImgTypeOK'
             /\ CreatorTypeOK' /\ IndexOK'
  <2>1. [NoJob EXCEPT !.id = i, !.image = image] \in Job
    BY NoJobType, <1>1 DEF Job
  <2>2. CreatorTypeOK' /\ IndexOK'
    BY <1>1, <1>a, <2>1 DEF StartCreate, Step, CreatorTypeOK, IndexOK, Creating
  <2>3. QED
    BY <1>1, <1>a, <2>2, BudgetOps, Frames DEF StartCreate
<1>2. CASE LockGlobalShared(p)
  <2>1. CreatorTypeOK' /\ IndexOK'
    <3>1. Len(job[p].image) \in Nat /\ Len(job[p].image) > 0
      BY <1>b, ImageTypes
    <3>2. /\ cpc' = [cpc EXCEPT ![p] = "probe"]
          /\ job' = [job EXCEPT ![p].index = Len(job[p].image)]
      BY <1>2 DEF LockGlobalShared, Step
    <3>3. job' \in [Creators -> Job]
      BY <1>a, <3>1, <3>2 DEF Job, CreatorTypeOK
    <3>4. /\ \A q \in Creators : q # p => job'[q] = job[q] /\ cpc'[q] = cpc[q]
          /\ job'[p].image = job[p].image /\ job'[p].index = Len(job[p].image)
      BY <1>a, <3>2 DEF CreatorTypeOK, Job
    <3>5. IndexOK'
      BY <1>a, <3>1, <3>4 DEF IndexOK, Creating
    <3>6. QED
      BY <1>a, <3>2, <3>3, <3>5 DEF CreatorTypeOK
  <2>2. QED
    BY <1>2, <1>a, <2>1, LockOps, Frames DEF LockGlobalShared
<1>3. CASE ProbeVolume(p)
  <2>1. Creating(p)
    BY <1>3 DEF ProbeVolume, Creating
  <2>2. CreatorTypeOK' /\ IndexOK'
    BY <1>3, <2>1, LayerDoneType, PCType DEF ProbeVolume
  <2>3. QED
    BY <1>3, <1>a, <2>2, Frames DEF ProbeVolume
<1>4. CASE LockChain(p)
  BY <1>4, <1>a, <1>d, PCType, LockOps, Frames DEF LockChain, Step, Creating
<1>5. CASE ReprobeHit(p)
  <2>1. Creating(p)
    BY <1>5 DEF ReprobeHit, Creating
  <2>2. QED
    BY <1>5, <1>a, <2>1, LayerDoneType, LockOps, Frames DEF ReprobeHit
<1>6. CASE ReprobeMiss(p)
  <2>1. Creating(p)
    BY <1>6 DEF ReprobeMiss, Creating
  <2>2. CreatorTypeOK' /\ IndexOK'
    <3>1. CASE job[p].index > 1
      <4>1. /\ cpc' = [cpc EXCEPT ![p] = "probe"]
            /\ job' = [job EXCEPT ![p].index = job[p].index - 1]
        BY <1>6, <3>1 DEF ReprobeMiss
      <4>2. job[p].index \in 1 .. Len(job[p].image) /\ Len(job[p].image) \in Nat
        BY <1>a, <1>b, <2>1, ImageTypes DEF IndexOK
      <4>3. job' \in [Creators -> Job]
        BY <1>a, <3>1, <4>1, <4>2 DEF Job, CreatorTypeOK
      <4>4. /\ \A q \in Creators : q # p => job'[q] = job[q] /\ cpc'[q] = cpc[q]
            /\ job'[p].image = job[p].image /\ job'[p].index = job[p].index - 1
        BY <1>a, <4>1 DEF CreatorTypeOK, Job
      <4>5. IndexOK'
        BY <1>a, <3>1, <4>2, <4>4 DEF IndexOK, Creating
      <4>6. QED
        BY <1>a, <4>1, <4>3, <4>5 DEF CreatorTypeOK
    <3>2. CASE ~(job[p].index > 1)
      BY <1>6, <2>1, <3>2, PCType DEF ReprobeMiss
    <3>3. QED
      BY <3>1, <3>2
  <2>3. QED
    BY <1>6, <1>a, <2>2, Frames DEF ReprobeMiss
<1>7. CASE StreamAndMkdir(p)
  <2>1. Creating(p)
    BY <1>7 DEF StreamAndMkdir, Step, Creating
  <2>2. PICK t \in Token : /\ job' = [job EXCEPT ![p].token = t]
                           /\ MakeVolumeDir(Incomplete(Layer(p), t))
    BY <1>7 DEF StreamAndMkdir
  <2>3. job' \in [Creators -> Job]
    BY <1>a, <2>2 DEF Job, CreatorTypeOK
  <2>4. \A q \in Creators : job'[q].image = job[q].image /\ job'[q].index = job[q].index
    BY <1>a, <2>2 DEF CreatorTypeOK, Job
  <2>5. CreatorTypeOK' /\ IndexOK'
    BY <1>7, <1>a, <2>1, <2>3, <2>4 DEF StreamAndMkdir, Step, CreatorTypeOK, IndexOK, Creating
  <2>6. Incomplete(Layer(p), t) \in Name
    BY <1>d, <2>1, NameTypes
  <2>7. VolTypeOK'
    BY <1>a, <2>2, <2>6, VolOps
  <2>8. QED
    BY <1>7, <1>a, <2>5, <2>7, Frames DEF StreamAndMkdir
<1>8. CASE CreateSymlink(p)
  BY <1>8, <1>a, <1>b, <1>d, PCType, SymOps, Frames DEF CreateSymlink, Step, Creating
<1>9. CASE CreateLinkFile(p)
  BY <1>9, <1>a, <1>b, <1>d, PCType, VolOps, Frames DEF CreateLinkFile, Step, Creating
<1>10. CASE Unpack(p)
  BY <1>10, <1>a, <1>b, <1>d, PCType, VolOps, Frames DEF Unpack, Step, Creating
<1>11. CASE DestroyVolumeSymlink(p)
  BY <1>11, <1>a, <1>b, <1>d, PCType, VolOps, Frames DEF DestroyVolumeSymlink, Step, Creating
<1>12. CASE DestroyVolumeLinkFile(p)
  BY <1>12, <1>a, <1>b, <1>d, PCType, VolOps, Frames DEF DestroyVolumeLinkFile, Step, Creating
<1>13. CASE DestroyVolumeMeta(p)
  BY <1>13, <1>a, <1>b, <1>d, PCType, VolOps, LockOps, Frames
     DEF DestroyVolumeMeta, GiveUpPull, Creating
<1>14. CASE FinalizeMeta(p)
  BY <1>14, <1>a, <1>b, <1>d, PCType, VolOps, Frames DEF FinalizeMeta, Step, Creating
<1>15. CASE FinalizeLinkFile(p)
  BY <1>15, <1>a, <1>b, <1>d, PCType, VolOps, LockOps, Frames
     DEF FinalizeLinkFile, GiveUpPull, Step, Creating
<1>16. CASE FinalizeUnlink(p)
  BY <1>16, <1>a, <1>b, <1>d, PCType, SymOps, LockOps, Frames
     DEF FinalizeUnlink, GiveUpPull, Step, Creating
<1>17. CASE FinalizeSymlink(p)
  BY <1>17, <1>a, <1>b, <1>d, PCType, SymOps, Frames DEF FinalizeSymlink, Step, Creating
<1>18. CASE FinalizeDir(p)
  <2>1. Creating(p)
    BY <1>18 DEF FinalizeDir, Creating
  <2>2. QED
    BY <1>18, <1>a, <1>b, <1>d, <2>1, LayerDoneType, VolOps, LockOps, Frames DEF FinalizeDir
<1>19. CASE MkdirImage(p)
  BY <1>19, <1>a, <1>b, PCType, ImgOps, Frames DEF MkdirImage, Step, Creating
<1>20. CASE MkdirImageExists(p)
  BY <1>20, <1>a, <1>b, PCType, Frames DEF MkdirImageExists, Step, Creating
<1>21. CASE CreateImage(p)
  BY <1>21, <1>a, <1>b, PCType, ImgOps, Frames DEF CreateImage, Step, Creating
<1>22. CASE CreateImageNotReady(p)
  BY <1>22, <1>a, <1>b, PCType, Frames DEF CreateImageNotReady, Step, Creating
<1>23. CASE SetOwnership(p)
  BY <1>23, <1>a, <1>b, PCType, Frames DEF SetOwnership, Step, Creating
<1>24. CASE RegisterOpen(p)
  BY <1>24, <1>a, <1>b, PCType, ImgOps, Frames DEF RegisterOpen, Step, Creating
<1>25. CASE RegisterWrite(p)
  BY <1>25, <1>a, <1>b, PCType, ImgOps, Frames DEF RegisterWrite, Step, Creating
<1>26. CASE UndoUnmount(p)
  BY <1>26, <1>a, <1>b, PCType, ImgOps, Frames DEF UndoUnmount, Step, Creating
<1>27. CASE UndoRemove(p)
  BY <1>27, <1>a, <1>b, PCType, ImgOps, Frames DEF UndoRemove, Step, Creating
<1>28. CASE EndCreate(p)
  BY <1>28, <1>a, LeaveType, LockOps, Frames DEF EndCreate, Step
<1>29. CASE FetchBaseImageInfoFails(p)
  BY <1>29, <1>a, LeaveType, BudgetOps, Frames DEF FetchBaseImageInfoFails, Step
<1>30. CASE UnpackFails(p)
  BY <1>30, <1>a, PCType, BudgetOps, Frames DEF UnpackFails, Step, Creating
<1>31. CASE PullFails(p)
  BY <1>31, <1>a, PCType, BudgetOps, LockOps, Frames DEF PullFails, GiveUpPull, Creating
<1>32. CASE CreateImageFails(p)
  BY <1>32, <1>a, PCType, BudgetOps, Frames DEF CreateImageFails, Creating
<1>33. CASE SetOwnershipFails(p)
  BY <1>33, <1>a, PCType, BudgetOps, Frames DEF SetOwnershipFails, Step, Creating
<1>34. CASE RegisterFails(p)
  BY <1>34, <1>a, PCType, BudgetOps, Frames DEF RegisterFails, Creating
<1>35. CASE KillCreate(p)
  BY <1>35, <1>a, LeaveType, BudgetOps, LockOps, Frames DEF KillCreate
<1>36. CASE UndoFails(p)
  BY <1>36, <1>a, PCType, BudgetOps, Frames DEF UndoFails, Step, Creating
<1>37. QED
  BY <1>1, <1>2, <1>3, <1>4, <1>5, <1>6, <1>7, <1>8, <1>9, <1>10, <1>11, <1>12, <1>13,
     <1>14, <1>15, <1>16, <1>17, <1>18, <1>19, <1>20, <1>21, <1>22, <1>23, <1>24, <1>25,
     <1>26, <1>27, <1>28, <1>29, <1>30, <1>31, <1>32, <1>33, <1>34, <1>35, <1>36
     DEF Create, CreateStep, CreateFault
------------------------------------------------------------------------------
(* Cleans and deletes *)

\* A clean that ends leaves values of the right types.
LEMMA ExitCleanType ==
  ASSUME CleanerTypeOK, CleanNames, NEW g \in Cleaners, ExitClean(g)
  PROVE  CleanerTypeOK' /\ CleanNames'
BY DEF CleanerTypeOK, CleanNames, MarkPC, DestroyPC, ExitClean, Goto, CleanerPC

\* Every action of clean keeps the types.
LEMMA CleanTypes ==
  ASSUME Types, NEW g \in Cleaners, Clean(g)
  PROVE  Types'
<1> DEFINE CleanGoal == /\ BudgetTypeOK' /\ LockTypeOK' /\ VolTypeOK' /\ ImgTypeOK'
                       /\ CleanerTypeOK' /\ CleanNames'
<1> USE DEF CleanerPC, MarkPC, DestroyPC
<1>a. /\ BudgetTypeOK /\ LockTypeOK /\ VolTypeOK /\ ImgTypeOK /\ CleanerTypeOK
      /\ g \in Process /\ gpc[g] \in CleanerPC /\ cur[g] \in Name \cup {None}
      /\ GlobalLockKey \in LockKey /\ GCLockKey \in LockKey
      /\ queue[g] \in SUBSET Name /\ CleanNames
  BY DEF Types, TypeOK, CleanerTypeOK, Process, LockKey
<1>b. CreatorTypeOK' /\ DeleterTypeOK' /\ IndexOK'
  BY Frames DEF Clean, Types, TypeOK
<1>c. \A n \in Name : GcName(n) \in Name
  BY DEF Name, GcName
<1>d. SUFFICES CleanGoal
  BY <1>b DEF Types, TypeOK
<1>1. CASE StartClean(g)
  <2>1. CleanerTypeOK' /\ CleanNames'
    BY <1>1, <1>a DEF StartClean, At, Goto, CleanerTypeOK, CleanNames
  <2>2. QED
    BY <1>1, <1>a, <2>1, BudgetOps, Frames DEF StartClean
<1>2. CASE LockGC(g)
  <2>1. CleanerTypeOK' /\ CleanNames'
    BY <1>2, <1>a DEF LockGC, At, Goto, CleanerTypeOK, CleanNames
  <2>2. QED
    BY <1>2, <1>a, <2>1, LockOps, Frames DEF LockGC
<1>3. CASE LockGCTimeout(g)
  BY <1>3, <1>a, ExitCleanType, LockOps, Frames DEF LockGCTimeout, ExitClean
<1>4. CASE Measure(g)
  <2>1. CleanerTypeOK' /\ CleanNames'
    BY <1>4, <1>a DEF Measure, Goto, CleanerTypeOK, CleanNames
  <2>2. QED
    BY <1>4, <1>a, <2>1, Frames DEF Measure
<1>5. CASE LockGlobalExclusive(g)
  <2>1. CleanerTypeOK' /\ CleanNames'
    BY <1>5, <1>a DEF LockGlobalExclusive, At, Goto, CleanerTypeOK, CleanNames
  <2>2. QED
    BY <1>5, <1>a, <2>1, LockOps, Frames DEF LockGlobalExclusive
<1>6. CASE LockGlobalTimeout(g)
  <2>1. CleanerTypeOK' /\ CleanNames'
    BY <1>6, <1>a DEF LockGlobalTimeout, At, Goto, CleanerTypeOK, CleanNames
  <2>2. QED
    BY <1>6, <1>a, <2>1, Frames DEF LockGlobalTimeout
<1>7. CASE LockGlobalLate(g)
  <2>1. CleanerTypeOK' /\ CleanNames'
    BY <1>7, <1>a DEF LockGlobalLate, CleanerTypeOK, CleanNames
  <2>2. QED
    BY <1>7, <1>a, <2>1, LockOps, Frames DEF LockGlobalLate
<1>8. CASE ListVolumesAndImages(g)
  <2>1. Volumes \in SUBSET Name /\ ImageIDs \in SUBSET Id
    BY DEF Volumes, ImageIDs
  <2>2. CleanerTypeOK' /\ CleanNames'
    BY <1>8, <1>a, <2>1 DEF ListVolumesAndImages, At, Goto, CleanerTypeOK, CleanNames
  <2>3. QED
    BY <1>8, <1>a, <2>2, Frames DEF ListVolumesAndImages
<1>9. ASSUME NEW i \in Id, ReadDependencies(g, i)
      PROVE  CleanGoal
  <2>1. CleanerTypeOK' /\ CleanNames'
    BY <1>9, <1>a DEF ReadDependencies, CleanerTypeOK, CleanNames
  <2>2. QED
    BY <1>9, <1>a, <2>1, Frames DEF ReadDependencies
<1>10. ASSUME NEW i \in Id, ReadDependenciesError(g, i)
       PROVE  CleanGoal
  <2>1. CleanerTypeOK' /\ CleanNames'
    BY <1>10, <1>a DEF ReadDependenciesError, At, Goto, CleanerTypeOK, CleanNames
  <2>2. QED
    BY <1>10, <1>a, <2>1, Frames DEF ReadDependenciesError
<1>11. CASE DependenciesRead(g)
  <2>1. CleanerTypeOK' /\ CleanNames'
    BY <1>11, <1>a DEF DependenciesRead, At, Goto, CleanerTypeOK, CleanNames
  <2>2. QED
    BY <1>11, <1>a, <2>1, Frames DEF DependenciesRead
<1>12. ASSUME NEW n \in Name, MarkNext(g, n)
       PROVE  CleanGoal
  <2>1. CleanerTypeOK' /\ CleanNames'
    BY <1>12, <1>a DEF MarkNext, Goto, CleanerTypeOK, CleanNames
  <2>2. VolTypeOK'
    BY <1>12, <1>a, <1>c, Frames DEF MarkNext, MoveLinkFile, VolTypeOK
  <2>3. QED
    BY <1>12, <1>a, <2>1, <2>2, Frames DEF MarkNext
<1>13. CASE MarkUnlink(g)
  <2>1. CleanerTypeOK' /\ CleanNames'
    BY <1>13, <1>a DEF MarkUnlink, Goto, CleanerTypeOK, CleanNames
  <2>2. VolTypeOK'
    BY <1>13, <1>a, SymOps, Frames DEF MarkUnlink, RemoveSymlink, VolTypeOK
  <2>3. QED
    BY <1>13, <1>a, <2>1, <2>2, Frames DEF MarkUnlink
<1>14. CASE MarkSymlink(g)
  <2>1. CleanerTypeOK' /\ CleanNames'
    BY <1>14, <1>a DEF MarkSymlink, At, Goto, CleanerTypeOK, CleanNames
  <2>2. GcName(cur[g]) \in Name
    BY <1>14, <1>a, <1>c DEF MarkSymlink, At, CleanNames
  <2>3. QED
    BY <1>14, <1>a, <2>1, <2>2, SymOps, Frames DEF MarkSymlink
<1>15. CASE MarkDir(g)
  <2>1. CleanerTypeOK' /\ CleanNames'
    BY <1>15, <1>a DEF MarkDir, At, Goto, CleanerTypeOK, CleanNames
  <2>2. cur[g] \in Name
    BY <1>15, <1>a DEF MarkDir, At, CleanNames
  <2>3. VolTypeOK'
    BY <1>15, <1>a, <2>2 DEF MarkDir, RenameVolumeDir, VolTypeOK
  <2>4. QED
    BY <1>15, <1>a, <2>1, <2>3, Frames DEF MarkDir
<1>16. CASE MarkMeta(g)
  <2>1. CleanerTypeOK' /\ CleanNames'
    BY <1>16, <1>a DEF MarkMeta, At, Goto, CleanerTypeOK, CleanNames
  <2>2. GcName(cur[g]) \in Name
    BY <1>16, <1>a, <1>c DEF MarkMeta, At, CleanNames
  <2>3. VolTypeOK'
    BY <1>16, <1>a, <2>2 DEF MarkMeta, MoveVolumeMeta, VolTypeOK
  <2>4. QED
    BY <1>16, <1>a, <2>1, <2>3, Frames DEF MarkMeta
<1>17. CASE MarkDone(g)
  <2>1. CleanerTypeOK' /\ CleanNames'
    BY <1>17, <1>a DEF MarkDone, At, Goto, CleanerTypeOK, CleanNames
  <2>2. QED
    BY <1>17, <1>a, <2>1, Frames DEF MarkDone
<1>18. CASE UnlockGlobal(g)
  <2>1. CleanerTypeOK' /\ CleanNames'
    BY <1>18, <1>a DEF UnlockGlobal, At, Goto, CleanerTypeOK, CleanNames
  <2>2. QED
    BY <1>18, <1>a, <2>1, LockOps, Frames DEF UnlockGlobal
<1>19. CASE GcVolumes(g)
  <2>1. CleanerTypeOK' /\ CleanNames'
    BY <1>19, <1>a DEF GcVolumes, Volumes, At, Goto, CleanerTypeOK, CleanNames
  <2>2. QED
    BY <1>19, <1>a, <2>1, Frames DEF GcVolumes
<1>20. ASSUME NEW n \in Name, DestroyNext(g, n)
       PROVE  CleanGoal
  <2>1. CleanerTypeOK' /\ CleanNames'
    BY <1>20, <1>a DEF DestroyNext, At, Goto, CleanerTypeOK, CleanNames
  <2>2. QED
    BY <1>20, <1>a, <2>1, Frames DEF DestroyNext, RemoveVolumeSymlink, VolTypeOK
<1>21. CASE DestroyLinkFile(g)
  <2>1. CleanerTypeOK' /\ CleanNames' /\ VolTypeOK'
    BY <1>21, <1>a DEF DestroyLinkFile, RemoveLinkFile, At, Goto, CleanerTypeOK, CleanNames, VolTypeOK
  <2>2. QED
    BY <1>21, <1>a, <2>1, Frames DEF DestroyLinkFile
<1>22. CASE DestroyMeta(g)
  <2>1. CleanerTypeOK' /\ CleanNames' /\ VolTypeOK'
    BY <1>22, <1>a DEF DestroyMeta, RemoveVolumeMeta, At, Goto, CleanerTypeOK, CleanNames, VolTypeOK
  <2>2. QED
    BY <1>22, <1>a, <2>1, Frames DEF DestroyMeta
<1>23. CASE DestroyDirBegin(g)
  <2>1. VolTypeOK'
    BY <1>23, <1>a DEF DestroyDirBegin, RemoveVolumeDir, VolTypeOK
  <2>2. QED
    BY <1>23, <1>a, <2>1, Frames DEF DestroyDirBegin
<1>24. CASE DestroyDirEnd(g)
  <2>1. CleanerTypeOK' /\ CleanNames' /\ VolTypeOK'
    BY <1>24, <1>a DEF DestroyDirEnd, RemoveVolumeDir, At, Goto, CleanerTypeOK, CleanNames, VolTypeOK
  <2>2. QED
    BY <1>24, <1>a, <2>1, Frames DEF DestroyDirEnd
<1>25. CASE CollectDone(g)
  <2>1. CleanerTypeOK' /\ CleanNames'
    BY <1>25, <1>a DEF CollectDone, At, Goto, CleanerTypeOK, CleanNames
  <2>2. QED
    BY <1>25, <1>a, <2>1, Frames DEF CollectDone
<1>26. CASE EndClean(g)
  BY <1>26, <1>a, ExitCleanType, LockOps, Frames DEF EndClean, ExitClean
<1>27. CASE MarkFails(g)
  <2>1. CleanerTypeOK' /\ CleanNames'
    BY <1>27, <1>a DEF MarkFails, Goto, CleanerTypeOK, CleanNames
  <2>2. QED
    BY <1>27, <1>a, <2>1, BudgetOps, Frames DEF MarkFails
<1>28. CASE DestroyFails(g)
  <2>1. CleanerTypeOK' /\ CleanNames'
    BY <1>28, <1>a DEF DestroyFails, Goto, CleanerTypeOK, CleanNames
  <2>2. QED
    BY <1>28, <1>a, <2>1, BudgetOps, Frames DEF DestroyFails
<1>29. CASE CleaningTimeout(g)
  BY <1>29, <1>a, ExitCleanType, BudgetOps, LockOps, Frames DEF CleaningTimeout, ExitClean
<1>30. CASE KillClean(g)
  BY <1>30, <1>a, ExitCleanType, BudgetOps, LockOps, Frames DEF KillClean, ExitClean
<1>31. CASE UnusedVolumesFails(g)
  <2>1. CleanerTypeOK' /\ CleanNames'
    BY <1>31, <1>a DEF UnusedVolumesFails, Goto, CleanerTypeOK, CleanNames
  <2>2. QED
    BY <1>31, <1>a, <2>1, BudgetOps, Frames DEF UnusedVolumesFails
<1>32. CASE \E n \in Name : MarkNextFails(g, n) \/ DestroyNextFails(g, n)
  <2>1. CleanerTypeOK' /\ CleanNames'
    BY <1>32, <1>a DEF MarkNextFails, DestroyNextFails, CleanerTypeOK, CleanNames
  <2>2. QED
    BY <1>32, <1>a, <2>1, BudgetOps, Frames DEF MarkNextFails, DestroyNextFails
<1>33. CASE GcVolumesFails(g) \/ DestroyMetaFails(g)
  <2>1. CleanerTypeOK' /\ CleanNames'
    BY <1>33, <1>a DEF GcVolumesFails, DestroyMetaFails, At, Goto, CleanerTypeOK, CleanNames
  <2>2. QED
    BY <1>33, <1>a, <2>1, BudgetOps, Frames DEF GcVolumesFails, DestroyMetaFails
<1>34. QED
  BY <1>1, <1>2, <1>3, <1>4, <1>5, <1>6, <1>7, <1>8, <1>9, <1>10, <1>11, <1>12, <1>13,
     <1>14, <1>15, <1>16, <1>17, <1>18, <1>19, <1>20, <1>21, <1>22, <1>23, <1>24, <1>25,
     <1>26, <1>27, <1>28, <1>29, <1>30, <1>31, <1>32, <1>33
     DEF Clean, CleanStep, CleanFault

\* Every action of delete keeps the types.
LEMMA DeleteTypes ==
  ASSUME Types, NEW d \in Deleters, Delete(d)
  PROVE  Types'
<1> USE DEF DeleterPC
<1>a. /\ BudgetTypeOK /\ LockTypeOK /\ VolTypeOK /\ ImgTypeOK /\ DeleterTypeOK
      /\ victim[d] \in Id
  BY DEF Types, TypeOK, DeleterTypeOK
<1>b. CreatorTypeOK' /\ CleanerTypeOK' /\ IndexOK' /\ CleanNames'
  BY Frames DEF Delete, Types, TypeOK
<1>c. NoVictim \in Id
  BY ImageAssumption DEF NoVictim
<1>d. LockTypeOK' /\ VolTypeOK'
  BY <1>a, Frames DEF Delete, DeleteStep, DeleteFault, StartDelete, DestroyImage, RemoveImage,
     DeleteFails, Deregister, KillDelete
<1>e. BudgetTypeOK'
  BY <1>a, BudgetOps, Frames DEF Delete, DeleteStep, DeleteFault, StartDelete, DestroyImage,
     RemoveImage, DeleteFails, Deregister, KillDelete
<1>f. ImgTypeOK'
  BY <1>a, ImgOps, Frames DEF Delete, DeleteStep, DeleteFault, StartDelete, DestroyImage,
     RemoveImage, DeleteFails, Deregister, KillDelete
<1>g. DeleterTypeOK'
  BY <1>a, <1>c DEF Delete, DeleteStep, DeleteFault, StartDelete, DestroyImage,
     RemoveImage, DeleteFails, Deregister, KillDelete, Leave, DeleterTypeOK
<1>h. QED
  BY <1>b, <1>d, <1>e, <1>f, <1>g DEF Types, TypeOK

------------------------------------------------------------------------------

\* The initial state has the types.
LEMMA InitTypes == Init => Types
<1> SUFFICES ASSUME Init PROVE Types
  OBVIOUS
<1>1. BudgetTypeOK /\ LockTypeOK /\ VolTypeOK /\ ImgTypeOK
  BY DEF Init, BudgetInit, BudgetTypeOK, LockInit, LockTypeOK, VolInit, VolTypeOK,
         ImgInit, ImgTypeOK
<1>2. CreatorTypeOK /\ IndexOK
  BY NoJobType DEF Init, CreatorInit, CreatorTypeOK, CreatorPC, IndexOK, Creating
<1>3. CleanerTypeOK /\ CleanNames
  BY DEF Init, CleanerInit, CleanerTypeOK, CleanerPC, CleanNames, MarkPC, DestroyPC
<1>4. DeleterTypeOK
  BY ImageAssumption DEF Init, DeleterInit, DeleterTypeOK, DeleterPC, NoVictim
<1>5. QED
  BY <1>1, <1>2, <1>3, <1>4 DEF Types, TypeOK

\* Every step of any command keeps the types.
LEMMA NextTypes == Types /\ [Next]_vars => Types'
<1> SUFFICES ASSUME Types, [Next]_vars PROVE Types'
  OBVIOUS
<1>1. CASE UNCHANGED vars
  BY <1>1, Frames DEF vars, Types, TypeOK
<1>2. QED
  BY <1>1, CreateTypes, CleanTypes, DeleteTypes DEF Next, Rest

\* The strengthened type invariant is an invariant of the specification.
LEMMA AlwaysTypes == Spec => []Types
<1>1. QED
  BY InitTypes, NextTypes, PTL DEF Spec

\* Every variable keeps its type: in particular no command ever addresses a
\* volume name, lock key or image outside the sets the store is made of.
THEOREM TypeCorrect == Spec => []TypeOK
<1>1. Types => TypeOK
  BY DEF Types
<1>2. QED
  BY <1>1, AlwaysTypes, PTL

------------------------------------------------------------------------------
(* Locks *)

\* Where buildLayer holds the lock of the layer it is at ...
BuildPC ==
  {"reprobe", "stream", "symlink", "linkfile", "unpack", "meta", "mvlink",
   "mvunlink", "mvsymlink", "mvdir", "dvsym", "dvlink", "dvmeta"}

\* ... and where it is on its way down to it.
PullPC == BuildPC \cup {"probe", "clock"}

\* flock(2): one exclusive holder, or any number of shared ones.
FlockInv ==
  \A k \in LockKey :
    /\ exclusive[k] # {} => shared[k] = {}
    /\ \A x, y \in exclusive[k] : x = y

\* A create's locks, as they depend on its own program counter and job.
HoldsLocks(p) ==
  /\ Creating(p) => p \in shared[GlobalLockKey]
  /\ cpc[p] \in BuildPC => p \in exclusive[Layer(p)]
  /\ cpc[p] \in PullPC =>
       \A j \in 1 .. Len(job[p].image) :
          j > job[p].index => p \in exclusive[job[p].image[j]]

CreatorLocks == \A p \in Creators : HoldsLocks(p)

CleanerLocks ==
  \A g \in Cleaners :
    /\ Marking(g) => g \in exclusive[GlobalLockKey]
    /\ gpc[g] \notin {"idle", "gclock"} => g \in exclusive[GCLockKey]

LockInv == FlockInv /\ CreatorLocks /\ CleanerLocks

------------------------------------------------------------------------------
(* What the lock operators do to the locks of others *)

\* A lock that is granted takes nothing from anyone.
LEMMA GrantKeeps ==
  ASSUME LockTypeOK, FlockInv, NEW p \in Process, NEW k \in LockKey,
         LockShared(p, k) \/ LockExclusive(p, k)
  PROVE  /\ FlockInv'
         /\ \A l \in LockKey : shared[l] \subseteq shared'[l] /\ exclusive[l] \subseteq exclusive'[l]
         /\ LockShared(p, k) => p \in shared'[k]
         /\ LockExclusive(p, k) => p \in exclusive'[k]
BY DEF LockTypeOK, FlockInv, LockShared, LockExclusive

\* Unlock takes from its process only, and the given keys only.
LEMMA UnlockKeeps ==
  ASSUME LockTypeOK, FlockInv, NEW p, NEW K, Unlock(p, K)
  PROVE  /\ FlockInv'
         /\ \A q : \A l \in LockKey : q # p =>
              (q \in shared'[l] <=> q \in shared[l]) /\ (q \in exclusive'[l] <=> q \in exclusive[l])
         /\ \A l \in LockKey : l \notin K => shared'[l] = shared[l] /\ exclusive'[l] = exclusive[l]
BY DEF LockTypeOK, FlockInv, Unlock

\* The keys the invariant speaks of are lock keys, the layers of one image
\* are distinct, and no process runs two commands.
LEMMA KeyFacts ==
  ASSUME Types
  PROVE  /\ GlobalLockKey \in LockKey /\ GCLockKey \in LockKey /\ Chain \subseteq LockKey
         /\ GlobalLockKey \notin Chain /\ GCLockKey \notin Chain /\ GlobalLockKey # GCLockKey
         /\ \A p \in Creators : /\ Creating(p) => Layer(p) \in Chain
                                /\ job[p].index \in Nat /\ Len(job[p].image) \in Nat
                                /\ \A j \in 1 .. Len(job[p].image) : job[p].image[j] \in Chain
         /\ \A p \in Creators : Creating(p) =>
              \A j \in 1 .. Len(job[p].image) : j # job[p].index => job[p].image[j] # Layer(p)
         /\ \A p \in Creators, g \in Cleaners : p # g
<1>1. \A p \in Creators : /\ job[p].image \in Image /\ job[p].index \in Nat
                          /\ Creating(p) => job[p].index \in 1 .. Len(job[p].image)
  BY DEF Types, TypeOK, CreatorTypeOK, Job, IndexOK
<1>2. \A p \in Creators : /\ Creating(p) => Layer(p) \in Chain
                          /\ job[p].index \in Nat /\ Len(job[p].image) \in Nat
                          /\ DOMAIN job[p].image = 1 .. Len(job[p].image)
                          /\ \A j \in 1 .. Len(job[p].image) : job[p].image[j] \in Chain
  BY <1>1, ImageTypes DEF Layer
<1>3. ASSUME NEW p \in Creators, Creating(p),
             NEW j \in 1 .. Len(job[p].image), j # job[p].index
      PROVE  job[p].image[j] # Layer(p)
  BY <1>1, <1>2, <1>3, ImageAssumption DEF Layer
<1>4. QED
  BY <1>2, <1>3, KeyAssumption, ProcessAssumption DEF LockKey
------------------------------------------------------------------------------
(* Creates *)

\* A step of one create cannot take a lock from another command, whether it
\* is granted a lock, releases some or leaves the locks alone.
LEMMA OthersKeep ==
  ASSUME Types, LockInv, NEW p \in Creators,
         Types', UNCHANGED cleanerVars,
         \/ UNCHANGED lockVars
         \/ LockShared(p, GlobalLockKey)
         \/ LockExclusive(p, Layer(p)) /\ Creating(p)
         \/ \E K : Unlock(p, K),
         \A q \in Creators \ {p} : cpc'[q] = cpc[q] /\ job'[q] = job[q],
         HoldsLocks(p)'
  PROVE  LockInv'
<1>1. LockTypeOK /\ FlockInv /\ p \in Process
  BY DEF Types, TypeOK, LockInv, Process
<1>2. /\ FlockInv'
      /\ \A q : \A l \in LockKey : q # p =>
           /\ q \in shared[l] => q \in shared'[l]
           /\ q \in exclusive[l] => q \in exclusive'[l]
  <2>1. CASE UNCHANGED lockVars
    BY <1>1, <2>1 DEF lockVars, FlockInv
  <2>2. CASE LockShared(p, GlobalLockKey)
    BY <1>1, <2>2, GrantKeeps, KeyFacts
  <2>3. CASE LockExclusive(p, Layer(p)) /\ Creating(p)
    <3>1. Layer(p) \in LockKey
      BY <2>3, KeyFacts
    <3>2. QED
      BY <1>1, <2>3, <3>1, GrantKeeps
  <2>4. CASE \E K : Unlock(p, K)
    BY <1>1, <2>4, UnlockKeeps
  <2>5. QED
    BY <2>1, <2>2, <2>3, <2>4
<1>3. CleanerLocks'
  BY <1>2, KeyFacts DEF LockInv, CleanerLocks, Marking, cleanerVars
<1>4. ASSUME NEW q \in Creators, q # p PROVE HoldsLocks(q)'
  <2>1. cpc'[q] = cpc[q] /\ job'[q] = job[q] /\ Layer(q)' = Layer(q)
    BY <1>4 DEF Layer
  <2>2. HoldsLocks(q)
    BY DEF LockInv, CreatorLocks, HoldsLocks
  <2>3. Creating(q)' <=> Creating(q)
    BY <2>1 DEF Creating
  <2>4. (cpc'[q] \in PullPC => Creating(q)) /\ (cpc'[q] \in BuildPC => Creating(q))
    BY <2>1 DEF Creating, PullPC, BuildPC
  <2>5. Creating(q)' => q \in shared'[GlobalLockKey]
    BY <1>2, <1>4, <2>2, <2>3, KeyFacts DEF HoldsLocks
  <2>6. cpc'[q] \in BuildPC => q \in exclusive'[Layer(q)']
    BY <1>2, <1>4, <2>1, <2>2, <2>4, KeyFacts DEF HoldsLocks
  <2>7. cpc'[q] \in PullPC =>
          \A j \in 1 .. Len(job'[q].image) :
             j > job'[q].index => q \in exclusive'[job'[q].image[j]]
    BY <1>2, <1>4, <2>1, <2>2, KeyFacts DEF HoldsLocks
  <2>8. QED
    BY <2>5, <2>6, <2>7 DEF HoldsLocks
<1>5. CreatorLocks'
  BY <1>4 DEF CreatorLocks, HoldsLocks
<1>6. QED
  BY <1>2, <1>3, <1>5 DEF LockInv

\* The program counter moves on, the layer and the locks stay as they are.
LEMMA MoveKeeps ==
  ASSUME NEW p \in Creators, NEW l, Types, HoldsLocks(p),
         cpc' = [cpc EXCEPT ![p] = l], UNCHANGED lockVars,
         job'[p].image = job[p].image, job'[p].index = job[p].index,
         l # "idle" /\ l # "glock" => Creating(p),
         l \in BuildPC => cpc[p] \in BuildPC,
         l \in PullPC => cpc[p] \in PullPC
  PROVE  HoldsLocks(p)'
<1>1. cpc'[p] = l
  BY DEF Types, TypeOK, CreatorTypeOK
<1>2. QED
  BY <1>1 DEF HoldsLocks, Creating, Layer, lockVars

\* buildLayer returns to the layer above, whose lock is still held, with the
\* lock of the layer below released if it was taken at all.
LEMMA LayerDoneKeeps ==
  ASSUME NEW p \in Creators, Types, FlockInv, HoldsLocks(p),
         cpc[p] \in PullPC, LayerDone(p),
         UNCHANGED lockVars \/ Unlock(p, {Layer(p)})
  PROVE  HoldsLocks(p)'
<1> DEFINE i == job[p].index
           s == job[p].image
<1>1. /\ Creating(p) /\ LockTypeOK
      /\ cpc \in [Creators -> CreatorPC] /\ job \in [Creators -> Job]
      /\ i \in 1 .. Len(s) /\ Len(s) \in Nat
  BY ImageTypes DEF Creating, PullPC, BuildPC, Types, TypeOK, CreatorTypeOK, IndexOK, Job
<1>2. /\ p \in shared'[GlobalLockKey]
      /\ \A j \in 1 .. Len(s) : j > i => p \in exclusive'[s[j]]
  <2>1. CASE UNCHANGED lockVars
    BY <1>1, <2>1 DEF lockVars, HoldsLocks
  <2>2. CASE Unlock(p, {Layer(p)})
    <3>1. GlobalLockKey \in LockKey /\ GlobalLockKey \notin {Layer(p)}
      BY <1>1, KeyFacts
    <3>2. \A j \in 1 .. Len(s) : j > i => s[j] \in LockKey /\ s[j] \notin {Layer(p)}
      BY <1>1, KeyFacts
    <3>3. QED
      BY <1>1, <2>2, <3>1, <3>2, UnlockKeeps DEF HoldsLocks
  <2>3. QED
    BY <2>1, <2>2
<1>3. CASE i = Len(s)
  <2>1. cpc'[p] = "mkimage"
    BY <1>1, <1>3 DEF LayerDone
  <2>2. QED
    BY <1>2, <2>1 DEF HoldsLocks, PullPC, BuildPC
<1>4. CASE i # Len(s)
  <2>1. cpc'[p] = "stream" /\ job' = [job EXCEPT ![p].index = job[p].index + 1]
    BY <1>1, <1>4 DEF LayerDone
  <2>2. job'[p].image = s /\ job'[p].index = i + 1
    BY <1>1, <2>1 DEF Job
  <2>3. p \in exclusive'[s[i + 1]]
    BY <1>1, <1>2, <1>4
  <2>4. QED
    BY <1>1, <1>2, <2>1, <2>2, <2>3 DEF HoldsLocks, Layer
<1>5. QED
  BY <1>3, <1>4

\* Leaving the pull: the global lock is all a create still needs.
LEMMA GiveUpKeeps ==
  ASSUME NEW p \in Creators, Types, FlockInv, HoldsLocks(p), Creating(p), GiveUpPull(p)
  PROVE  HoldsLocks(p)'
<1>1. LockTypeOK /\ cpc'[p] = "unlock"
  BY DEF Types, TypeOK, CreatorTypeOK, GiveUpPull
<1>2. p \in shared'[GlobalLockKey]
  BY <1>1, UnlockKeeps, KeyFacts DEF GiveUpPull, HoldsLocks
<1>3. QED
  BY <1>1, <1>2 DEF HoldsLocks, PullPC, BuildPC

\* No step of a create makes it lose a lock it still relies on.
LEMMA CreateLocks ==
  ASSUME Types, LockInv, NEW p \in Creators, Create(p)
  PROVE  LockInv'
<1> USE DEF Step, PullPC, BuildPC, Creating
<1>a. /\ FlockInv /\ LockTypeOK /\ HoldsLocks(p) /\ p \in Process
      /\ cpc \in [Creators -> CreatorPC] /\ job \in [Creators -> Job]
      /\ Types' /\ UNCHANGED cleanerVars
  BY CreateTypes DEF LockInv, CreatorLocks, Types, TypeOK, CreatorTypeOK, Process, Create
<1>1. CASE \E i \in Id, image \in Image : StartCreate(p, i, image)
  <2>1. HoldsLocks(p)'
    BY <1>1, <1>a DEF StartCreate, HoldsLocks
  <2>2. QED
    BY <1>1, <1>a, <2>1, OthersKeep DEF StartCreate
<1>2. CASE LockGlobalShared(p)
  <2>1. p \in shared'[GlobalLockKey] /\ cpc'[p] = "probe"
    BY <1>2, <1>a, GrantKeeps, KeyFacts DEF LockGlobalShared
  <2>2. job'[p].index = Len(job[p].image) /\ job'[p].image = job[p].image
    BY <1>2, <1>a DEF LockGlobalShared, Job
  <2>3. HoldsLocks(p)'
    BY <2>1, <2>2, KeyFacts DEF HoldsLocks
  <2>4. QED
    BY <1>2, <1>a, <2>3, OthersKeep DEF LockGlobalShared
<1>3. CASE ProbeVolume(p)
  <2>1. HoldsLocks(p)'
    BY <1>3, <1>a, LayerDoneKeeps, MoveKeeps DEF ProbeVolume
  <2>2. \A q \in Creators \ {p} : cpc'[q] = cpc[q] /\ job'[q] = job[q]
    BY <1>3, <1>a DEF ProbeVolume, LayerDone
  <2>3. QED
    BY <1>3, <1>a, <2>1, <2>2, OthersKeep DEF ProbeVolume
<1>4. CASE LockChain(p)
  <2>1. Creating(p) /\ Layer(p) \in LockKey
    BY <1>4, KeyFacts DEF LockChain
  <2>2. /\ p \in exclusive'[Layer(p)] /\ p \in shared'[GlobalLockKey]
        /\ \A l \in LockKey : exclusive[l] \subseteq exclusive'[l]
        /\ cpc'[p] = "reprobe" /\ job' = job
    BY <1>4, <1>a, <2>1, GrantKeeps, KeyFacts DEF LockChain, HoldsLocks
  <2>3. HoldsLocks(p)'
    BY <1>4, <1>a, <2>1, <2>2, KeyFacts DEF HoldsLocks, Layer, LockChain
  <2>4. QED
    BY <1>4, <1>a, <2>1, <2>3, OthersKeep DEF LockChain
<1>5. CASE ReprobeHit(p)
  <2>1. HoldsLocks(p)'
    BY <1>5, <1>a, LayerDoneKeeps DEF ReprobeHit
  <2>2. \A q \in Creators \ {p} : cpc'[q] = cpc[q] /\ job'[q] = job[q]
    BY <1>5, <1>a DEF ReprobeHit, LayerDone
  <2>3. QED
    BY <1>5, <1>a, <2>1, <2>2, OthersKeep DEF ReprobeHit
<1>6. CASE ReprobeMiss(p)
  <2>1. CASE job[p].index > 1
    <3>1. /\ cpc'[p] = "probe" /\ job'[p].index = job[p].index - 1
          /\ job'[p].image = job[p].image /\ UNCHANGED lockVars
      BY <1>6, <1>a, <2>1 DEF ReprobeMiss, Job
    <3>2. \A j \in 1 .. Len(job[p].image) :
             j > job[p].index - 1 => p \in exclusive[job[p].image[j]]
      BY <1>6, <1>a, KeyFacts DEF HoldsLocks, Layer, ReprobeMiss
    <3>3. HoldsLocks(p)'
      BY <1>6, <1>a, <3>1, <3>2 DEF HoldsLocks, lockVars, ReprobeMiss
    <3>4. QED
      BY <1>6, <1>a, <2>1, <3>3, OthersKeep DEF ReprobeMiss
  <2>2. CASE ~(job[p].index > 1)
    <3>1. HoldsLocks(p)'
      BY <1>6, <1>a, <2>2, MoveKeeps DEF ReprobeMiss
    <3>2. QED
      BY <1>6, <1>a, <2>2, <3>1, OthersKeep DEF ReprobeMiss
  <2>3. QED
    BY <2>1, <2>2
<1>7. CASE StreamAndMkdir(p)
  <2>1. /\ job'[p].image = job[p].image /\ job'[p].index = job[p].index
        /\ \A q \in Creators \ {p} : cpc'[q] = cpc[q] /\ job'[q] = job[q]
    BY <1>7, <1>a DEF StreamAndMkdir, Job
  <2>2. HoldsLocks(p)'
    BY <1>7, <1>a, <2>1, MoveKeeps DEF StreamAndMkdir
  <2>3. QED
    BY <1>7, <1>a, <2>1, <2>2, OthersKeep DEF StreamAndMkdir
<1>8. CASE GiveUpPull(p) /\ UNCHANGED job /\ Creating(p)
  <2>1. HoldsLocks(p)'
    BY <1>8, <1>a, GiveUpKeeps
  <2>2. QED
    BY <1>8, <1>a, <2>1, OthersKeep DEF GiveUpPull
<1>9. CASE FinalizeDir(p)
  <2>1. HoldsLocks(p)'
    BY <1>9, <1>a, LayerDoneKeeps DEF FinalizeDir
  <2>2. \A q \in Creators \ {p} : cpc'[q] = cpc[q] /\ job'[q] = job[q]
    BY <1>9, <1>a DEF FinalizeDir, LayerDone
  <2>3. QED
    BY <1>9, <1>a, <2>1, <2>2, OthersKeep DEF FinalizeDir
<1>10. CASE /\ UNCHANGED <<job, lockVars>>
            /\ \/ CreateSymlink(p) \/ CreateLinkFile(p) \/ Unpack(p) \/ UnpackFails(p)
               \/ DestroyVolumeSymlink(p) \/ DestroyVolumeLinkFile(p)
               \/ FinalizeMeta(p) \/ FinalizeLinkFile(p) \/ FinalizeUnlink(p)
               \/ FinalizeSymlink(p)
  <2>1. PICK l \in CreatorPC : /\ cpc' = [cpc EXCEPT ![p] = l]
                               /\ cpc[p] \in BuildPC /\ l \in BuildPC \cup {"unlock"}
    BY <1>10 DEF CreateSymlink, CreateLinkFile, Unpack, UnpackFails, DestroyVolumeSymlink,
       DestroyVolumeLinkFile, FinalizeMeta, FinalizeLinkFile, FinalizeUnlink,
       FinalizeSymlink, GiveUpPull, CreatorPC
  <2>2. HoldsLocks(p)'
    BY <1>10, <1>a, <2>1, MoveKeeps
  <2>3. QED
    BY <1>10, <1>a, <2>1, <2>2, OthersKeep
<1>11. CASE \/ MkdirImage(p) \/ MkdirImageExists(p) \/ CreateImage(p)
            \/ CreateImageNotReady(p) \/ CreateImageFails(p) \/ SetOwnership(p)
            \/ SetOwnershipFails(p) \/ RegisterOpen(p) \/ RegisterWrite(p)
            \/ RegisterFails(p) \/ UndoUnmount(p) \/ UndoRemove(p) \/ UndoFails(p)
  <2>1. PICK l \in CreatorPC : /\ cpc' = [cpc EXCEPT ![p] = l] /\ Creating(p)
                               /\ UNCHANGED <<job, lockVars>> /\ l \notin PullPC
    BY <1>11 DEF MkdirImage, MkdirImageExists, CreateImage, CreateImageNotReady,
       CreateImageFails, SetOwnership, SetOwnershipFails, RegisterOpen, RegisterWrite,
       RegisterFails, UndoUnmount, UndoRemove, UndoFails, CreatorPC
  <2>2. HoldsLocks(p)'
    BY <1>a, <2>1, MoveKeeps
  <2>3. QED
    BY <1>a, <2>1, <2>2, OthersKeep
<1>12. CASE FetchBaseImageInfoFails(p) \/ EndCreate(p) \/ KillCreate(p)
  <2>1. /\ cpc' = [cpc EXCEPT ![p] = "idle"] /\ job' = [job EXCEPT ![p] = NoJob]
        /\ UNCHANGED lockVars \/ Unlock(p, LockKey)
    BY <1>12 DEF FetchBaseImageInfoFails, EndCreate, KillCreate, ReleaseAll
  <2>2. HoldsLocks(p)'
    BY <1>a, <2>1 DEF HoldsLocks
  <2>3. QED
    BY <1>a, <2>1, <2>2, OthersKeep
<1>13. ASSUME FinalizeLinkFile(p) \/ FinalizeUnlink(p) \/ DestroyVolumeMeta(p) \/ PullFails(p)
       PROVE  \/ GiveUpPull(p) /\ UNCHANGED job /\ Creating(p)
              \/ UNCHANGED <<job, lockVars>>
  BY <1>13 DEF FinalizeLinkFile, FinalizeUnlink, DestroyVolumeMeta, PullFails
<1>14. ASSUME DestroyVolumeMeta(p) \/ PullFails(p)
       PROVE  GiveUpPull(p) /\ UNCHANGED job /\ Creating(p)
  BY <1>14 DEF DestroyVolumeMeta, PullFails
<1>15. ASSUME \/ CreateSymlink(p) \/ CreateLinkFile(p) \/ Unpack(p) \/ UnpackFails(p)
              \/ DestroyVolumeSymlink(p) \/ DestroyVolumeLinkFile(p)
              \/ FinalizeMeta(p) \/ FinalizeSymlink(p)
       PROVE  UNCHANGED <<job, lockVars>>
  BY <1>15 DEF CreateSymlink, CreateLinkFile, Unpack, UnpackFails, DestroyVolumeSymlink,
       DestroyVolumeLinkFile, FinalizeMeta, FinalizeSymlink
<1>16. QED
  BY <1>1, <1>2, <1>3, <1>4, <1>5, <1>6, <1>7, <1>8, <1>9, <1>10, <1>11, <1>12, <1>13,
     <1>14, <1>15 DEF Create, CreateStep, CreateFault
------------------------------------------------------------------------------
(* Cleans and deletes *)

\* A step of a clean cannot take a lock from another command.
LEMMA CleanOthersKeep ==
  ASSUME NEW g \in Cleaners, Types, LockInv, UNCHANGED creatorVars,
         \/ UNCHANGED lockVars
         \/ LockExclusive(g, GCLockKey)
         \/ LockExclusive(g, GlobalLockKey)
         \/ \E K : Unlock(g, K),
         \A h \in Cleaners \ {g} : gpc'[h] = gpc[h],
         Marking(g)' => g \in exclusive'[GlobalLockKey],
         gpc'[g] \notin {"idle", "gclock"} => g \in exclusive'[GCLockKey]
  PROVE  LockInv'
<1>1. LockTypeOK /\ FlockInv /\ g \in Process
  BY DEF Types, TypeOK, LockInv, Process
<1>2. /\ FlockInv'
      /\ \A q : \A l \in LockKey : q # g =>
           /\ q \in shared[l] => q \in shared'[l]
           /\ q \in exclusive[l] => q \in exclusive'[l]
  <2>1. CASE UNCHANGED lockVars
    BY <1>1, <2>1 DEF lockVars, FlockInv
  <2>2. CASE LockExclusive(g, GCLockKey) \/ LockExclusive(g, GlobalLockKey)
    BY <1>1, <2>2, GrantKeeps, KeyFacts
  <2>3. CASE \E K : Unlock(g, K)
    BY <1>1, <2>3, UnlockKeeps
  <2>4. QED
    BY <2>1, <2>2, <2>3
<1>3. CleanerLocks'
  BY <1>2, KeyFacts DEF LockInv, CleanerLocks, Marking
<1>4. ASSUME NEW q \in Creators PROVE HoldsLocks(q)'
  <2>1. cpc' = cpc /\ job' = job /\ q # g /\ Layer(q)' = Layer(q)
    BY KeyFacts DEF creatorVars, Layer
  <2>2. HoldsLocks(q)
    BY DEF LockInv, CreatorLocks
  <2>3. (cpc[q] \in PullPC => Creating(q)) /\ (cpc[q] \in BuildPC => Creating(q))
    BY DEF Creating, PullPC, BuildPC
  <2>4. Creating(q)' => q \in shared'[GlobalLockKey]
    BY <1>2, <2>1, <2>2, KeyFacts DEF HoldsLocks, Creating
  <2>5. cpc'[q] \in BuildPC => q \in exclusive'[Layer(q)']
    BY <1>2, <2>1, <2>2, <2>3, KeyFacts DEF HoldsLocks
  <2>6. cpc'[q] \in PullPC =>
          \A j \in 1 .. Len(job'[q].image) :
             j > job'[q].index => q \in exclusive'[job'[q].image[j]]
    BY <1>2, <2>1, <2>2, KeyFacts DEF HoldsLocks
  <2>7. QED
    BY <2>4, <2>5, <2>6 DEF HoldsLocks
<1>5. QED
  BY <1>2, <1>3, <1>4 DEF LockInv, CreatorLocks

\* A clean relies on the global lock while it marks, and on the gc lock from
\* its first measurement to its exit.
LEMMA CleanLocks ==
  ASSUME Types, LockInv, NEW g \in Cleaners, Clean(g)
  PROVE  LockInv'
<1> USE DEF At, Goto, Marking
<1>a. /\ FlockInv /\ LockTypeOK /\ g \in Process /\ UNCHANGED creatorVars
      /\ gpc \in [Cleaners -> CleanerPC]
      /\ Marking(g) => g \in exclusive[GlobalLockKey]
      /\ gpc[g] \notin {"idle", "gclock"} => g \in exclusive[GCLockKey]
  BY DEF LockInv, CleanerLocks, Types, TypeOK, CleanerTypeOK, Process, Clean
<1>1. CASE StartClean(g)
  BY <1>1, <1>a, CleanOthersKeep DEF StartClean
<1>2. CASE LockGC(g)
  <2>1. g \in exclusive'[GCLockKey]
    BY <1>2, <1>a, GrantKeeps, KeyFacts DEF LockGC
  <2>2. QED
    BY <1>2, <1>a, <2>1, CleanOthersKeep DEF LockGC
<1>3. CASE LockGlobalExclusive(g) \/ LockGlobalLate(g)
  <2>1. g \in exclusive'[GlobalLockKey] /\ g \in exclusive'[GCLockKey]
    BY <1>3, <1>a, GrantKeeps, KeyFacts DEF LockGlobalExclusive, LockGlobalLate
  <2>2. QED
    BY <1>3, <1>a, <2>1, CleanOthersKeep DEF LockGlobalExclusive, LockGlobalLate
<1>4. CASE UnlockGlobal(g)
  <2>1. g \in exclusive'[GCLockKey]
    BY <1>4, <1>a, UnlockKeeps, KeyFacts DEF UnlockGlobal
  <2>2. QED
    BY <1>4, <1>a, <2>1, CleanOthersKeep DEF UnlockGlobal
<1>5. CASE LockGCTimeout(g) \/ EndClean(g) \/ CleaningTimeout(g) \/ KillClean(g)
  <2>1. gpc' = [gpc EXCEPT ![g] = "idle"] /\ Unlock(g, LockKey)
    BY <1>5 DEF LockGCTimeout, EndClean, CleaningTimeout, KillClean, ExitClean, ReleaseAll
  <2>2. QED
    BY <1>a, <2>1, CleanOthersKeep
<1>6. CASE \/ Measure(g) \/ LockGlobalTimeout(g) \/ GcVolumes(g)
           \/ (\E n \in Name : DestroyNext(g, n)) \/ DestroyLinkFile(g) \/ DestroyMeta(g)
           \/ DestroyDirBegin(g) \/ DestroyDirEnd(g) \/ CollectDone(g)
           \/ (\E n \in Name : DestroyNextFails(g, n)) \/ DestroyMetaFails(g)
           \/ DestroyFails(g) \/ GcVolumesFails(g)
  <2>1. /\ UNCHANGED lockVars /\ gpc[g] \notin {"idle", "gclock"}
        /\ \E l \in CleanerPC : gpc' = [gpc EXCEPT ![g] = l]
        /\ ~Marking(g)'
    BY <1>6, <1>a DEF Measure, LockGlobalTimeout, GcVolumes, DestroyNext, DestroyLinkFile,
       DestroyMeta, DestroyDirBegin, DestroyDirEnd, CollectDone, DestroyNextFails,
       DestroyMetaFails, DestroyFails, GcVolumesFails, CleanerPC, cleanerVars
  <2>2. QED
    BY <1>a, <2>1, CleanOthersKeep DEF lockVars
<1>7. CASE \/ ListVolumesAndImages(g)
           \/ (\E i \in Id : ReadDependencies(g, i) \/ ReadDependenciesError(g, i))
           \/ DependenciesRead(g) \/ (\E n \in Name : MarkNext(g, n))
           \/ MarkUnlink(g) \/ MarkSymlink(g) \/ MarkDir(g) \/ MarkMeta(g)
           \/ MarkDone(g) \/ UnusedVolumesFails(g)
           \/ (\E n \in Name : MarkNextFails(g, n)) \/ MarkFails(g)
  <2>1. /\ UNCHANGED lockVars /\ Marking(g)
        /\ \E l \in CleanerPC : gpc' = [gpc EXCEPT ![g] = l]
    BY <1>7, <1>a DEF ListVolumesAndImages, ReadDependencies, ReadDependenciesError,
       DependenciesRead, MarkNext, MarkUnlink, MarkSymlink, MarkDir, MarkMeta, MarkDone,
       UnusedVolumesFails, MarkNextFails, MarkFails, CleanerPC
  <2>2. QED
    BY <1>a, <2>1, CleanOthersKeep DEF lockVars
<1>8. QED
  BY <1>1, <1>2, <1>3, <1>4, <1>5, <1>6, <1>7 DEF Clean, CleanStep, CleanFault

\* Deletes take no locks.
LEMMA DeleteLocks ==
  ASSUME LockInv, NEW d \in Deleters, Delete(d)
  PROVE  LockInv'
<1>1. UNCHANGED <<lockVars, creatorVars, cleanerVars>>
  BY DEF Delete, DeleteStep, DeleteFault, StartDelete, DestroyImage, RemoveImage,
     DeleteFails, Deregister, KillDelete
<1>2. QED
  BY <1>1 DEF LockInv, FlockInv, CreatorLocks, HoldsLocks, CleanerLocks, Creating, Layer,
     Marking, lockVars, creatorVars, cleanerVars

------------------------------------------------------------------------------

\* No lock is held in the initial state, and no command needs one.
LEMMA InitLocks == Init => LockInv
BY KeyAssumption DEF Init, LockInit, CreatorInit, CleanerInit, LockInv, FlockInv,
   CreatorLocks, HoldsLocks, CleanerLocks, Creating, Marking, PullPC, BuildPC, LockKey

\* Every step of any command keeps the lock invariant.
LEMMA NextLocks == Types /\ LockInv /\ [Next]_vars => LockInv'
<1> SUFFICES ASSUME Types, LockInv, [Next]_vars PROVE LockInv'
  OBVIOUS
<1>1. CASE UNCHANGED vars
  BY <1>1 DEF vars, LockInv, FlockInv, CreatorLocks, HoldsLocks, CleanerLocks, Creating,
     Layer, Marking, lockVars, creatorVars, cleanerVars
<1>2. QED
  BY <1>1, CreateLocks, CleanLocks, DeleteLocks DEF Next, Rest

\* The lock invariant is an invariant of the specification.
LEMMA AlwaysLocks == Spec => [](Types /\ LockInv)
<1>1. QED
  BY AlwaysTypes, InitLocks, NextLocks, PTL DEF Spec

\* What the invariant gives the proofs that follow.
LEMMA Exclusion ==
  ASSUME Types, LockInv
  PROVE  /\ \A g \in Cleaners, p \in Creators : Marking(g) => ~Creating(p)
         /\ \A p, q \in Creators :
              cpc[p] \in BuildPC /\ cpc[q] \in BuildPC /\ p # q => Layer(p) # Layer(q)
         /\ \A p, q \in Creators :
              cpc[p] \in BuildPC /\ cpc[q] \in PullPC /\ p # q =>
                \A j \in 1 .. Len(job[q].image) :
                   j > job[q].index => job[q].image[j] # Layer(p)
<1>1. \A p \in Creators : cpc[p] \in PullPC => Creating(p)
  BY DEF PullPC, BuildPC, Creating
<1>2. QED
  BY <1>1, KeyFacts DEF LockInv, FlockInv, CreatorLocks, HoldsLocks, CleanerLocks, PullPC

\* A marking clean is alone with the volumes: no create is past its global
\* lock, no other clean past its gc lock.  Two creates never work on the same
\* layer.  For any number of processes, layers, faults and commands.
THEOREM Exclusive == Spec => []CommandsExclude
<1>1. Types /\ LockInv => CommandsExclude
  <2> SUFFICES ASSUME Types, LockInv PROVE CommandsExclude
    OBVIOUS
  <2>1. \A g \in Cleaners : Marking(g) => gpc[g] \notin {"idle", "gclock"}
    BY DEF Marking
  <2>2. \A g, h \in Cleaners : Marking(g) /\ h # g => gpc[h] \in {"idle", "gclock"}
    BY <2>1, KeyFacts DEF LockInv, FlockInv, CleanerLocks
  <2>3. \A p \in Creators : Unpacking(p) \/ Moving(p) => cpc[p] \in BuildPC
    BY DEF Unpacking, Moving, BuildPC
  <2>4. QED
    BY <2>2, <2>3, Exclusion DEF CommandsExclude
<1>2. QED
  BY <1>1, AlwaysLocks, PTL

------------------------------------------------------------------------------
(* Deadlock *)

\* Why a create holds the lock of a chain id: the layer is above the one that
\* buildLayer is at, or it is that one and its lock has been granted.
NeedsChain(p, c) ==
  /\ cpc[p] \in PullPC
  /\ \E j \in 1 .. Len(job[p].image) :
       /\ job[p].image[j] = c
       /\ j > job[p].index \/ (j = job[p].index /\ cpc[p] \in BuildPC)

\* A create holds no more than that, and the global lock.
CreateKeys(p) ==
  /\ p \in shared[GlobalLockKey] => Creating(p)
  /\ \A c \in Chain : p \in exclusive[c] => NeedsChain(p, c)

\* A clean holds the global lock while it marks, or has got it too late.
CleanKeys(g) ==
  /\ g \in exclusive[GlobalLockKey] => Marking(g) \/ gpc[g] = "metrics"
  /\ g \in exclusive[GCLockKey] => gpc[g] \notin {"idle", "gclock"}

\* Who may hold what: the converse of LockInv.
HolderInv ==
  /\ \A k \in LockKey : \A q \in shared[k] : k = GlobalLockKey /\ q \in Creators
  /\ \A q \in exclusive[GlobalLockKey] \cup exclusive[GCLockKey] : q \in Cleaners
  /\ \A c \in Chain : \A q \in exclusive[c] : q \in Creators
  /\ \A p \in Creators : CreateKeys(p)
  /\ \A g \in Cleaners : CleanKeys(g)

\* What a step of p can do to the lock table: nobody but p gets a lock, and p
\* only the one it asked for.
LEMMA OnlyOwn ==
  ASSUME LockTypeOK, NEW p, NEW K \in SUBSET LockKey,
         \/ UNCHANGED lockVars
         \/ \E k \in K : LockExclusive(p, k)
         \/ \E L : Unlock(p, L)
  PROVE  \A l \in LockKey :
           /\ shared'[l] \subseteq shared[l]
           /\ \A q \in exclusive'[l] : q \in exclusive[l] \/ (q = p /\ l \in K)
<1>1. CASE UNCHANGED lockVars
  BY <1>1 DEF lockVars
<1>2. CASE \E k \in K : LockExclusive(p, k)
  BY <1>2 DEF LockTypeOK, LockExclusive
<1>3. CASE \E L : Unlock(p, L)
  BY <1>3 DEF LockTypeOK, Unlock
<1>4. QED
  BY <1>1, <1>2, <1>3

\* A step of a create leaves the others with the locks they need.
LEMMA OthersHold ==
  ASSUME Types, HolderInv, NEW p \in Creators, UNCHANGED cleanerVars,
         \/ UNCHANGED lockVars
         \/ LockShared(p, GlobalLockKey)
         \/ LockExclusive(p, Layer(p)) /\ Creating(p)
         \/ \E L : Unlock(p, L),
         \A q \in Creators \ {p} : cpc'[q] = cpc[q] /\ job'[q] = job[q],
         CreateKeys(p)'
  PROVE  HolderInv'
<1>1. LockTypeOK /\ p \in Process
  BY DEF Types, TypeOK, Process
<1>2. \A l \in LockKey :
        /\ \A q \in shared'[l] : q \in shared[l] \/ (q = p /\ l = GlobalLockKey)
        /\ \A q \in exclusive'[l] : q \in exclusive[l] \/ (q = p /\ l \in Chain)
  <2>1. CASE LockShared(p, GlobalLockKey)
    BY <1>1, <2>1 DEF LockShared, LockTypeOK
  <2>2. CASE LockExclusive(p, Layer(p)) /\ Creating(p)
    <3>1. Layer(p) \in Chain /\ Chain \in SUBSET LockKey
      BY <2>2, KeyFacts
    <3>2. QED
      BY <1>1, <2>2, <3>1, OnlyOwn
  <2>3. CASE UNCHANGED lockVars \/ \E L : Unlock(p, L)
    <3>1. Chain \in SUBSET LockKey
      BY KeyFacts
    <3>2. QED
      BY <1>1, <2>3, <3>1, OnlyOwn
  <2>4. QED
    BY <2>1, <2>2, <2>3
<1>3. /\ \A k \in LockKey : \A q \in shared'[k] : k = GlobalLockKey /\ q \in Creators
      /\ \A q \in exclusive'[GlobalLockKey] \cup exclusive'[GCLockKey] : q \in Cleaners
      /\ \A c \in Chain : \A q \in exclusive'[c] : q \in Creators
  BY <1>2, KeyFacts DEF HolderInv
<1>4. ASSUME NEW q \in Creators, q # p PROVE CreateKeys(q)'
  <2>1. CreateKeys(q) /\ cpc'[q] = cpc[q] /\ job'[q] = job[q]
    BY <1>4 DEF HolderInv
  <2>2. /\ q \in shared'[GlobalLockKey] => q \in shared[GlobalLockKey]
        /\ \A c \in Chain : q \in exclusive'[c] => q \in exclusive[c]
    BY <1>2, <1>4, KeyFacts
  <2>3. QED
    BY <2>1, <2>2 DEF CreateKeys, NeedsChain, Creating
<1>5. ASSUME NEW g \in Cleaners PROVE CleanKeys(g)'
  <2>1. CleanKeys(g) /\ g # p /\ gpc' = gpc
    BY KeyFacts DEF HolderInv, cleanerVars
  <2>2. QED
    BY <1>2, <2>1, KeyFacts DEF CleanKeys, Marking
<1>6. \A q \in Creators : CreateKeys(q)'
  BY <1>4
<1>7. QED
  BY <1>3, <1>5, <1>6 DEF HolderInv

\* buildLayer returns with the lock of its layer released, or never taken: what
\* is left are the locks of the layers above, none for the topmost one.
LEMMA LayerDoneHolds ==
  ASSUME Types, NEW p \in Creators, CreateKeys(p), LayerDone(p), Creating(p),
         \/ UNCHANGED lockVars /\ cpc[p] = "probe"
         \/ Unlock(p, {Layer(p)}) /\ cpc[p] \in BuildPC
  PROVE  CreateKeys(p)'
<1> DEFINE i == job[p].index
           s == job[p].image
<1>1. /\ LockTypeOK /\ cpc \in [Creators -> CreatorPC] /\ job \in [Creators -> Job]
      /\ i \in 1 .. Len(s) /\ Len(s) \in Nat
  BY ImageTypes DEF Types, TypeOK, CreatorTypeOK, IndexOK, Job
<1>2. ASSUME NEW c \in Chain, p \in exclusive'[c]
      PROVE  \E j \in 1 .. Len(s) : s[j] = c /\ j > i
  <2>1. p \in exclusive[c] /\ (cpc[p] \in BuildPC => c # Layer(p))
    BY <1>1, <1>2, KeyFacts DEF Unlock, LockTypeOK, lockVars, BuildPC
  <2>2. QED
    BY <2>1 DEF CreateKeys, NeedsChain, Layer
<1>3. CASE i = Len(s)
  <2>1. cpc'[p] = "mkimage"
    BY <1>1, <1>3 DEF LayerDone
  <2>2. \A c \in Chain : p \notin exclusive'[c]
    BY <1>1, <1>2, <1>3
  <2>3. QED
    BY <2>1, <2>2 DEF CreateKeys, Creating
<1>4. CASE i # Len(s)
  <2>1. cpc'[p] = "stream" /\ job' = [job EXCEPT ![p].index = job[p].index + 1]
    BY <1>1, <1>4 DEF LayerDone
  <2>2. job'[p].image = s /\ job'[p].index = i + 1
    BY <1>1, <2>1 DEF Job
  <2>3. \A c \in Chain : p \in exclusive'[c] => NeedsChain(p, c)'
    <3>1. ASSUME NEW c \in Chain, p \in exclusive'[c] PROVE NeedsChain(p, c)'
      <4>1. PICK j \in 1 .. Len(s) : s[j] = c /\ j > i
        BY <1>2, <3>1
      <4>2. j > i + 1 \/ j = i + 1
        BY <1>1, <4>1
      <4>3. QED
        BY <2>1, <2>2, <4>1, <4>2 DEF NeedsChain, PullPC, BuildPC
    <3>2. QED
      BY <3>1
  <2>4. QED
    BY <2>1, <2>3 DEF CreateKeys, Creating
<1>5. QED
  BY <1>3, <1>4

\* No step of a create leaves it with a lock it does not need.
LEMMA CreateHolders ==
  ASSUME Types, HolderInv, NEW p \in Creators, Create(p)
  PROVE  HolderInv'
<1> USE DEF Step
<1>a. /\ LockTypeOK /\ CreateKeys(p) /\ UNCHANGED cleanerVars
      /\ cpc \in [Creators -> CreatorPC] /\ job \in [Creators -> Job]
  BY DEF HolderInv, Types, TypeOK, CreatorTypeOK, Create
<1>b. cpc[p] \notin PullPC => \A c \in Chain : p \notin exclusive[c]
  BY <1>a DEF CreateKeys, NeedsChain
<1>1. CASE \E i \in Id, image \in Image : StartCreate(p, i, image)
  <2>1. UNCHANGED lockVars /\ cpc[p] = "idle" /\ cpc'[p] = "glock"
        /\ \A q \in Creators \ {p} : cpc'[q] = cpc[q] /\ job'[q] = job[q]
    BY <1>1, <1>a DEF StartCreate
  <2>2. CreateKeys(p)'
    BY <1>a, <1>b, <2>1 DEF CreateKeys, Creating, PullPC, BuildPC, lockVars
  <2>3. QED
    BY <1>a, <2>1, <2>2, OthersHold
<1>2. CASE LockGlobalShared(p)
  <2>1. cpc[p] = "glock" /\ cpc'[p] = "probe" /\ UNCHANGED exclusive
    BY <1>2, <1>a DEF LockGlobalShared, LockShared
  <2>2. CreateKeys(p)'
    BY <1>b, <2>1 DEF CreateKeys, Creating, PullPC, BuildPC
  <2>3. QED
    BY <1>2, <1>a, <2>2, OthersHold DEF LockGlobalShared
<1>3. CASE ProbeVolume(p)
  <2>1. Creating(p) /\ UNCHANGED lockVars /\ cpc[p] = "probe"
    BY <1>3 DEF ProbeVolume, Creating
  <2>2. CASE LayerDone(p)
    <3>1. CreateKeys(p)'
      BY <1>a, <2>1, <2>2, LayerDoneHolds
    <3>2. \A q \in Creators \ {p} : cpc'[q] = cpc[q] /\ job'[q] = job[q]
      BY <2>2, <1>a DEF LayerDone
    <3>3. QED
      BY <1>a, <2>1, <3>1, <3>2, OthersHold
  <2>3. CASE cpc' = [cpc EXCEPT ![p] = "clock"] /\ UNCHANGED job
    <3>1. CreateKeys(p)'
      BY <1>a, <2>1, <2>3 DEF CreateKeys, NeedsChain, Creating, PullPC, BuildPC, lockVars
    <3>2. QED
      BY <1>a, <2>1, <2>3, <3>1, OthersHold
  <2>4. QED
    BY <1>3, <2>2, <2>3 DEF ProbeVolume
<1>4. CASE LockChain(p)
  <2>1. /\ Creating(p) /\ Layer(p) \in Chain /\ LockExclusive(p, Layer(p))
        /\ cpc[p] = "clock" /\ cpc'[p] = "reprobe" /\ job' = job /\ shared' = shared
    BY <1>4, <1>a, KeyFacts DEF LockChain, LockExclusive, Creating
  <2>2. \A c \in Chain : p \in exclusive'[c] => p \in exclusive[c] \/ c = Layer(p)
    BY <1>a, <2>1, KeyFacts DEF LockExclusive, LockTypeOK
  <2>3. job[p].index \in 1 .. Len(job[p].image)
    BY <2>1 DEF Types, IndexOK
  <2>4. ASSUME NEW c \in Chain, p \in exclusive'[c] PROVE NeedsChain(p, c)'
    <3>1. CASE c = Layer(p)
      BY <2>1, <2>3, <3>1 DEF NeedsChain, Layer, PullPC, BuildPC
    <3>2. CASE p \in exclusive[c]
      BY <1>a, <2>1, <3>2 DEF CreateKeys, NeedsChain, PullPC, BuildPC
    <3>3. QED
      BY <2>2, <2>4, <3>1, <3>2
  <2>5. CreateKeys(p)'
    BY <1>a, <2>1, <2>4 DEF CreateKeys, Creating
  <2>6. QED
    BY <1>4, <1>a, <2>1, <2>5, OthersHold DEF LockChain
<1>5. CASE ReprobeHit(p) \/ FinalizeDir(p)
  <2>1. /\ Creating(p) /\ Unlock(p, {Layer(p)}) /\ cpc[p] \in BuildPC /\ LayerDone(p)
        /\ \A q \in Creators \ {p} : cpc'[q] = cpc[q] /\ job'[q] = job[q]
    BY <1>5, <1>a DEF ReprobeHit, FinalizeDir, LayerDone, Creating, BuildPC
  <2>2. CreateKeys(p)'
    BY <1>a, <2>1, LayerDoneHolds
  <2>3. QED
    BY <1>a, <2>1, <2>2, OthersHold
<1>6. CASE ReprobeMiss(p) /\ job[p].index > 1
  <2>1. /\ cpc[p] = "reprobe" /\ cpc'[p] = "probe" /\ UNCHANGED lockVars
        /\ job'[p].index = job[p].index - 1 /\ job'[p].image = job[p].image
        /\ \A q \in Creators \ {p} : cpc'[q] = cpc[q] /\ job'[q] = job[q]
    BY <1>6, <1>a DEF ReprobeMiss, Job
  <2>2. ASSUME NEW c \in Chain, p \in exclusive[c] PROVE NeedsChain(p, c)'
    <3>1. PICK j \in 1 .. Len(job[p].image) : job[p].image[j] = c /\ j >= job[p].index
      BY <1>a, <2>2, KeyFacts DEF CreateKeys, NeedsChain
    <3>2. j > job[p].index - 1
      BY <3>1, KeyFacts
    <3>3. QED
      BY <2>1, <3>1, <3>2 DEF NeedsChain, PullPC
  <2>3. CreateKeys(p)'
    BY <2>1, <2>2 DEF CreateKeys, Creating, lockVars
  <2>4. QED
    BY <1>a, <2>1, <2>3, OthersHold
<1>7. CASE GiveUpPull(p) /\ UNCHANGED job /\ Creating(p)
  <2>1. cpc'[p] = "unlock" /\ Unlock(p, Chain)
    BY <1>7, <1>a DEF GiveUpPull
  <2>2. \A c \in Chain : p \notin exclusive'[c]
    BY <2>1, KeyFacts DEF Unlock
  <2>3. CreateKeys(p)'
    BY <2>1, <2>2 DEF CreateKeys, Creating
  <2>4. QED
    BY <1>7, <1>a, <2>1, <2>3, OthersHold DEF GiveUpPull
<1>8. CASE /\ UNCHANGED lockVars /\ cpc[p] \in BuildPC /\ cpc'[p] \in BuildPC
           /\ job'[p].image = job[p].image /\ job'[p].index = job[p].index
           /\ \A q \in Creators \ {p} : cpc'[q] = cpc[q] /\ job'[q] = job[q]
  <2>1. CreateKeys(p)'
    BY <1>a, <1>8 DEF CreateKeys, NeedsChain, Creating, PullPC, BuildPC, lockVars
  <2>2. QED
    BY <1>a, <1>8, <2>1, OthersHold
<1>9. CASE \/ MkdirImage(p) \/ MkdirImageExists(p) \/ CreateImage(p)
           \/ CreateImageNotReady(p) \/ CreateImageFails(p) \/ SetOwnership(p)
           \/ SetOwnershipFails(p) \/ RegisterOpen(p) \/ RegisterWrite(p)
           \/ RegisterFails(p) \/ UndoUnmount(p) \/ UndoRemove(p) \/ UndoFails(p)
  <2>1. /\ UNCHANGED <<job, lockVars>> /\ cpc[p] \notin PullPC
        /\ cpc'[p] \notin {"idle", "glock"}
        /\ \A q \in Creators \ {p} : cpc'[q] = cpc[q]
    BY <1>9, <1>a DEF MkdirImage, MkdirImageExists, CreateImage, CreateImageNotReady,
       CreateImageFails, SetOwnership, SetOwnershipFails, RegisterOpen, RegisterWrite,
       RegisterFails, UndoUnmount, UndoRemove, UndoFails, PullPC, BuildPC
  <2>2. CreateKeys(p)'
    BY <1>b, <2>1 DEF CreateKeys, Creating, lockVars
  <2>3. QED
    BY <1>a, <2>1, <2>2, OthersHold
<1>10. CASE FetchBaseImageInfoFails(p) \/ EndCreate(p) \/ KillCreate(p)
  <2>1. /\ cpc' = [cpc EXCEPT ![p] = "idle"] /\ job' = [job EXCEPT ![p] = NoJob]
        /\ (UNCHANGED lockVars /\ cpc[p] = "glock") \/ Unlock(p, LockKey)
    BY <1>10 DEF FetchBaseImageInfoFails, EndCreate, KillCreate, ReleaseAll
  <2>2. \A c \in Chain : p \notin exclusive'[c]
    BY <1>b, <2>1, KeyFacts DEF Unlock, lockVars, PullPC, BuildPC
  <2>3. p \notin shared'[GlobalLockKey]
    BY <1>a, <2>1, KeyFacts DEF Unlock, lockVars, CreateKeys, Creating
  <2>4. CreateKeys(p)'
    BY <2>2, <2>3 DEF CreateKeys
  <2>5. QED
    BY <1>a, <2>1, <2>4, OthersHold
<1>11. ASSUME \/ FinalizeLinkFile(p) \/ FinalizeUnlink(p)
              \/ DestroyVolumeMeta(p) \/ PullFails(p)
       PROVE  \/ GiveUpPull(p) /\ UNCHANGED job /\ Creating(p)
              \/ /\ UNCHANGED lockVars /\ cpc[p] \in BuildPC /\ cpc'[p] \in BuildPC
                 /\ UNCHANGED job /\ \A q \in Creators \ {p} : cpc'[q] = cpc[q]
  BY <1>11, <1>a DEF FinalizeLinkFile, FinalizeUnlink, DestroyVolumeMeta, PullFails,
     Creating, BuildPC
<1>12. ASSUME \/ CreateSymlink(p) \/ CreateLinkFile(p) \/ Unpack(p) \/ UnpackFails(p)
              \/ DestroyVolumeSymlink(p) \/ DestroyVolumeLinkFile(p)
              \/ FinalizeMeta(p) \/ FinalizeSymlink(p) \/ StreamAndMkdir(p)
              \/ (ReprobeMiss(p) /\ ~(job[p].index > 1))
       PROVE  /\ UNCHANGED lockVars /\ cpc[p] \in BuildPC /\ cpc'[p] \in BuildPC
              /\ job'[p].image = job[p].image /\ job'[p].index = job[p].index
              /\ \A q \in Creators \ {p} : cpc'[q] = cpc[q] /\ job'[q] = job[q]
  BY <1>12, <1>a DEF CreateSymlink, CreateLinkFile, Unpack, UnpackFails,
     DestroyVolumeSymlink, DestroyVolumeLinkFile, FinalizeMeta, FinalizeSymlink,
     StreamAndMkdir, ReprobeMiss, BuildPC, Job
<1>13. QED
  BY <1>1, <1>2, <1>3, <1>4, <1>5, <1>6, <1>7, <1>8, <1>9, <1>10, <1>11, <1>12
     DEF Create, CreateStep, CreateFault

\* A step of a clean leaves the others with the locks they need.
LEMMA CleanOthersHold ==
  ASSUME Types, HolderInv, NEW g \in Cleaners, UNCHANGED creatorVars,
         \/ UNCHANGED lockVars
         \/ \E k \in {GCLockKey, GlobalLockKey} : LockExclusive(g, k)
         \/ \E L : Unlock(g, L),
         \A h \in Cleaners \ {g} : gpc'[h] = gpc[h],
         CleanKeys(g)'
  PROVE  HolderInv'
<1>1. LockTypeOK /\ {GCLockKey, GlobalLockKey} \in SUBSET LockKey
  BY KeyFacts DEF Types, TypeOK
<1>2. \A l \in LockKey :
        /\ shared'[l] \subseteq shared[l]
        /\ \A q \in exclusive'[l] :
             q \in exclusive[l] \/ (q = g /\ l \in {GCLockKey, GlobalLockKey})
  BY <1>1, OnlyOwn
<1>3. /\ \A k \in LockKey : \A q \in shared'[k] : k = GlobalLockKey /\ q \in Creators
      /\ \A q \in exclusive'[GlobalLockKey] \cup exclusive'[GCLockKey] : q \in Cleaners
      /\ \A c \in Chain : \A q \in exclusive'[c] : q \in Creators
  BY <1>2, KeyFacts DEF HolderInv
<1>4. ASSUME NEW h \in Cleaners, h # g PROVE CleanKeys(h)'
  <2>1. CleanKeys(h) /\ gpc'[h] = gpc[h]
    BY <1>4 DEF HolderInv
  <2>2. QED
    BY <1>2, <1>4, <2>1, KeyFacts DEF CleanKeys, Marking
<1>5. ASSUME NEW p \in Creators PROVE CreateKeys(p)'
  <2>1. CreateKeys(p) /\ cpc' = cpc /\ job' = job /\ p # g
    BY KeyFacts DEF HolderInv, creatorVars
  <2>2. /\ p \in shared'[GlobalLockKey] => p \in shared[GlobalLockKey]
        /\ \A c \in Chain : p \in exclusive'[c] => p \in exclusive[c]
    BY <1>2, <2>1, KeyFacts
  <2>3. QED
    BY <2>1, <2>2 DEF CreateKeys, NeedsChain, Creating
<1>6. \A h \in Cleaners : CleanKeys(h)'
  BY <1>4
<1>7. QED
  BY <1>3, <1>5, <1>6 DEF HolderInv

\* No step of a clean leaves it with a lock it does not need.
LEMMA CleanHolders ==
  ASSUME Types, HolderInv, NEW g \in Cleaners, Clean(g)
  PROVE  HolderInv'
<1> USE DEF At, Goto, Marking
<1>a. /\ LockTypeOK /\ CleanKeys(g) /\ UNCHANGED creatorVars
      /\ gpc \in [Cleaners -> CleanerPC]
  BY DEF HolderInv, Types, TypeOK, CleanerTypeOK, Clean
<1>1. CASE StartClean(g)
  BY <1>1, <1>a, CleanOthersHold DEF StartClean, CleanKeys, lockVars
<1>2. CASE LockGC(g)
  <2>1. /\ gpc[g] = "gclock" /\ gpc'[g] = "measure"
        /\ exclusive'[GlobalLockKey] = exclusive[GlobalLockKey]
    BY <1>2, <1>a, KeyFacts DEF LockGC, LockExclusive, LockTypeOK
  <2>2. CleanKeys(g)'
    BY <1>a, <2>1 DEF CleanKeys
  <2>3. QED
    BY <1>2, <1>a, <2>2, CleanOthersHold DEF LockGC
<1>3. CASE LockGlobalExclusive(g) \/ LockGlobalLate(g)
  <2>1. CleanKeys(g)'
    BY <1>3, <1>a DEF CleanKeys, LockGlobalExclusive, LockGlobalLate
  <2>2. QED
    BY <1>3, <1>a, <2>1, CleanOthersHold DEF LockGlobalExclusive, LockGlobalLate
<1>4. CASE UnlockGlobal(g)
  <2>1. g \notin exclusive'[GlobalLockKey] /\ gpc'[g] = "collect"
    BY <1>4, <1>a, KeyFacts DEF UnlockGlobal, Unlock
  <2>2. CleanKeys(g)'
    BY <2>1 DEF CleanKeys
  <2>3. QED
    BY <1>4, <1>a, <2>2, CleanOthersHold DEF UnlockGlobal
<1>5. CASE LockGCTimeout(g) \/ EndClean(g) \/ CleaningTimeout(g) \/ KillClean(g)
  <2>1. gpc' = [gpc EXCEPT ![g] = "idle"] /\ Unlock(g, LockKey)
    BY <1>5 DEF LockGCTimeout, EndClean, CleaningTimeout, KillClean, ExitClean, ReleaseAll
  <2>2. CleanKeys(g)'
    BY <2>1, KeyFacts DEF CleanKeys, Unlock
  <2>3. QED
    BY <1>a, <2>1, <2>2, CleanOthersHold
<1>6. CASE \/ Measure(g) \/ LockGlobalTimeout(g) \/ GcVolumes(g)
           \/ (\E n \in Name : DestroyNext(g, n)) \/ DestroyLinkFile(g) \/ DestroyMeta(g)
           \/ DestroyDirBegin(g) \/ DestroyDirEnd(g) \/ CollectDone(g)
           \/ (\E n \in Name : DestroyNextFails(g, n)) \/ DestroyMetaFails(g)
           \/ DestroyFails(g) \/ GcVolumesFails(g)
  <2>1. /\ UNCHANGED lockVars /\ ~Marking(g) /\ gpc[g] # "metrics"
        /\ \E l \in CleanerPC \ {"idle", "gclock"} : gpc' = [gpc EXCEPT ![g] = l]
    BY <1>6, <1>a DEF Measure, LockGlobalTimeout, GcVolumes, DestroyNext, DestroyLinkFile,
       DestroyMeta, DestroyDirBegin, DestroyDirEnd, CollectDone, DestroyNextFails,
       DestroyMetaFails, DestroyFails, GcVolumesFails, CleanerPC, cleanerVars
  <2>2. CleanKeys(g)'
    BY <1>a, <2>1 DEF CleanKeys, lockVars
  <2>3. QED
    BY <1>a, <2>1, <2>2, CleanOthersHold
<1>7. CASE \/ ListVolumesAndImages(g)
           \/ (\E i \in Id : ReadDependencies(g, i) \/ ReadDependenciesError(g, i))
           \/ DependenciesRead(g) \/ (\E n \in Name : MarkNext(g, n))
           \/ MarkUnlink(g) \/ MarkSymlink(g) \/ MarkDir(g) \/ MarkMeta(g)
           \/ MarkDone(g) \/ UnusedVolumesFails(g)
           \/ (\E n \in Name : MarkNextFails(g, n)) \/ MarkFails(g)
  <2>1. /\ UNCHANGED lockVars
        /\ \E l \in {"deps", "mark", "unlock"} \cup MarkPC : gpc' = [gpc EXCEPT ![g] = l]
    BY <1>7, <1>a DEF ListVolumesAndImages, ReadDependencies, ReadDependenciesError,
       DependenciesRead, MarkNext, MarkUnlink, MarkSymlink, MarkDir, MarkMeta, MarkDone,
       UnusedVolumesFails, MarkNextFails, MarkFails, MarkPC
  <2>2. CleanKeys(g)'
    BY <1>a, <2>1 DEF CleanKeys, lockVars, MarkPC
  <2>3. QED
    BY <1>a, <2>1, <2>2, CleanOthersHold
<1>8. QED
  BY <1>1, <1>2, <1>3, <1>4, <1>5, <1>6, <1>7 DEF Clean, CleanStep, CleanFault

\* Steps that touch neither locks nor the program of a create or clean.
LEMMA HolderFrame ==
  ASSUME HolderInv, UNCHANGED <<lockVars, creatorVars, cleanerVars>>
  PROVE  HolderInv'
BY DEF HolderInv, CreateKeys, CleanKeys, NeedsChain, Creating, Marking, lockVars,
   creatorVars, cleanerVars

\* Nobody ever holds a lock without need.
LEMMA AlwaysHolders == Spec => [](Types /\ LockInv /\ HolderInv)
<1>1. Init => HolderInv
  BY KeyAssumption DEF Init, LockInit, HolderInv, CreateKeys, CleanKeys, LockKey
<1>2. Types /\ HolderInv /\ [Next]_vars => HolderInv'
  <2> SUFFICES ASSUME Types, HolderInv, [Next]_vars PROVE HolderInv'
    OBVIOUS
  <2>1. ASSUME NEW d \in Deleters, Delete(d)
        PROVE  UNCHANGED <<lockVars, creatorVars, cleanerVars>>
    BY <2>1 DEF Delete, DeleteStep, DeleteFault, StartDelete, DestroyImage, RemoveImage,
       DeleteFails, Deregister, KillDelete
  <2>2. CASE UNCHANGED vars
    <3>1. UNCHANGED <<lockVars, creatorVars, cleanerVars>>
      BY <2>2 DEF vars
    <3>2. QED
      BY <3>1, HolderFrame
  <2>3. QED
    BY <2>1, <2>2, CreateHolders, CleanHolders, HolderFrame DEF Next, Rest
<1>3. QED
  BY <1>1, <1>2, AlwaysLocks, PTL DEF Spec

\* A command that waits on a lock whose holder waits, too, waits behind a
\* create that wants the lock of a chain id.
LEMMA WaitsEnd ==
  ASSUME Types, HolderInv, NEW p, NEW q, WaitsFor(p, q), NEW r, WaitsFor(q, r)
  PROVE  \/ q \in Creators /\ cpc[q] = "clock"
         \/ /\ p \in Cleaners /\ gpc[p] = "gclock"
            /\ q \in Cleaners /\ gpc[q] = "glock"
<1>1. \A c \in Creators, g \in Cleaners : c # g
  BY KeyFacts
<1>2. CASE q \in exclusive[GlobalLockKey]
  <2>1. q \in Cleaners /\ (Marking(q) \/ gpc[q] = "metrics")
    BY <1>2 DEF HolderInv, CleanKeys
  <2>2. FALSE
    BY <1>1, <2>1 DEF WaitsFor, Marking
  <2>3. QED
    BY <2>2
<1>3. CASE q \in shared[GlobalLockKey]
  <2>1. q \in Creators /\ Creating(q)
    BY <1>3, KeyFacts DEF HolderInv, CreateKeys
  <2>2. QED
    BY <1>1, <2>1 DEF WaitsFor, Creating
<1>4. CASE p \in Creators /\ cpc[p] = "clock" /\ q \in Holders(Layer(p))
  <2>1. Layer(p) \in Chain /\ Layer(p) \in LockKey /\ Layer(p) # GlobalLockKey
    BY <1>4, KeyFacts DEF Creating
  <2>2. q \in Creators /\ NeedsChain(q, Layer(p))
    BY <1>4, <2>1 DEF Holders, HolderInv, CreateKeys
  <2>3. QED
    BY <1>1, <2>2 DEF WaitsFor, NeedsChain, PullPC, BuildPC
<1>5. CASE p \in Cleaners /\ gpc[p] = "gclock" /\ q \in Holders(GCLockKey)
  <2>1. q \in Cleaners /\ gpc[q] \notin {"idle", "gclock"}
    BY <1>5, KeyFacts DEF Holders, HolderInv, CleanKeys
  <2>2. QED
    BY <1>1, <1>5, <2>1 DEF WaitsFor
<1>6. QED
  BY <1>2, <1>3, <1>4, <1>5 DEF WaitsFor, Holders

\* Of two creates that wait one for the other, the second is at a lower layer:
\* chain ids determine their position.
LEMMA WaitsDown ==
  ASSUME Types, HolderInv, NEW p \in Creators, NEW q \in Creators,
         cpc[p] = "clock", cpc[q] = "clock", WaitsFor(p, q)
  PROVE  job[q].index < job[p].index
<1>1. p \notin Cleaners /\ Creating(p) /\ Creating(q)
  BY KeyFacts DEF Creating
<1>2. Layer(p) \in Chain /\ Layer(p) \in LockKey /\ Layer(p) # GlobalLockKey
  BY <1>1, KeyFacts
<1>3. q \in Holders(Layer(p))
  BY <1>1 DEF WaitsFor
<1>4. NeedsChain(q, Layer(p))
  BY <1>2, <1>3 DEF Holders, HolderInv, CreateKeys
<1>5. PICK j \in 1 .. Len(job[q].image) : job[q].image[j] = Layer(p) /\ j > job[q].index
  BY <1>4 DEF NeedsChain, BuildPC
<1>6. /\ job[p].image \in Image /\ job[q].image \in Image
      /\ job[p].index \in 1 .. Len(job[p].image) /\ job[q].index \in Nat
  BY <1>1 DEF Types, TypeOK, CreatorTypeOK, IndexOK, Job
<1>7. /\ DOMAIN job[p].image = 1 .. Len(job[p].image)
      /\ DOMAIN job[q].image = 1 .. Len(job[q].image)
  BY <1>6, ImageTypes
<1>8. j = job[p].index
  BY <1>5, <1>6, <1>7, ImageAssumption DEF Layer
<1>9. QED
  BY <1>5, <1>6, <1>8

\* Of the creates that wait for a chain id one is at the lowest layer.
LEMMA LowestWaiting ==
  ASSUME Types, NEW W \in SUBSET Creators, W # {}
  PROVE  \E p \in W : \A q \in W : ~(job[q].index < job[p].index)
<1> DEFINE indices == {job[p].index : p \in W}
<1>1. \A p \in W : job[p].index \in Nat
  BY KeyFacts
<1>2. indices \in SUBSET Nat /\ indices # {}
  BY <1>1
<1> HIDE DEF indices
<1>3. PICK i \in indices : \A j \in indices : ~ (<<j, i>> \in OpToRel(<, Nat))
  BY <1>2, WFMin, NatLessThanWellFounded
<1>4. \A j \in indices : ~ (j < i)
  BY <1>2, <1>3, Zenon DEF OpToRel
<1>5. QED
  BY <1>3, <1>4 DEF indices

\* The commands cannot deadlock on their locks, for any number of commands and
\* layers and whatever fails: chain ids are locked from the top layer down, and
\* who waits for one holds those above it only.
THEOREM NoDeadlock == Spec => []NoCircularWait
<1>1. Types /\ HolderInv => NoCircularWait
  <2> SUFFICES ASSUME Types, HolderInv, NEW group \in (SUBSET Process) \ {{}}
               PROVE  \E p \in group : \A q \in group : ~WaitsFor(p, q)
    BY DEF NoCircularWait
  <2> SUFFICES ASSUME \A p \in group : \E q \in group : WaitsFor(p, q)
               PROVE  FALSE
    OBVIOUS
  <2> DEFINE W == {p \in group : p \in Creators /\ cpc[p] = "clock"}
  <2>1. ASSUME NEW p \in group
        PROVE  \E q \in group :
                 /\ WaitsFor(p, q)
                 /\ \/ q \in W
                    \/ /\ p \in Cleaners /\ gpc[p] = "gclock"
                       /\ q \in Cleaners /\ gpc[q] = "glock"
    <3>1. PICK q \in group : WaitsFor(p, q)
      OBVIOUS
    <3>2. PICK r \in group : WaitsFor(q, r)
      OBVIOUS
    <3>3. QED
      BY <3>1, <3>2, WaitsEnd
  <2>2. W # {}
    <3>0. group # {}
      OBVIOUS
    <3>1. PICK p : p \in group
      BY ONLY <3>0
    <3>2. PICK q \in group : \/ q \in W
                             \/ q \in Cleaners /\ gpc[q] = "glock"
      BY <2>1, <3>1
    <3>3. gpc[q] # "gclock" => \E r \in group : r \in W
      BY <2>1
    <3>4. QED
      BY <3>2, <3>3
  <2>3. PICK p \in W : \A q \in W : ~(job[q].index < job[p].index)
    BY <2>2, LowestWaiting
  <2>4. PICK q \in group : /\ WaitsFor(p, q)
                           /\ \/ q \in W
                              \/ p \in Cleaners /\ gpc[p] = "gclock"
    BY <2>1, <2>3
  <2>5. p \notin Cleaners
    BY <2>3, KeyFacts
  <2>6. job[q].index < job[p].index
    BY <2>3, <2>4, <2>5, WaitsDown
  <2>7. QED
    BY <2>3, <2>4, <2>5, <2>6
<1>2. QED
  BY <1>1, AlwaysHolders, PTL
==============================================================================
