------------------------------- MODULE GrootFS -------------------------------
(***************************************************************************)
(* Any number of create, clean and delete commands on one store.           *)
(***************************************************************************)
EXTENDS Creator, Cleaner, Deleter

vars == <<spent, lockVars, volVars, imgVars, creatorVars, cleanerVars, deleterVars>>

Init ==
  /\ BudgetInit /\ LockInit /\ VolInit /\ ImgInit
  /\ CreatorInit /\ CleanerInit /\ DeleterInit

Create(p) ==
  /\ \/ \E i \in Id, image \in Image : StartCreate(p, i, image)
     \/ CreateStep(p)
     \/ CreateFault(p)
  /\ UNCHANGED <<cleanerVars, deleterVars>>

Clean(g) ==
  /\ StartClean(g) \/ CleanStep(g) \/ CleanFault(g)
  /\ UNCHANGED <<creatorVars, deleterVars>>

Delete(d) ==
  /\ (\E i \in Id : StartDelete(d, i)) \/ DeleteStep(d) \/ DeleteFault(d)
  /\ UNCHANGED <<creatorVars, cleanerVars>>

AllIdle ==
  /\ \A p \in Creators : cpc[p] = "idle"
  /\ \A g \in Cleaners : gpc[g] = "idle"
  /\ \A d \in Deleters : dpc[d] = "idle"

\* Every command has ended, and no more are started.
Rest == AllIdle /\ UNCHANGED vars

Next ==
  \/ \E p \in Creators : Create(p)
  \/ \E g \in Cleaners : Clean(g)
  \/ \E d \in Deleters : Delete(d)
  \/ Rest

Spec == Init /\ [][Next]_vars

\* The operating system runs every process, and grants a free lock to one
\* that waits for it.
Fairness ==
  /\ \A p \in Creators : WF_vars(CreateStep(p) /\ UNCHANGED <<cleanerVars, deleterVars>>)
  /\ \A g \in Cleaners : WF_vars(CleanStep(g) /\ UNCHANGED <<creatorVars, deleterVars>>)
  /\ \A d \in Deleters : WF_vars(DeleteStep(d) /\ UNCHANGED <<creatorVars, cleanerVars>>)

FairSpec == Spec /\ Fairness

------------------------------------------------------------------------------
(* Where the commands are *)

\* p is between the global lock and the end of its create.
Creating(p) == cpc[p] \notin {"idle", "glock"}

\* p has a temporary volume, complete with link file and symlink ...
Unpacking(p) == cpc[p] \in {"unpack", "meta", "mvlink"}

\* ... or is moving it to its chain id.
Moving(p) == cpc[p] \in {"mvunlink", "mvsymlink", "mvdir"}

\* g decides on, or makes, changes to volumes that creates could use.
Marking(g) ==
  gpc[g] \in {"list", "deps", "mark", "mvunlink", "mvsymlink", "mvdir", "mvmeta", "unlock"}

\* Where a clean has begun to mark volumes, and not yet destroyed all of them.
SweepPC ==
  {"mark", "mvunlink", "mvsymlink", "mvdir", "mvmeta", "unlock",
   "collect", "destroy", "dvlink", "dvmeta", "dvdir"}

\* p is blocked on a lock that q holds: flock(2) grants a shared lock beside
\* shared ones only, an exclusive one beside none.  A clean that measures while
\* its late goroutine waits is not blocked.
Holders(k) == shared[k] \cup exclusive[k]

WaitsFor(p, q) ==
  \/ p \in Creators /\ cpc[p] = "glock" /\ q \in exclusive[GlobalLockKey]
  \/ p \in Creators /\ cpc[p] = "clock" /\ q \in Holders(Layer(p))
  \/ p \in Cleaners /\ gpc[p] = "gclock" /\ q \in Holders(GCLockKey)
  \/ p \in Cleaners /\ gpc[p] = "glock" /\ q \in Holders(GlobalLockKey)

\* Calls fail and processes die anywhere but in a clean that is sweeping.
CalmNext == Next /\ \A g \in Cleaners : gpc[g] \in SweepPC => ~CleanFault(g)
CalmSpec == Init /\ [][CalmNext]_vars

------------------------------------------------------------------------------
(* Properties *)

\* Every variable has a value of its type.
TypeOK ==
  /\ BudgetTypeOK /\ LockTypeOK /\ VolTypeOK /\ ImgTypeOK
  /\ CreatorTypeOK /\ CleanerTypeOK /\ DeleterTypeOK

\* The layers under the rootfs of every image that a create has returned and
\* no delete has touched are complete and reachable through their short ids,
\* whatever clean, other creates, failures and crashes do meanwhile.
LiveImagesIntact ==
  \A i \in committed : \A c \in base[i] : Usable(Final(c))

\* A volume under its chain id holds the whole layer: a create that finds it
\* (buildLayer's volumeExists) never builds on half an unpacked layer.
PublishedWhole ==
  \A c \in Chain : VolumeExists(Final(c)) => vol[Final(c)] = "whole"

\* Clean takes the temporary volume of a download for garbage, being the
\* dependency of no image: it must not see one while a create works on it.
DownloadsUndisturbed ==
  \A p \in Creators :
    /\ Unpacking(p) => /\ VolumeExists(TempVolume(p))
                       /\ link[TempVolume(p)] = job[p].token
                       /\ sym[job[p].token] = TempVolume(p)
    /\ Moving(p) => /\ vol[TempVolume(p)] = "whole"
                    /\ link[Final(Layer(p))] = job[p].token
                    /\ ~VolumeExists(Final(Layer(p)))

\* While clean looks for and marks unused volumes no create is at work, no
\* other clean is past its gc lock, and no two creates build the same layer.
CommandsExclude ==
  /\ \A g \in Cleaners : Marking(g) =>
       /\ \A p \in Creators : ~Creating(p)
       /\ \A h \in Cleaners \ {g} : gpc[h] \in {"idle", "gclock"}
  /\ \A p, q \in Creators :
       (Unpacking(p) \/ Moving(p)) /\ (Unpacking(q) \/ Moving(q)) /\ p # q
          => Layer(p) # Layer(q)

\* No commands wait for each other in a circle: in every group of them there is
\* one that waits for none of the group.  The locks of several chain ids that a
\* create holds on its way down, the global lock and the gc lock cannot
\* deadlock, and it takes no timeout of clean to see to that.
NoCircularWait ==
  \A group \in (SUBSET Process) \ {{}} :
    \E p \in group : \A q \in group : ~WaitsFor(p, q)

\* When Pull has returned, CreateImage finds every layer of the image.
PulledLayersUsable ==
  \A p \in Creators : cpc[p] = "build" =>
     \A c \in Layers(job[p].image) : Usable(Final(c))

\* When no command runs, the four parts of every volume are all there, and
\* nothing else is: no short id without volume, no volume without short id.
StoreAtRest ==
  AllIdle =>
    /\ \A n \in Name : VolumeExists(n) <=> link[n] # None
    /\ \A n \in Name : VolumeExists(n) => sym[link[n]] = n
    /\ \A t \in Token : sym[t] # None => link[sym[t]] = t
    /\ \A c \in Chain : Final(c) \in meta <=> VolumeExists(Final(c))

\* A clean in which no call fails takes away every volume that was unused when
\* it looked, or, when a dependency file went missing under it, none at all.
CleanAllOrNothing ==
  \A g \in Cleaners : gpc[g] = "unlock" =>
    \/ \A n \in garbage[g] : ~VolumeExists(n)
    \/ \A n \in garbage[g] : Movable(n)

\* The store is a LayerCache: an image is committed only on layers that are
\* all usable, and clean, pulls that fail and processes that die make a layer
\* unusable only while no committed image is stacked on it.
Cache == INSTANCE LayerCache WITH
  cached <- {c \in Chain : Usable(Final(c))},
  rootfs <- [i \in Id |-> IF i \in committed THEN base[i] ELSE {}]

ImplementsCache == Cache!CacheSpec

\* An image that a create has returned stays until a delete unmounts it.
ImagesOutliveCreates ==
  [][\A i \in committed \ committed' :
       \E d \in Deleters : dpc[d] = "unmount" /\ victim[d] = i]_vars

\* Every command that is started comes to its end: as a budget has only so
\* many of them, that is to say that again and again none is running.
CommandsEnd == []<>AllIdle

\* A volume that was marked is destroyed: again and again there is none.
MarkedDestroyed == []<>(\A n \in {m \in Name : m.gc} : ~VolumeExists(n))
==============================================================================
