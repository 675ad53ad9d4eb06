----------------------------- MODULE StoreManager -----------------------------
(***************************************************************************)
(* The life of a store: init-store and delete-store (store/manager), the   *)
(* part of the overlay-xfs driver they call, and the namespace file        *)
(* (groot/store_namespacer.go).                                            *)
(*                                                                         *)
(* The store path is a directory of the host's filesystem on which the XFS *)
(* filesystem kept in <store>.backing-store may be mounted.  init-store    *)
(* holds the init-store lock of /var/run from its second step to its last; *)
(* delete-store takes no lock.  A step is a system call that changes the   *)
(* store, or the reads that follow the one before.                         *)
(***************************************************************************)
EXTENDS Integers, Sequences, FiniteSets, FiniteSetsExt

CONSTANTS
  Inits, Removers,  \* slots for init-store and delete-store commands
  Mapping,          \* lists of uid and gid mappings, normalised
  MappingList,      \* what is in them: sequences of [NamespaceID, HostID, Size]
  Image,            \* images, each with the volumes of its layers
  None,
  StoreFolders,     \* store.StoreFolders, in its order
  DriverItems,      \* what the driver's ConfigureStore adds to them
  Modes,            \* flags of init-store used together: [sized, direct]
  HostFS,           \* may the directory above the store path be on XFS?
  FailingCalls,     \* the system calls that may fail
  MaxOps, MaxFails, MaxCrashes, MaxReboots, MaxAdmin

Item == StoreFolders \o DriverItems
Items == {Item[i] : i \in DOMAIN Item}
Folders == {StoreFolders[i] : i \in DOMAIN StoreFolders}

Command == Inits \cup Removers

\* What the init-store command passes on: mappings, and whether there are
\* --store-size-bytes and --with-direct-io.
InitSpec == {[mapping |-> m, sized |-> x.sized, direct |-> x.direct] : m \in Mapping, x \in Modes}

ASSUME StoreAssumption ==
  /\ Inits \cap Removers = {}
  /\ None \notin Mapping \cup {"torn"}
  /\ "torn" \notin Mapping
  /\ DOMAIN MappingList = Mapping
  /\ \A m \in Mapping : MappingList[m] \in Seq([NamespaceID: Int, HostID: Int, Size: Int])
  /\ Modes \subseteq [sized: BOOLEAN, direct: BOOLEAN]
  /\ {StoreFolders, DriverItems} \subseteq Seq(STRING)
  /\ {"images", "meta"} \subseteq Folders
  /\ HostFS \subseteq BOOLEAN
  /\ FailingCalls \subseteq {"mkdir", "chown", "write", "mkfs", "mount", "destroy", "unmount", "unlink"}
  /\ {MaxOps, MaxFails, MaxCrashes, MaxReboots, MaxAdmin} \subseteq Nat

VARIABLES
  hostIsXFS, \* the directory above the store path is on XFS
  dir,       \* the store path exists
  host,      \* what is in it, below any mount
  backing,   \* the backing store file: missing, without or with a filesystem
  disk,      \* what is in that filesystem
  mounted,   \* how it is mounted: "good" with noatime and prjquota
  direct,    \* direct-io is on for its loop device
  initLock,  \* the holder of the init-store lock
  pc,        \* where each command is
  arg,       \* the InitSpec of each init-store
  valPath,   \* the path an init-store validates, chosen before it has the lock
  item,      \* the next element of Item an init-store makes
  ok,        \* the command has met no error
  listed,    \* the images or volumes a delete-store still has to destroy
  promised,  \* all that a delete-store has listed (history)
  refused,   \* a mount of a formatted backing file has failed (history)
  made,      \* the mappings each image was made under (history)
  spent      \* how much of each budget is used, and the refused mounts

storeVars == <<hostIsXFS, dir, host, backing, disk, mounted, direct>>
procVars == <<pc, arg, valPath, item, ok, listed, promised, refused>>
vars == <<storeVars, procVars, initLock, made, spent>>

\* What is in a store, and whose it is; "." is the store path itself.
Names == Items \cup {"."}
Tree == [dirs: SUBSET Items, owner: [Names -> Int], ns: Mapping \cup {None, "torn"},
         images: SUBSET Image, volumes: SUBSET Image]
EmptyTree == [dirs |-> {}, owner |-> [n \in Names |-> 0], ns |-> None, images |-> {}, volumes |-> {}]

InitPC == {"lock", "mount", "validate", "mkstore", "file", "remount",
           "mkfs", "mountnew", "meta", "nsstat", "nscreate", "nsencode",
           "owner", "items", "chown", "unlock"}
RemovePC == {"images", "delimages", "volumes", "delvolumes", "unmount",
             "removeall", "end"}

Init ==
  /\ hostIsXFS \in HostFS
  /\ dir \in BOOLEAN
  /\ host = EmptyTree
  /\ backing = "none"
  /\ disk = EmptyTree
  /\ mounted = "no"
  /\ direct = FALSE
  /\ initLock = {}
  /\ pc = [p \in Command |-> "idle"]
  /\ arg = [p \in Inits |-> [mapping |-> None, sized |-> FALSE, direct |-> FALSE]]
  /\ valPath = [p \in Inits |-> "store"]
  /\ item = [p \in Inits |-> 1]
  /\ ok = [p \in Command |-> TRUE]
  /\ listed = [p \in Removers |-> {}]
  /\ promised = [p \in Removers |-> {}]
  /\ refused = [p \in Inits |-> FALSE]
  /\ made = [i \in Image |-> None]
  /\ spent = [ops |-> 0, fails |-> 0, crashes |-> 0, reboots |-> 0, admin |-> 0,
              refusals |-> 0]

\* Every variable has the shape the actions rely on.
TypeOK ==
  /\ hostIsXFS \in BOOLEAN
  /\ dir \in BOOLEAN
  /\ host \in Tree
  /\ backing \in {"none", "raw", "xfs"}
  /\ disk \in Tree
  /\ mounted \in {"no", "plain", "good"}
  /\ direct \in BOOLEAN
  /\ initLock \subseteq Inits
  /\ pc \in [Command -> InitPC \cup RemovePC \cup {"idle"}]
  /\ arg \in [Inits -> [mapping: Mapping \cup {None}, sized: BOOLEAN, direct: BOOLEAN]]
  /\ valPath \in [Inits -> {"store", "parent"}]
  /\ item \in [Inits -> 1 .. Len(Item) + 1]
  /\ ok \in [Command -> BOOLEAN]
  /\ listed \in [Removers -> SUBSET Image]
  /\ promised \in [Removers -> SUBSET ({"images", "volumes"} \X Image)]
  /\ refused \in [Inits -> BOOLEAN]
  /\ made \in [Image -> Mapping \cup {None}]
  /\ spent \in [ops: Nat, fails: Nat, crashes: Nat, reboots: Nat,
                admin: Nat, refusals: Nat]

-------------------------------------------------------------------------------
\* What a path below the store path leads to, and a change made there.
View == IF mounted = "no" THEN host ELSE disk

SetView(tree) ==
  IF mounted = "no" THEN host' = tree /\ disk' = disk
                    ELSE disk' = tree /\ host' = host

Goto(p, to) == pc' = [pc EXCEPT ![p] = to]

Step(p, from, to) == pc[p] = from /\ Goto(p, to)

\* The command returns the error it has met, through the deferred unlock.
Abort(p) ==
  /\ Goto(p, IF p \in Inits THEN "unlock" ELSE "end")
  /\ ok' = [ok EXCEPT ![p] = FALSE]

Spend(what, bound) ==
  /\ spent[what] < bound
  /\ spent' = [spent EXCEPT ![what] = @ + 1]

NoArgs == UNCHANGED <<arg, valPath, item, listed, promised, refused>>
NoStore == UNCHANGED storeVars
Rest == UNCHANGED <<made, spent>>

-------------------------------------------------------------------------------
(* init-store                                                              *)

\* Mutant of StartInit: the folders are counted from 0.
StartInitFromZero(p) ==
  /\ pc[p] = "idle"
  /\ Spend("ops", MaxOps)
  /\ \E spec \in InitSpec :
        arg' = [arg EXCEPT ![p] = spec]
  /\ Goto(p, "lock")
  /\ ok' = [ok EXCEPT ![p] = TRUE]
  /\ item' = [item EXCEPT ![p] = 0]
  /\ refused' = [refused EXCEPT ![p] = FALSE]
  /\ NoStore
  /\ UNCHANGED <<initLock, valPath, listed, promised, made>>

\* InitStore is called, and stats the store path before it asks for the lock.
StartInit(p) ==
  /\ pc[p] = "idle"
  /\ Spend("ops", MaxOps)
  /\ \E spec \in InitSpec :
        /\ arg' = [arg EXCEPT ![p] = spec]
        /\ valPath' = [valPath EXCEPT ![p] =
                         IF dir \/ spec.sized THEN "store" ELSE "parent"]
  /\ Goto(p, "lock")
  /\ ok' = [ok EXCEPT ![p] = TRUE]
  /\ item' = [item EXCEPT ![p] = 1]
  /\ refused' = [refused EXCEPT ![p] = FALSE]
  /\ NoStore
  /\ UNCHANGED <<initLock, listed, promised, made>>

\* Mutant of LockInit: the lock is not exclusive.
LockInitShared(p) ==
  /\ Step(p, "lock", "mount")
  /\ initLock' = initLock \cup {p}
  /\ NoStore /\ NoArgs /\ Rest
  /\ UNCHANGED ok

LockInit(p) ==
  /\ initLock = {}
  /\ Step(p, "lock", "mount")
  /\ initLock' = initLock \cup {p}
  /\ NoStore /\ NoArgs /\ Rest
  /\ UNCHANGED ok

BackingStoreFileExists == backing # "none"

\* mount(8) of the backing file would work: it holds a filesystem, and the
\* mount point is there.
Mountable == dir /\ backing = "xfs" /\ mounted = "no"

\* mount -o loop takes a new loop device, without direct-io.
MountWith(options) == mounted' = options /\ direct' = FALSE

\* Mutant of MountExisting: an existing backing file is not mounted first.
MountExistingNever(p) ==
  /\ Step(p, "mount", "validate")
  /\ NoStore /\ NoArgs /\ Rest
  /\ UNCHANGED <<ok, initLock>>

\* mountFileSystemIfBackingStoreExists; an error is only logged.
MountExisting(p) ==
  /\ Step(p, "mount", "validate")
  /\ \/ Mountable /\ MountWith("good")
     \/ ~Mountable /\ UNCHANGED <<mounted, direct>>
  /\ NoArgs /\ Rest
  /\ UNCHANGED <<hostIsXFS, dir, host, backing, disk, ok, initLock>>

\* The same when mount(8) fails on a filesystem that it should have mounted.
MountRefused(p) ==
  /\ Step(p, "mount", "validate")
  /\ Mountable
  /\ "mount" \in FailingCalls
  /\ spent.fails < MaxFails
  /\ spent' = [spent EXCEPT !.fails = @ + 1, !.refusals = @ + 1]
  /\ refused' = [refused EXCEPT ![p] = TRUE]
  /\ NoStore
  /\ UNCHANGED <<arg, valPath, item, listed, promised, ok, initLock, made>>

\* CheckFSPath, first part: statfs has to report XFS.
FilesystemIsXFS(path) ==
  IF path = "parent" THEN hostIsXFS ELSE dir /\ (mounted # "no" \/ hostIsXFS)

\* The line of /proc/mounts for the store: device, path, type, options.
ProcMounts == IF mounted = "no" THEN {} ELSE {<<"loop", "store", "xfs", mounted>>}

\* CheckFSPath, second part: the options are checked on the lines that contain
\* "xfs <path>"; a line names the path before the type, so there is none.
CheckMountOptions(path) ==
  \A line \in ProcMounts :
    (\E i \in 1 .. Len(line) - 1 : SubSeq(line, i, i + 1) = <<"xfs", path>>) => line[4] = "good"

ValidateFileSystem(path) == FilesystemIsXFS(path) /\ CheckMountOptions(path)

\* What InitStore makes of the validation.
Validate(p) ==
  /\ pc[p] = "validate"
  /\ \/ ValidateFileSystem(valPath[p]) /\ Goto(p, "meta") /\ UNCHANGED ok
     \/ ~ValidateFileSystem(valPath[p]) /\ arg[p].sized /\ Goto(p, "mkstore") /\ UNCHANGED ok
     \/ ~ValidateFileSystem(valPath[p]) /\ ~arg[p].sized /\ Abort(p)
  /\ NoStore /\ NoArgs /\ Rest
  /\ UNCHANGED initLock

\* createAndMountFilesystem: MkdirAll of the store path.
MkdirStore(p) ==
  /\ Step(p, "mkstore", "file")
  /\ dir' = TRUE
  /\ NoArgs /\ Rest
  /\ UNCHANGED <<hostIsXFS, host, backing, disk, mounted, direct, ok, initLock>>

\* The backing file is created if missing, and truncated to the size.
CreateBackingFile(p) ==
  /\ Step(p, "file", "remount")
  /\ backing' = IF BackingStoreFileExists THEN backing ELSE "raw"
  /\ NoArgs /\ Rest
  /\ UNCHANGED <<hostIsXFS, dir, host, disk, mounted, direct, ok, initLock>>

\* InitFilesystem tries to remount first.
Remount(p) ==
  /\ pc[p] = "remount"
  /\ \/ mounted # "no" /\ mounted' = "good" /\ Goto(p, "meta")
     \/ mounted = "no" /\ UNCHANGED mounted /\ Goto(p, "mkfs")
  /\ NoArgs /\ Rest
  /\ UNCHANGED <<hostIsXFS, dir, host, backing, disk, direct, ok, initLock>>

\* formatFilesystem: mkfs.xfs -f, whatever the file holds.
Format(p) ==
  /\ Step(p, "mkfs", "mountnew")
  /\ backing' = "xfs"
  /\ disk' = EmptyTree
  /\ NoArgs /\ Rest
  /\ UNCHANGED <<hostIsXFS, dir, host, mounted, direct, ok, initLock>>

\* mkfs.xfs fails or is killed, before or after the old filesystem is gone.
FormatFails(p) ==
  /\ pc[p] = "mkfs"
  /\ "mkfs" \in FailingCalls
  /\ Spend("fails", MaxFails)
  /\ \/ UNCHANGED <<backing, disk>>
     \/ backing' = "raw" /\ disk' = EmptyTree
  /\ Abort(p)
  /\ NoArgs
  /\ UNCHANGED <<hostIsXFS, dir, host, mounted, direct, initLock, made>>

\* MountFilesystem of the new filesystem; its failure ends the command.
MountNew(p) ==
  /\ pc[p] = "mountnew"
  /\ \/ Mountable /\ MountWith("good") /\ Goto(p, "meta") /\ UNCHANGED ok
     \/ ~Mountable /\ UNCHANGED <<mounted, direct>> /\ Abort(p)
  /\ NoArgs /\ Rest
  /\ UNCHANGED <<hostIsXFS, dir, host, backing, disk, initLock>>

\* MkdirAll of the meta directory, which makes the store path if need be.
MkdirMeta(p) ==
  /\ Step(p, "meta", "nsstat")
  /\ dir' = TRUE
  /\ SetView([View EXCEPT !.dirs = @ \cup {"meta"}])
  /\ NoArgs /\ Rest
  /\ UNCHANGED <<hostIsXFS, backing, mounted, direct, ok, initLock>>

\* validateNamespace: the file decodes to the mappings given, in any order.
MappingsMatch(p) == View.ns = arg[p].mapping

\* Mutant of ApplyMappings: a file that cannot be decoded is taken as it is.
ApplyMappingsLenient(p) ==
  /\ pc[p] = "nsstat"
  /\ \/ View.ns = None /\ Goto(p, "nscreate") /\ UNCHANGED ok
     \/ View.ns \in {arg[p].mapping, "torn"} /\ Goto(p, "owner") /\ UNCHANGED ok
     \/ View.ns \notin {None, arg[p].mapping, "torn"} /\ Abort(p)
  /\ NoStore /\ NoArgs /\ Rest
  /\ UNCHANGED initLock

\* Mutant of ApplyMappings: the mappings given last are written.
ApplyMappingsAnew(p) ==
  /\ Step(p, "nsstat", "nscreate")
  /\ NoStore /\ NoArgs /\ Rest
  /\ UNCHANGED <<ok, initLock>>

\* ApplyMappings: a namespace file that exists has to hold the same mappings.
ApplyMappings(p) ==
  /\ pc[p] = "nsstat"
  /\ \/ View.ns = None /\ Goto(p, "nscreate") /\ UNCHANGED ok
     \/ MappingsMatch(p) /\ Goto(p, "owner") /\ UNCHANGED ok
     \/ View.ns # None /\ ~MappingsMatch(p) /\ Abort(p)
  /\ NoStore /\ NoArgs /\ Rest
  /\ UNCHANGED initLock

\* write, first part: os.Create makes or empties the file.
CreateNamespaceFile(p) ==
  /\ pc[p] = "nscreate"
  /\ \/ /\ "meta" \in View.dirs
        /\ SetView([View EXCEPT !.ns = "torn"])
        /\ Goto(p, "nsencode")
        /\ UNCHANGED ok
     \/ "meta" \notin View.dirs /\ Abort(p) /\ UNCHANGED <<host, disk>>
  /\ NoArgs /\ Rest
  /\ UNCHANGED <<hostIsXFS, dir, backing, mounted, direct, initLock>>

\* write, second part: the mappings go to the open file, which a delete-store
\* may have unlinked.
EncodeNamespace(p) ==
  /\ Step(p, "nsencode", "owner")
  /\ SetView([View EXCEPT !.ns = IF @ = None THEN None ELSE arg[p].mapping])
  /\ NoArgs /\ Rest
  /\ UNCHANGED <<hostIsXFS, dir, backing, mounted, direct, ok, initLock>>

\* The user that root of the namespace is mapped to; without mappings the
\* user of the command, and -1, which chown(2) takes for no change, when no
\* mapping is for root alone.
FindStoreOwner(m) ==
  LET list == MappingList[m]
      root == {i \in DOMAIN list : list[i].NamespaceID = 0 /\ list[i].Size = 1}
  IN IF list = <<>> THEN 0 ELSE IF root = {} THEN -1 ELSE list[Min(root)].HostID

\* chown(2) of what is there; it fails on what a delete-store has removed.
Chown(p, name, there, next) ==
  \/ /\ there
     /\ LET id == FindStoreOwner(arg[p].mapping)
        IN SetView([View EXCEPT !.owner[name] = IF id = -1 THEN @ ELSE id])
     /\ Goto(p, next)
     /\ UNCHANGED ok
  \/ ~there /\ Abort(p) /\ UNCHANGED <<host, disk>>

\* configureStore: the store path is given to its owner.
ChownStore(p) ==
  /\ pc[p] = "owner"
  /\ Chown(p, ".", dir, "items")
  /\ NoArgs /\ Rest
  /\ UNCHANGED <<hostIsXFS, dir, backing, mounted, direct, initLock>>

\* Mkdir and Mknod need their parent; the driver's MkdirAll makes it.
ParentThere(name) ==
  \/ name \in {"l", "projectids"}
  \/ dir /\ (name = "dependencies" => "meta" \in View.dirs)

\* Mutant of Leaves: what exists already is left as it is.
LeavesAll(name) == name \in View.dirs

\* createWhiteoutDevice does not touch a device that exists.
Leaves(name) == name = "whiteout_dev" /\ name \in View.dirs

\* createInternalDirectory for each of StoreFolders, then the driver's
\* whiteout device and directories; one that exists is used.
MakeItem(p) ==
  /\ pc[p] = "items"
  /\ item[p] \in DOMAIN Item
  /\ LET name == Item[item[p]] IN
       \/ /\ Leaves(name)
          /\ item' = [item EXCEPT ![p] = @ + 1]
          /\ UNCHANGED <<dir, host, disk, pc, ok>>
       \/ /\ ~Leaves(name) /\ ParentThere(name)
          /\ dir' = TRUE
          /\ SetView([View EXCEPT !.dirs = @ \cup {name}])
          /\ Goto(p, "chown")
          /\ UNCHANGED <<item, ok>>
       \/ /\ ~Leaves(name) /\ ~ParentThere(name)
          /\ Abort(p)
          /\ UNCHANGED <<dir, host, disk, item>>
  /\ Rest
  /\ UNCHANGED <<hostIsXFS, backing, mounted, direct, initLock,
                 arg, valPath, listed, promised, refused>>

\* The same functions give it to the owner.
ChownItem(p) ==
  /\ pc[p] = "chown"
  /\ Chown(p, Item[item[p]], Item[item[p]] \in View.dirs, "items")
  /\ item' = [item EXCEPT ![p] = @ + 1]
  /\ Rest
  /\ UNCHANGED <<hostIsXFS, dir, backing, mounted, direct, initLock,
                 arg, valPath, listed, promised, refused>>

\* losetup -j finds a loop device that is attached to the backing file.
HasLoopDevice == mounted # "no"

\* LOOP_SET_DIRECT_IO
SetDirectIO(enable) == direct' = enable

\* The driver's ConfigureStore ends by enabling or disabling direct-io on
\* the loop device of the backing file, if there is such a file.
ConfigureDirectIO(p) ==
  /\ pc[p] = "items"
  /\ item[p] = Len(Item) + 1
  /\ \/ ~BackingStoreFileExists /\ Goto(p, "unlock") /\ UNCHANGED <<ok, direct>>
     \/ BackingStoreFileExists /\ HasLoopDevice /\ SetDirectIO(arg[p].direct)
          /\ Goto(p, "unlock") /\ UNCHANGED ok
     \/ BackingStoreFileExists /\ ~HasLoopDevice /\ Abort(p) /\ UNCHANGED direct
  /\ NoArgs /\ Rest
  /\ UNCHANGED <<hostIsXFS, dir, host, backing, disk, mounted, initLock>>

UnlockInit(p) ==
  /\ Step(p, "unlock", "idle")
  /\ initLock' = initLock \ {p}
  /\ NoStore /\ NoArgs /\ Rest
  /\ UNCHANGED ok

-------------------------------------------------------------------------------
(* delete-store                                                            *)

\* DeleteStore is called; a store path that is not there is not an error.
StartDelete(p) ==
  /\ pc[p] = "idle"
  /\ Spend("ops", MaxOps)
  /\ Goto(p, IF dir THEN "images" ELSE "end")
  /\ ok' = [ok EXCEPT ![p] = TRUE]
  /\ promised' = [promised EXCEPT ![p] = {}]
  /\ NoStore
  /\ UNCHANGED <<initLock, arg, valPath, item, listed, refused, made>>

\* images and volumes: ReadDir fails on what does not look like a store.
List(p, at, folder, entries, next) ==
  /\ pc[p] = at
  /\ \/ /\ folder \in View.dirs
        /\ listed' = [listed EXCEPT ![p] = entries]
        /\ promised' = [promised EXCEPT ![p] = @ \cup ({folder} \X entries)]
        /\ Goto(p, next)
        /\ UNCHANGED ok
     \/ folder \notin View.dirs /\ Abort(p) /\ UNCHANGED <<listed, promised>>
  /\ NoStore /\ Rest
  /\ UNCHANGED <<initLock, arg, valPath, item, refused>>

ListImages(p) == List(p, "images", "images", View.images, "delimages")
ListVolumes(p) == List(p, "volumes", "volumes", View.volumes, "delvolumes")

\* Mutant of DestroyImage: the loop ends after its first image.
DestroyFirstImage(p) ==
  /\ Step(p, "delimages", "volumes")
  /\ \/ \E i \in listed[p] : SetView([View EXCEPT !.images = @ \ {i}])
     \/ listed[p] = {} /\ UNCHANGED <<host, disk>>
  /\ listed' = [listed EXCEPT ![p] = {}]
  /\ Rest
  /\ UNCHANGED <<hostIsXFS, dir, backing, mounted, direct, initLock, ok,
                 arg, valPath, item, promised, refused>>

\* DestroyImage of the next image listed; one that is gone is no error.
DestroyImage(p) ==
  /\ pc[p] = "delimages"
  /\ \/ \E i \in listed[p] :
          /\ listed' = [listed EXCEPT ![p] = @ \ {i}]
          /\ SetView([View EXCEPT !.images = @ \ {i}])
          /\ UNCHANGED pc
     \/ listed[p] = {} /\ Goto(p, "volumes") /\ UNCHANGED <<host, disk, listed>>
  /\ Rest
  /\ UNCHANGED <<hostIsXFS, dir, backing, mounted, direct, initLock, ok,
                 arg, valPath, item, promised, refused>>

\* DestroyVolume of the next volume listed.
DestroyVolume(p) ==
  /\ pc[p] = "delvolumes"
  /\ \/ \E i \in listed[p] :
          /\ listed' = [listed EXCEPT ![p] = @ \ {i}]
          /\ SetView([View EXCEPT !.volumes = @ \ {i}])
          /\ UNCHANGED pc
     \/ listed[p] = {} /\ Goto(p, "unmount") /\ UNCHANGED <<host, disk, listed>>
  /\ Rest
  /\ UNCHANGED <<hostIsXFS, dir, backing, mounted, direct, initLock, ok,
                 arg, valPath, item, promised, refused>>

\* A file of the store is open: the namespace file an init-store writes.
Busy == \E q \in Inits : pc[q] = "nsencode"

\* RootfulUnmounter: a path that is not a mount point is no error; while the
\* store is busy it retries, and gives up after 50 attempts.
Unmounts == mounted = "no" \/ ~Busy

DeInitFilesystem(p) ==
  /\ pc[p] = "unmount"
  /\ \/ Unmounts /\ MountWith("no") /\ Goto(p, "removeall") /\ UNCHANGED ok
     \/ ~Unmounts /\ Abort(p) /\ UNCHANGED <<mounted, direct>>
  /\ NoArgs /\ Rest
  /\ UNCHANGED <<hostIsXFS, dir, host, backing, disk, initLock>>

\* What may be unlinked now of the tree below the store path.
Removable ==
  {f \in View.dirs : f = "meta" => View.ns = None /\ "dependencies" \notin View.dirs}

\* RemoveAll unlinks the entries in the order the directory lists them.
RemoveEntry(p) ==
  /\ pc[p] = "removeall"
  /\ \/ /\ View.ns # None
        /\ SetView([View EXCEPT !.ns = None])
     \/ \E f \in Removable :
          SetView([View EXCEPT
                     !.dirs = @ \ {f},
                     !.owner[f] = 0,
                     !.images = IF f = "images" THEN {} ELSE @,
                     !.volumes = IF f = "volumes" THEN {} ELSE @])
  /\ NoArgs /\ Rest
  /\ UNCHANGED <<hostIsXFS, dir, backing, mounted, direct, initLock, pc, ok>>

\* tryRemoveAll ends: rmdir of a mount point is EBUSY, retried and given up.
RemoveStorePath(p) ==
  /\ pc[p] = "removeall"
  /\ [View EXCEPT !.owner = EmptyTree.owner] = EmptyTree
  /\ \/ mounted = "no" /\ dir' = FALSE /\ host' = EmptyTree /\ Goto(p, "end") /\ UNCHANGED ok
     \/ mounted # "no" /\ Abort(p) /\ UNCHANGED <<dir, host>>
  /\ NoArgs /\ Rest
  /\ UNCHANGED <<hostIsXFS, backing, disk, mounted, direct, initLock>>

EndDelete(p) ==
  /\ Step(p, "end", "idle")
  /\ NoStore /\ NoArgs /\ Rest
  /\ UNCHANGED <<ok, initLock>>

-------------------------------------------------------------------------------
(* create, faults and the operator                                         *)

\* IsStoreInitialized.
IsStoreInitialized ==
  dir /\ Folders \subseteq View.dirs /\ View.ns # None

\* Read: the namespace file decodes to mappings.
MappingsReadable == View.ns \in Mapping

\* The effect of a create command: it checks IsStoreInitialized, reads the
\* mappings from the namespace file and makes an image under them.
CreateImage(i) ==
  /\ made[i] = None
  /\ IsStoreInitialized
  /\ MappingsReadable
  /\ SetView([View EXCEPT !.images = @ \cup {i}, !.volumes = @ \cup {i}])
  /\ made' = [made EXCEPT ![i] = View.ns]
  /\ UNCHANGED <<hostIsXFS, dir, backing, mounted, direct, procVars, initLock, spent>>

\* list: the store and its directory of images are there; their names.
Listable == dir /\ "images" \in View.dirs
ListImageIDs == View.images

\* The system calls whose failure ends the command and changes nothing.
CallAt(at) ==
  CASE at \in {"mkstore", "meta", "items"} -> "mkdir"
    [] at \in {"owner", "chown"} -> "chown"
    [] at \in {"file", "nscreate", "nsencode"} -> "write"
    [] at = "mountnew" -> "mount"
    [] at \in {"delimages", "delvolumes"} -> "destroy"
    [] at = "unmount" -> "unmount"
    [] at = "removeall" -> "unlink"
    [] OTHER -> "none"

CallFails(p) ==
  /\ CallAt(pc[p]) \in FailingCalls
  /\ Spend("fails", MaxFails)
  /\ Abort(p)
  /\ NoStore /\ NoArgs
  /\ UNCHANGED <<initLock, made>>

\* A command is killed; the kernel drops its lock.
Killed(p) ==
  /\ pc[p] # "idle"
  /\ Spend("crashes", MaxCrashes)
  /\ Goto(p, "idle")
  /\ initLock' = initLock \ {p}
  /\ NoStore /\ NoArgs
  /\ UNCHANGED <<ok, made>>

\* The machine restarts: processes, locks and mounts are gone.
Reboot ==
  /\ Spend("reboots", MaxReboots)
  /\ MountWith("no")
  /\ pc' = [p \in Command |-> "idle"]
  /\ initLock' = {}
  /\ NoArgs
  /\ UNCHANGED <<hostIsXFS, dir, host, backing, disk, ok, made>>

\* The operator mounts the backing file without the options grootfs uses,
\* but not once an init-store has settled what the store path leads to.
AdminMount ==
  /\ Mountable
  /\ \A p \in Command :
       pc[p] \in {"idle", "lock", "mount", "validate", "mkstore", "file", "remount"}
  /\ Spend("admin", MaxAdmin)
  /\ MountWith("plain")
  /\ UNCHANGED <<hostIsXFS, dir, host, backing, disk, procVars, initLock, made>>

InitStore(p) ==
  \/ StartInit(p) \/ LockInit(p) \/ MountExisting(p) \/ MountRefused(p)
  \/ Validate(p) \/ MkdirStore(p) \/ CreateBackingFile(p) \/ Remount(p)
  \/ Format(p) \/ FormatFails(p) \/ MountNew(p) \/ MkdirMeta(p)
  \/ ApplyMappings(p) \/ CreateNamespaceFile(p) \/ EncodeNamespace(p)
  \/ ChownStore(p) \/ MakeItem(p) \/ ChownItem(p) \/ ConfigureDirectIO(p) \/ UnlockInit(p)

DeleteStore(p) ==
  \/ StartDelete(p) \/ ListImages(p) \/ DestroyImage(p) \/ ListVolumes(p)
  \/ DestroyVolume(p) \/ DeInitFilesystem(p) \/ RemoveEntry(p) \/ RemoveStorePath(p)
  \/ EndDelete(p)

Next ==
  \/ \E p \in Inits : InitStore(p)
  \/ \E p \in Removers : DeleteStore(p)
  \/ \E i \in Image : CreateImage(i)
  \/ \E p \in Command : CallFails(p) \/ Killed(p)
  \/ Reboot
  \/ AdminMount

Spec == Init /\ [][Next]_vars

-------------------------------------------------------------------------------
(* Properties                                                              *)

\* An init-store that is about to return without error leaves a whole store:
\* every folder, the driver's files, and a namespace file with the mappings it
\* was given, in the place the store path leads to; all of it belongs to the
\* user that root is mapped to, except for a whiteout device an earlier command
\* made, and the loop device has the direct-io asked for.  Other init-store
\* commands, crashes and restarts at any earlier step do not get in the way.
SuccessMeansWhole ==
  \A p \in Inits :
    pc[p] = "unlock" /\ ok[p] =>
      /\ View.dirs = Items
      /\ View.ns = arg[p].mapping
      /\ FindStoreOwner(arg[p].mapping) # -1 =>
           \A n \in Names \ {"whiteout_dev"} : View.owner[n] = FindStoreOwner(arg[p].mapping)
      /\ BackingStoreFileExists => direct = arg[p].direct

\* All images and volumes of a filesystem were made under the mappings that
\* its namespace file declares: no later init-store with other mappings, and
\* no interrupted one, changes them while there are images.  Whatever passes
\* IsStoreInitialized, the check that create makes, has a file that can be
\* read: interrupted between os.Create and Encode, init-store leaves a file
\* that exists, but not yet the folders.
ImagesKeepMappings ==
  /\ \A tree \in {host, disk} : \A i \in tree.images \cup tree.volumes : tree.ns = made[i]
  /\ IsStoreInitialized => MappingsReadable

\* init-store never loses an image, however often it is run, interrupted and
\* run again: mkfs.xfs -f only meets a filesystem with images in it after
\* mount(8) has failed on that filesystem.
LossOnlyIfRefused ==
  [][\A i \in Image :
       i \in (disk.images \cup host.images) \ (disk'.images \cup host'.images)
         => \E p \in Inits : pc[p] = "mkfs" /\ refused[p]]_vars

\* Images made in the directory below the mount point are never hidden by
\* mounting the backing file over them: init-store settles on one of the two
\* places and, if mount(8) has never refused the backing file, later ones
\* settle on the same.
NoImageHidden == mounted # "no" /\ spent.refusals = 0 => host.images = {}

\* list never tells of fewer images than there are: of a store that is not
\* mounted, after a restart or an interrupted init-store, it says that there
\* is none, and not that it is empty.
ListTrue == Listable /\ spent.refusals = 0 => ListImageIDs = host.images \cup disk.images

\* delete-store returns without error only when the images and the volumes it
\* has listed are gone, from the backing filesystem and from the directory
\* below it, whatever init-store and create do meanwhile.
DeletedMeansGone ==
  \A p \in Removers :
    pc[p] = "end" /\ ok[p] =>
      \A tree \in {host, disk} : \A i \in Image :
        /\ i \in tree.images => <<"images", i>> \notin promised[p]
        /\ i \in tree.volumes => <<"volumes", i>> \notin promised[p]

\* What CheckFSPath is called for: a store that init-store accepts on the
\* backing file is mounted with noatime and prjquota.
AcceptedHasOptions ==
  \A p \in Inits : pc[p] = "unlock" /\ ok[p] => mounted # "plain"

===============================================================================
