# GrootFS in TLA+

GrootFS makes root filesystems for containers. A *store* is a directory on an
XFS filesystem that holds the unpacked layers of base images (*volumes*) and the
root filesystems made from them (*images*), each an overlay mount on its layers.
Layers are shared between images and kept for later ones, until a garbage
collection finds that no image needs them.

There is no daemon. `grootfs create`, `grootfs delete` and `grootfs clean` are
separate processes that a client starts at will, several at a time, on one
store. All they have in common is the directory tree and a few `flock(2)` locks,
so every system call of one process can fall between any two of another, and
whatever a process leaves behind when it fails or dies is what the next one
finds. That is what the modules here are about.

## Inventory

| part | state | operations | hard about it |
|---|---|---|---|
| locksmith `store/locksmith` | `locks/<key>.lock` | Lock (shared, exclusive), LockWithTimeout, Unlock | a timed-out Lock goes on in a goroutine; locks end with the process |
| overlay-xfs driver `store/filesystems/overlayxfs/driver.go` | `volumes/<id>`, `l/<id>`, `l/<short id>`, `meta/volume-<id>` | CreateVolume, MoveVolume, WriteVolumeMeta, MarkVolumeArtifacts, DestroyVolume, CreateImage, DestroyImage | four places per volume, one system call each; ENOTEMPTY on rename taken for success |
| image manager `store/image_manager` | `images/<id>` | Create with cleanup on error, Destroy, Exists, ImageIDs | check of the id long before the mkdir; cleanup destroys by id |
| dependency manager `store/dependency_manager` | `meta/dependencies/image:<id>.json` | Register, Deregister, Dependencies | written after the image exists, truncated before it is written |
| creator and puller `groot/creator.go`, `base_image_puller` | none of their own | Create, Pull, buildLayer | recursion under the locks of several layers, failure at every call |
| cleaner and garbage collector `groot/cleaner.go`, `store/garbage_collector` | none | Clean, UnusedVolumes, MarkUnused, Collect | decides under locks, acts partly without them; cut short by a timeout |
| deleter `groot/deleter.go` | none | Delete | takes no lock at all |
| store manager, namespacer `store/manager`, `groot/store_namespacer.go` | the store itself, `meta/namespace.json` | InitStore, DeleteStore, ApplyMappings | repeated after crashes, DeleteStore without lock |
| quotas, tardis `overlayxfs/quota`, `overlayxfs/tardis` | `projectids/<n>`, XFS project quota, `storeDevice`, `image_quota`, `image_info` | limit, stats | project ids allocated and freed without lock; five files and attributes for one limit |
| layer fetcher and source, tar fetcher `fetcher` | blobs in temporary files | BaseImageInfo, StreamBlob | a registry that fails and lies: retries, checksums, sizes, quota; a local file that changes |
| unpacker, whiteouts, base directories, id translation `base_image_puller` | the files of one layer | Unpack, whiteouts, id maps | entries in any order, on layers of any shape; ids in a namespace |
| re-execution `sandbox`, `filesystems/namespaced` | a pipe between parent and child | Reexec | three processes that wait for each other, each of which may be killed |
| measurer, metrics, stats, generate-volume-size-metadata | sizes in `meta/volume-<id>` | reads, one rewrite | no lock: every reading of several files is torn |
| command line and configuration `main.go`, `commands`, `groot/async_cleaner.go` | none | Before, Build, the clean of `--with-clean` | two builders, a child process that gets its settings as flags |

How they interact. A *create* takes the global lock shared and holds it to its
end. Under it `buildLayer` goes from the top layer of the base image downwards,
takes the exclusive lock of every chain id it misses and, on the way back, unpacks
each missing layer into a temporary volume `<chain id>-incomplete-<random>`, which
MoveVolume then turns into `<chain id>`. After the pull the image directory is
made, the overlay mounted, and the dependencies registered. A *clean* takes the gc
lock and then the global lock exclusively; under both it lists volumes and images,
strikes from the volumes those some dependency file names, and renames the rest to
`gc.<id>`. It releases the global lock and destroys every `gc.` volume. A *delete*
unmounts and removes the image and then removes its dependency file.

Within a create, the settings of flags and file decide on the source of the layers
and on the limit; the fetcher turns a manifest into layers and hands each, checked,
to a process of its own that unpacks it, as root of a user namespace if the store has
id mappings and the user is not root. The image then gets a project id and a limit by
`tardis`, a setuid helper, and an overlay mount on its volumes.

What makes them correct: an image that was returned keeps all its layers, intact,
until it is deleted; a layer found under its chain id is complete; nobody touches a
download in progress; a clean removes what is unused and nothing else; what fails
or dies leaves nothing that breaks a later command; every command ends. A volume is
what the layer's digest says, and all volumes of an image together are the tree its
layers stand for; an image is under its own disk limit; a failed create leaves no
image and no file. Where the code does less than that, or than its documentation says,
is under "What the violated properties show".

## Modules

| module | models | state |
|---|---|---|
| `Environment` | constants and their assumptions, budgets of commands and faults | `spent` |
| `Locksmith` | `filesystem.go` | `shared`, `exclusive` |
| `OverlayXFS` | the volume half of `driver.go`, one operator per system call | `vol`, `link`, `sym`, `meta` |
| `ImageStore` | image directories, dependency files | `imgDir`, `base`, `depFile`, `deps`, history `committed` |
| `Creator` | `grootfs create` | `cpc`, `job` |
| `Cleaner` | `grootfs clean` | `gpc`, `queue`, `ids`, `cur`, `late`, history `garbage` |
| `Deleter` | `grootfs delete` | `dpc`, `victim` |
| `GrootFS` | all of them on one store; properties | - |
| `LayerCache` | abstract specification: what a store promises | `cached`, `rootfs` |
| `MCGrootFS` | GrootFS with two layers and two base images, for TLC | - |
| `StoreManager` | `init-store` and `delete-store`: `manager.go`, `store_namespacer.go`, the store half of `driver.go` | `dir`, `host`, `backing`, `disk`, `mounted`, `initLock`, per command `pc`, `arg`, `valPath`, `item`, `ok`, `listed`, history `promised`, `refused`, `made` |
| `MCStoreManager` | StoreManager for TLC: folder lists, symmetry | - |
| `DiskQuota` | disk limits: `applyDiskLimit`, `quota`, `tardis`, the measurer, stats, generate-volume-size-metadata | `projectids`, `limit`, `meta`, `device`, `node`, `image`, per command `proc`, `meter`, history `raced` |
| `Config` | settings: `builder.go`, `main.go`, `async_cleaner.go`, `createSystemContext` | none: operators |
| `Fetcher` | one create from its command line to its exit, with the layer fetcher, its source and the tar fetcher | `flags`, `cfg`, `img`, `diffs`, `version`, `chain`, `pc`, `attempt`, `source`, `quota`, `cur`, `tmp`, `volumes`, `child`, history `kept`, `why` |
| `Unpacker` | the entries of a layer, whiteouts, base directories, id translation, the overlay | none: operators on trees |
| `Sandbox` | Reexec and its callers, on the trees of `Unpacker` | `mode`, `stack`, `pc`, `res`, `image`, `vols`, `opaque`, `runs` |
| `MCDiskQuota`, `MCFetcher`, `MCSandbox` | instances for TLC | - |
| `GrootFSLocks`, `GrootFSImages`, `GrootFSTidy` | theorems about `GrootFS`, each module built on the one before | - |
| `StoreManagerProofs`, `DiskQuotaProofs`, `FetcherProofs`, `SandboxProofs` | theorems about the module they are named after | - |
| `SumLemmas` | lemmas on sums over finite sets, for `DiskQuotaProofs` and `FetcherProofs` | - |

`GrootFS` is the composition. The later modules each look into one step of it:
`Sandbox` into its `Unpack`, `Fetcher` into its `StreamAndMkdir`, `DiskQuota` into its
`CreateImage` and `RemoveImage`; what `GrootFS` assumes of these steps (a volume is
`partial` or `whole`, a call succeeds or fails without trace) is what they check.

`Locksmith`, `OverlayXFS` and `ImageStore` have no next-state relation: they are
libraries in the code and libraries here. Their operators each constrain all of
the variables of their module, and an action of a command is one of them (at most
one per file system object) together with a step of the command's program counter.
The value of a program counter names the *next* call. `CreateStep`, `CleanStep` and
`DeleteStep` are what a command does by itself, `CreateFault`, `CleanFault` and
`DeleteFault` what happens to it: a call that fails, the cleaning timeout, a kill.

Where the grain is coarser than a system call, the calls taken together touch only
what no other process can see or change at that point:

- StreamBlob and the mkdir of the temporary volume (`StreamAndMkdir`); the blob
  lies in a file of its own.
- Unpack with HandleOpaqueWhiteouts and the chown and chmod around it (`Unpack`): the
  temporary volume is `partial` before and `whole` after.
- DestroyVolume after a failed unpack ends with `RemoveAll` of a directory that is
  known, under its chain lock, not to exist (`DestroyVolumeMeta`).
- CreateImage (`CreateImage`) works inside the new image directory and reads volumes,
  which the shared global lock keeps in place.
- UnusedVolumes lists volumes and then images (`ListVolumesAndImages`). The volumes
  cannot change in between; the images are read at the later moment.
- A write of a link or metadata file is one step: under a process that is killed in
  the middle of one, an empty file could remain, which is not modelled.

A volume id is a record: chain id, random suffix or `None`, gc. prefix or not. The
random suffix of the name and the random short id are drawn together, as one
`Token`, and a token still present anywhere in the store is not drawn again (the
code relies on randomness for that). Contents of layers are reduced to `absent`,
`partial` and `whole`; sizes, ownership and permissions are left out. `RenameVolumeDir`
has both outcomes of rename(2) on an existing target, since the model does not know
whether the target is empty: replaced, or ENOTEMPTY, which MoveVolume reports as
success. `Measure` takes either outcome of the threshold. `late` is the goroutine
that LockWithTimeout leaves waiting for the global lock.

`committed` and `garbage` are history variables: the ids whose create has returned
and no destruction begun, and the volumes that were unused when a clean looked. No
guard reads them.

### The store's own life

`StoreManager` stands beside `GrootFS`: it is about how the state `GrootFS` starts in
comes about, is kept and goes away. The store path is a directory (`dir`, with
content `host`) on which the filesystem in `<store>.backing-store` (`backing`, with
content `disk`) may be mounted; `View` is what a path below the store path leads to.
A tree holds directories, a namespace file (absent, `torn` between os.Create and
Encode, or the mappings), images and volumes. `hostIsXFS` says whether the host's
filesystem would pass validation itself, which decides most of InitStore's branches.

`InitStore` is one action per system call: the stat before the lock, the lock, the
mount of an existing backing file (`MountExisting`, or `MountRefused` when mount(8)
fails on a good filesystem, which the code only logs), validation, the branch that
makes, remounts or formats and mounts the backing file, the namespace file in three
steps, the folders and driver files one by one, each made and then given to the owner
that findStoreOwner finds in the mappings, and the setting of direct-io on the loop
device. `ListImageIDs` is what list reads.
`DeleteStore` lists and destroys images, then volumes, unmounts and unlinks what is
left in any order. `CreateImage` is the effect of a whole create: it needs
IsStoreInitialized and a namespace file that can be read. `Killed` ends a command
anywhere, `Reboot` all of them and the mount; `AdminMount` is an operator who mounts
the backing file without grootfs's options. `CheckFSPath` only looks at the type of
the filesystem: see `store_options` below.

Not in it: the size given to init-store and the shrinking of an existing file, the
modes of what it makes, data that a restart loses because it was not
synced, a remount(8) or a second mkfs under a mounted filesystem, and a backing file
that is removed while mounted. Two delete-store commands at a time are not run: when
one unmounts between the other's listing and its destruction of images, the second
destroys nothing and succeeds.

### Disk limits

`DiskQuota` has creates (the part that makes the image), deletes and commands that
only read, on two images. A limit is five things, made in five steps and read in
others: the directory `projectids/<n>` that reserves an id, the project id on the
image directory, which `diff` inherits, the limit of the project in the filesystem,
`image_quota` and `image_info`. `quotactl` names the filesystem by the device file
`storeDevice`, made once (`node`) and not renewed when a restart mounts the store from
another loop device (`device`): with a number that is gone the calls fail, and so do
creates with a limit until the file is removed. Volumes come (`PullVolume`) and go
(`CollectVolume`) atomically, as `ImplementsCache` says they do.

`raced` remembers that an image was destroyed while another command was making or
destroying it. Then `DestroyImage` may free an id by a number read before somebody else
got it (`driver.go:547`), and nothing is promised any more; everything short of that,
also two creates and a delete of different images in step, is in the properties. A
create whose image was taken away under it may still have `image_quota` open, or open
that of a later image of the same id; the model keeps whose file it is (`file`). Of the
properties that speak of images, `LimitIsOwn`, `IdsReserved`, `CommittedCovered` and
`StatsTrue` all end where an image has been raced for. `UsedBounded` allows for
the volumes pulled between the two sums and for those that
generate-volume-size-metadata measured anew and found larger (`Growth`): both were needed
for the bound to be true of every size, though small instances hardly show it.

### From the command line to the volumes

`Fetcher` is one create: `LoadConfig` applies `Config` to a command line and a file;
the source is made with retries; the manifest, for a V1 image the diff ids by a first
download of every layer, and the config follow; `Pull` checks the sizes the manifest
declares; each missing layer is requested, its size compared, decompressed through the
QuotaedReader in chunks of up to `BufSize` bytes, checked and unpacked. The registry
(any member of `Contents`, of any reported size, at every request) is the
environment. So are the servers that have the layers of an oci image: an image source is
a directory, but its layers may have URLs (`Serves`, `GetBlobRefused`), and no setting of
grootfs makes the client accept a certificate there. `Fail` goes to `unlock` from where
the global lock is held, since there the deferred function that starts the clean runs.
What the user is told of a failure is left out.

### Processes and layers

`Unpacker` has a tree as a function from paths to nodes (kind, owner, data, and which
of mode, time and extended attributes it has), and one operator per kind of entry:
`CanCreate` is the success of its calls, `HandleEntry` their effect; chown takes a
setuid mode and capabilities away again, as the kernel does. `TranslateID` is the
code's (it subtracts 1 whatever the mapping begins with); `KernelID` is the kernel's.
`Merged` is the lookup of an overlay mount. The two agree on mappings of one form, root
mapped alone and all other ids by ranges that begin with 1 (`Followed`). For others a create by root does not make the owners that the
mappings give: the run `owners` shows that, and `LayersApplied` leaves open who owns such
a file when root unpacks it.

`Sandbox` runs a command that pulls a stack of layers and makes an image, or deletes
one. A delete goes through the namespaced driver, so in a user namespace the image is
destroyed by a process of its own, which cannot unmount (`RootlessUnmount`). A failed
create does not: its image manager has the plain driver (`commands/create.go:151`) and
destroys in-process, with the rootful unmounter (`InProcess`), which the kernel refuses
to who is not root; what gets the image away then is the removal after it. `busy` is an
image with a mount that a container uses and that grootfs's own mount namespace has, too.
With `--without-mount` a runtime may well mount in a namespace of its own; then neither
umount(2) nor mountpoint(1) sees the mount, and `ContainerUndisturbed` says nothing of it.

`runs` has the calls of Reexec: what is in the control pipe, the wrapper, the
process of the action, and standard input with the entries put in and taken out. A
stream may break off between two entries (`cut`), which looks like the end of an
archive to the process that reads, or within one (`torn`). `LayersApplied` has two
halves. `StepsTaken`: a command that ends well has unpacked every entry of every layer,
in order and once, into the volume that its base directory was copied to. And what these
steps make is right: the property compares
what the overlay shows with `Intended`, which applies each layer as a whole to the tree
below it, and is defined without the unpacker's operators. Layers are assumed to name
a path once and to have nothing below a path they hide (`SandboxAssumption`): for other
layers the result depends on the order of the entries, and image formats leave open
what it should be. That a create succeeds if nothing fails is said of `Acceptable` layers
only: among other things the base directory of a layer must be made by the layer directly
below it, since `ensureBaseDirectoryExists` copies it from there and looks no further
down.

## Properties and runs

`Init` is the store that a successful `init-store` leaves. A behaviour of `GrootFS` has one
of the `Budgets`: how many commands are started (`ops`), calls fail (`fails`), processes
are killed (`crashes`) and cleans are cut short (`timeouts`), how many creates run at a
time (`creates`), whether two of them may be for one id (`sameId`), and for which base
images (`images`); so one run has several small instances with different emphasis. The
other modules have their bounds as constants (`MaxOps`, `MaxFails`, `MaxFaults` and so
on). When all commands of `GrootFS` have ended the model may stutter (`Rest`), so a
deadlock that TLC reports is one of the code. Deadlock is checked in every run of `MCGrootFS`. In the runs of the other modules
it is not: once their commands have ended nothing is left to do. That those of
`Sandbox`, which wait for each other, end is `AllEnd`.

| run | instance | checks |
|---|---|---|
| `parallel` | 2 creates, 1 clean, 1 delete at a time, 2 ids, images `<<c1>>` and `<<c1,c2>>`, no faults, fairness: 4 commands, or 3 of which two creates may be of one id | `TypeOK`, `DownloadsUndisturbed`, `CommandsExclude`, `NoCircularWait`, `PulledLayersUsable`, `StoreAtRest`, `CleanAllOrNothing`, `CommandsEnd`, `MarkedDestroyed` |
| `faults` | 2 cleans, 1 delete at a time, 2 ids: 3 commands with 2 creates of `<<c1,c2>>` at a time, any 2 calls fail; or 5 commands on `<<c1>>`, one process killed anywhere, one cleaning timeout | `PublishedWhole`, `LiveImagesIntact`, `ImplementsCache` |
| `sameid_loss` | violated | `ImagesOutliveCreates` |
| `clean_timeout` | violated | `PulledLayersUsable` |
| `store_init` | 2 init-store at a time, 4 commands, 2 mappings, 1 image, host with and without XFS; one kill, one restart, one operator's mount, one failing call of any kind | `TypeOK`, `SuccessMeansWhole`, `ImagesKeepMappings`, `NoImageHidden`, `ListTrue`, `LossOnlyIfRefused` |
| `store_delete` | 1 init-store and 1 delete-store at a time, 3 commands, 2 images, XFS host, fewer folders; one kill, one failing call | `DeletedMeansGone` |
| `store_options` | violated | `AcceptedHasOptions` |
| `quota` | 2 creates, 1 delete, 1 reader at a time, 3 commands, 2 images, 2 volumes, 3 kinds of limit, 2 loop devices; one failing call, kill or restart | `TypeOK`, `LimitIsOwn`, `NoIdLeaked`, `IdsReserved`, `UsedBounded`, `CommittedCovered`, `StatsTrue` |
| `fetch` | 30 command lines on 3 files, 7 images (docker, V1, oci, tar, docker and oci from untrusted servers, with login), 6 blobs, 4 failing calls, 2 changes of the tar file | `TypeOK`, `VolumesGenuine`, `QuotaKept`, `RefusedForCause`, `NothingLeft`, `SettingsInForce` |
| `clean_order` | violated | `CleanBeforeCreate` |
| `sandbox` | 4 ways to run, 65 stacks of up to 3 layers, deletes of images in use, 2 faults, fairness | `TypeOK`, `LayersApplied`, `NothingAfterReturn`, `NoImageLeft`, `ContainerUndisturbed`, `AllEnd` |
| `owners` | violated | `OwnersAsMapped` |

Why the bounds are enough. Two layers are what it takes for two images to share one
and not the other, for buildLayer to hold two locks at once, and for a child to be
present without its parent. Two creates miss a layer together. Tokens never run out: of
the four in `parallel` and `faults` one is free whenever a download begins, which was checked.
In `faults`, five commands let a killed clean leave a `gc.` volume, a create pull the
layer again, a delete and a second clean mark it a second time onto the leftover, and
one more command meet the result; and two failing calls are the cases in which
the cleanup after a failure fails too. Creates, cleans and ids are interchangeable there,
and TLC is told so (`Symmetry`): the `CHOOSE`n job of an idle create is never read. The run
`parallel` checks liveness and has no symmetry. It has one clean at a time, which makes
"no two cleans" in `CommandsExclude` vacuous there; the theorem `Exclusive` covers it. For the store, two init-store commands with two
mappings are what it takes to race for the lock and for the namespace file; four in a
row make a store, lose its mount, and meet the leftovers twice. `store_delete` has
fewer folders because RemoveAll is run in every order; commands, mappings and images
are interchangeable, and TLC is told so (`Symmetry`).

For disk limits, three commands are two creates and the delete between them, or a
reader beside two writers; limits of 0, of one byte more than a block, and of exactly
the size of the volume are the edges of the arithmetic. In `fetch`, buffers of two
bytes and layers of up to three meet limits of 2, 3 and 4 bytes from below, exactly and
from above; three failing calls exhaust the retries and a fourth one follows. In
`sandbox`, two layers have every order of up to three entries of each kind in the
upper one, three are what it takes to hide a directory and bring it back; two faults
are a failure and a failure of what is done about it. Two of the ways to
run have mappings that are not `Followed`, as root and in a user namespace.

`NoImageHidden` is stated for as long as mount(8) has not failed: when it fails
once on an XFS host, init-store takes the directory below for the store, images are
made there, and the next init-store mounts the old filesystem over them.
`ImagesKeepMappings` and `SuccessMeansWhole` are stated without delete-store:
it takes no lock, and may remove what an init-store has just made.

Two properties are stated for runs without faults only, because with faults the code
does not keep them: `StoreAtRest` (a crash leaves parts of volumes behind) and
`CleanAllOrNothing` (a volume that a crash has left without its link file cannot be moved,
and no clean takes it away). `PulledLayersUsable` holds whatever happens to creates and
deletes, and to cleans before their first rename and after their last removal:
`CalmSpec` excludes just the faults that hit a clean in between. There the code does not
keep it: a clean that stops inside MoveVolume leaves a layer without link file under its
chain id (`clean_timeout` shows it), and one that stops between two marks, or before it
has destroyed all it marked, leaves a child without its parent, or a `gc.` directory onto
which the rename of a later clean fails when link file and symlink are moved already. The run
`parallel` has no faults; TLC finds `PulledLayersUsable` kept under `CalmSpec`, too, on
that instance with three commands and one failing call, one kill and one cleaning timeout
(a million states), and `PullSurvives` proves it.

Fairness. `FairSpec` assumes weak fairness of the steps a command takes by itself,
for each process: the operating system runs every process, and a lock that stays
free is granted. Failures and kills are never forced. flock(2) does not promise that
a waiting process wins against an endless stream of others; in the model the number
of commands is bounded by the budget, so no such stream exists, and `CommandsEnd` says
that commands do not block each other, not that a create is never overtaken. Since a
budget has finitely many commands, "again and again no command is running" is as much as
"every command ends", and "again and again no marked volume is there" as much as "every
marked volume is destroyed": `CommandsEnd` and `MarkedDestroyed` have that form.
`Sandbox!Fairness` is weak fairness of the parent and of each process it has started:
the kernel runs them, a read of a pipe returns when there is a byte or its last writer
is gone. Streams need not break and processes need not die.

`ImplementsCache` is the refinement of `LayerCache`: a layer is cached when it is
whole, has its metadata and is reached through its short id; an image counts from the
moment its create returns. Every step of every command, failing and dying ones
included, is then a step of the cache or changes nothing: images appear on cached
layers only, and no layer goes away under an image. `LiveImagesIntact` is the invariant
in it. Both are proved, as are `PublishedWhole` and `CommandsExclude`, for any number of
failures and kills.

### What the violated properties show

- **`sameid_loss`**. Two creates of one id both find the id free. The second one's
  `os.Mkdir` fails, and its deferred cleanup destroys and removes the image that the
  first one has made and returned (`image_manager.go:69-91`). The tests of the creator
  expect that a create for an id in use is refused and does no harm.
- **`clean_timeout`**. A clean that reaches its cleaning timeout exits between two
  calls of MoveVolume. The layer is still there under its chain id, so creates do not
  pull it again, but its link file has gone to `gc.<chain id>`, so they fail. No later
  clean can repair it, as MoveVolume fails on the missing link file too. The
  documentation says that a clean does not interfere with creations.

- **`store_options`**. `checkMountOptions` searches /proc/mounts for `xfs <path>`, but
  a line there is `<device> <path> xfs <options>`: for a loop device none matches, and
  a store mounted without `noatime` and `prjquota` passes. Without `prjquota` the disk
  limits of later creates cannot work.
- **`clean_order`**. The help of `--with-clean`, the configuration's documentation and the
  name of an integration test say that unused layers are cleaned up before the rootfs is
  created. The clean is started by a deferred function of the create, when the layers have
  been pulled and the image made, and nobody waits for it.
- **`owners`**. The documentation has `<Namespace UID>:<Host UID>:<Size>` and says that all
  creates use the same mapping. With a mapping that begins with 2, a create by a user runs
  in a user namespace and the kernel translates: id 2 becomes the host id given. A create
  by root translates itself, subtracts 1 whatever the mapping begins with, and makes
  another owner (`id_translator.go:56`; its test asserts 2500 where the kernel gives 1001).

Facts of the same kind for which no run is kept:

- Between a clean's listing of the images and its reading of their dependency files, a
  delete may remove one. The clean logs an error, marks nothing, and reports success,
  where the documentation says that unused layers are deleted. The next clean makes up
  for it; `CleanAllOrNothing` is what remains true.
- On an XFS host with an existing store path, `--store-size-bytes` is ignored: validation
  succeeds on the host's filesystem, and init-store reports success without the backing
  file that the documentation promises.
- A create that fails on a certificate nobody knows advises `--insecure-registry`
  (`commands/create.go:374`), also when the certificate is that of a server with layers of
  an oci image; there the option has no effect (`createSystemContext`, line 318).
- The error of setOwnership is shadowed, so that the image of a create that fails there
  stays (`SetOwnershipFails`; `NoImageLeft` excepts it).

One more thing the model shows and no document speaks of: an init-store that is killed
between creating the namespace file and writing it leaves a file that no later
init-store can decode; all of them fail until it is removed by hand.
What holds is the second part of `ImagesKeepMappings`: create does not take that store for
initialised, because the folders are made after the file.

## Theorems

All proofs are checked by TLAPS, for any sets of processes, ids, images, tokens,
volumes, mappings, layers and command lines, any sizes and any budgets of commands and
faults that satisfy the assumptions below. The budgets bound what TLC explores; the
theorems hold whatever they are, but for those of `GrootFSTidy`, which say where no fault
may occur.

| theorem | states |
|---|---|
| `GrootFSLocks!TypeCorrect` | `Spec => []TypeOK` |
| `GrootFSLocks!Exclusive` | `Spec => []CommandsExclude` |
| `GrootFSLocks!NoDeadlock` | `Spec => []NoCircularWait` |
| `GrootFSImages!Published`, `Undisturbed` | `Spec => []PublishedWhole`, `Spec => []DownloadsUndisturbed` |
| `GrootFSImages!Intact` | `Spec => []LiveImagesIntact`, if no two creates run for one id |
| `GrootFSImages!Refinement` | `Spec => ImplementsCache`, if no two creates run for one id |
| `GrootFSImages!Outlive` | `Spec => OnlyDeletesRemove`, if no two creates run for one id |
| `GrootFSTidy!PullSurvives` | `CalmSpec => []PulledLayersUsable`: with all faults but those of a sweeping clean |
| `GrootFSTidy!RestTidy`, `PullComplete`, `CleanComplete` | `StoreAtRest`, `PulledLayersUsable`, `CleanAllOrNothing`, without faults |
| `StoreManagerProofs!TypeCorrect` | `Spec => []TypeOK` |
| `StoreManagerProofs!InitWhole`, `MappingsKept`, `NeverHidden`, `ListsAll`, `NeverLost` | `SuccessMeansWhole`, `ImagesKeepMappings`, `NoImageHidden`, `ListTrue`, `LossOnlyIfRefused`, where no delete-store is run |
| `StoreManagerProofs!DeletedGone` | `Spec => []DeletedMeansGone`, with one delete-store at a time |
| `DiskQuotaProofs!QuotaTypes`, `LimitsOwn`, `IdsKept`, `NoIdsLeaked`, `UsedNotFarBelow`, `CommittedNotMissed`, `StatsRight` | `TypeOK`, `LimitIsOwn`, `IdsReserved`, `NoIdLeaked`, `UsedBounded`, `CommittedCovered`, `StatsTrue` |
| `FetcherProofs!FetchTypes`, `FetchedGenuine`, `FetchedWithinLimit`, `FailsForCause`, `FilesRemoved`, `SettingsRight` | `TypeOK`, `VolumesGenuine`, `QuotaKept`, `RefusedForCause`, `NothingLeft`, `SettingsInForce` |
| `SandboxProofs!SandboxTypes`, `ReturnedMeansOver`, `FailedLeavesNone`, `InUseStays` | `TypeOK`, `NothingAfterReturn`, `NoImageLeft`, `ContainerUndisturbed` |
| `SandboxProofs!UnpackedWhole` | `Spec => []StepsTaken`, the first half of `LayersApplied` |

### From which assumptions

Every module states what its proofs need of the constants; TLC evaluates these
assumptions on every run.

- `Environment`, `OverlayXFS`: the three kinds of processes are disjoint, the two named
  lock keys differ from each other and from all chain ids, base images are non-empty
  sequences in which a chain id determines its position and the layers below it (it is
  a hash of them), and `None` is neither a token nor a volume id.
- `StoreManager`: init-store and delete-store are different processes, a namespace file
  is told apart from a missing and a half-written one, `images` and `meta` are among the
  folders.
- `DiskQuota`: finitely many images and volumes, sizes are natural numbers, and the
  smallest limit tardis accepts is at least a block.
- `Config`, `Fetcher`: flags and keys that are given have values that are not empty (for
  most of the strings and lists the builder takes an empty one for none; `--store ""` and
  the other flags whose presence it looks at would set an empty value); a digest
  determines the content; a base image is a docker image, an oci image or a local tar
  file, which is one layer.
- `Sandbox`: stacks and layers are sequences, there is a longest stack, and a create either runs as root or has
  id mappings; mounts are made by root.

Five hypotheses stand in the theorems themselves, because without them the statement is
false of the code. `Faultless`: no call fails, no process is killed, no clean is cut
short; with a fault `StoreAtRest` and `CleanAllOrNothing` can fail, as said above.
`CalmSpec` in place of `Spec`: no fault hits a clean that is sweeping. `OneCreatePerId`, which every
budget must have: two creates of one id destroy each other's
image, as `sameid_loss` shows. `Removers = {}`: delete-store takes no lock and may remove
what an init-store has just made. At most one delete-store: the second one, when the
first has unmounted the store under it, destroys nothing and succeeds.

### Along which argument

The invariants are not inductive as they stand, because the code looks once and acts
much later; what a command knows must be shown to be still true when it uses it.

- `Types` and `LockInv` (`GrootFSLocks`). The index of a running create lies within its
  image; what a clean is marking or destroying has, or has not, the `gc.` prefix. A lock
  has one exclusive holder or only shared ones; a create past the global lock holds it
  shared, and a build holds the lock of its layer and of every layer above it; a clean
  past a lock holds it exclusively.
- `HolderInv` (`GrootFSLocks`), the converse of `LockInv`: whoever holds a lock is where
  that lock is held. A create that waits for a chain id waits for a create that holds it,
  which, if it waits at all, waits for a layer further down: the locks are taken from the
  top layer down, and a chain id has the same position in every image. Of a group of waiting
  creates one with the lowest layer therefore waits for none of the group. A clean waits
  for the global lock with the gc lock held, and nobody who has the global lock, or holds a
  chain id, waits for the gc lock. TLC's own check for deadlock would not see two
  commands that block each other while a third goes on; `NoCircularWait` does.
- `VolumeInv` (`GrootFSImages`). What a create found missing under the chain locks is
  still missing, its temporary volume holds what it put there, its short id is in no link
  file but its own, and no two downloads have the same one. buildLayer probes a chain id
  under its lock, builds the layers below, unpacks, and renames in the end; that the
  rename does not replace a layer follows only from the lock being held all the while and
  from every other writer of that name either holding that lock or excluding all creates
  through the global lock. A call of a create touches only names of the one chain id
  whose lock it holds, and its own token; a call of a clean outside the global lock
  touches only `gc.` names; a clean inside it excludes creates altogether.
- `LinkInv` and `ImageInv` (`GrootFSImages`). A short id is in one link file at most, so a
  call that changes a symlink concerns one volume; a published volume that has a short id
  is reached through it; what a clean has in hand has lost its link file already, so
  no image can be stacked on it. What a clean has in its list of orphans, or in
  hand, is under no committed image: the dependency file of a committed image, when it
  can be read, names all of its layers, and when it cannot, nothing is marked. Between the
  build and the end of the mount the layers of a create stay usable, since the global lock
  keeps cleans out. The refinement then has one lemma per kind of step: it adds a layer,
  adds an image on cached layers, removes a layer no image needs, removes an image, or
  changes nothing.
- `SoundInv`, `ParentInv` (`GrootFSTidy`). A layer under its chain id is whole, has
  metadata and is reached through its short id, unless a clean is just moving it away:
  a create writes the metadata and moves link file and symlink before the rename that makes
  the layer visible, so wherever it stops the layer is complete or not there. What carries
  the prefix `gc.` is in the list or in the hand of a clean that will destroy it, and a clean
  begins to mark only when nothing carries it, so that a rename never meets an old `gc.`
  directory; this is what a sweep cut short destroys. The set of layers present is closed:
  with a layer all those below it are there. A create makes a layer only on top of those
  below, and so the pull of an image whose top layer is there may stop looking; a clean
  takes the layers of a whole image off its list at once, so what it leaves is closed, and
  while it marks no create looks.
- `TidyInv`, `GarbageInv` (`GrootFSTidy`), without faults. Directory, link file, symlink and
  metadata of a volume are all there or none is, except of a volume that a command has in
  hand, and for these the invariant says of every step which of them are there already, or
  still. What was unused when a clean listed the volumes is in its list,
  in hand or gone, or, after a dependency file could not be read, all of it is left.
- `InitStoreInv` (`StoreManagerProofs`): past the lock there is one init-store (`LockHeld`);
  a mounted filesystem is in the backing file and what is not formatted is empty
  (`DiskInv`); where there are images there are a namespace file with their mappings and
  the folders made after it (`TreeInv`); images are in one of the two places only
  (`PlaceInv`); and each step of an init-store knows what the steps before it have done
  (`Known`), which a restart undoes only by ending the command. `DeleteStoreInv` says of
  what a delete-store has listed that it is still in its hands, or gone.
- `ProjectInv`, `LeakInv`, `MeasureInv`, `StableInv` (`DiskQuotaProofs`): two commands never
  hold one project id, no image is made while another command that has read its id is
  about to remove it, and two images have different ids; every reserved id has its image or the
  command that holds it; what a reader has summed up so far is bounded by what was there
  when it began. The last two are about sums of sizes over sets that change while they
  are summed.
- `Inv` (`FetcherProofs`): where a create is and what it has decided (`PhaseInv`), the file
  and the source it has open (`FileInv`), the settings and the clean (`ConfigInv`,
  `ChildInv`), what was asked of the registry and how often (`AdmitInv`, `RetryInv`), that a
  server that is not trusted has served nothing (`ServesInv`), the
  volumes and the blob that becomes one (`VolumeInv`), and the limit (`QuotaInv`): the
  rest of the quota, what was fetched, and what is in hand are together no more than the
  limit.
- `Inv` (`SandboxProofs`): a process that acts, or will without a further word of the
  parent, belongs to the call the parent waits in, or the parent has exited (`RunInv`); the byte
  is sent once the ids are mapped; there are at most two calls per layer and one more
  (`CountInv`); an image is there only after the layers are, and a create that fails with no
  second fault has, after destroying it, at most an unmounted one, which the removal then
  takes away (`ImageInv`).
- `Progress` (`SandboxProofs`, on top of `Inv`): the layers below the one in hand are
  whole; its volume is at the stage of exactly the entries that the process has taken; a
  stream that ends has been sent whole or the copying of it has failed (`broken`); and
  Reexec returns without an error only if the action ended well and nothing broke. So a
  stream cut between two entries, which the action takes for the end, is still an error
  of Wait, and no volume that is not whole is gone on from. The stages are a recursive
  function; that it exists is proved once (`StagedExists`), by a smallest counterexample.

The induction theorems of the library take an operator as a parameter, which the provers
cannot instantiate. `SumLemmas` therefore proves what is needed of sums over finite sets
by a smallest counterexample, whose existence is the library's `WFMin` for the order of
the natural numbers.

### Only model-checked

- The second half of `LayersApplied`: that the entries, unpacked one by one, make the tree
  that the layers stand for, and that an image with acceptable layers is made if nothing
  fails. That tree is a fold over layers and entries, and an induction over them is out
  of the prover's reach.
- The liveness properties `CommandsEnd`, `MarkedDestroyed` and `AllEnd`: so is reasoning
  about fairness.

## Not modelled

Within the modelled parts: errors of stat(2) other than absence (volumeExists takes
them for a missing volume), torn link and metadata files, two processes drawing the
same random name, the duration metrics, the sizes of files and the times of
directories in a layer, and lock files that cannot be created after the command's
first one (a create fails as it does for any other call). `capacity`, which prints a
number of the configuration file, PathStats, which is one statfs call, and the
relogging of a child's output have no state that a property could be about.

Of the repository's own Go files, about three fifths of the lines are generated fakes
(`*fakes/`), helpers and runners of the tests (`testhelpers`, `integration`), which are
no part of the program, and its stubs for other systems. Nearly every function of the
rest is modelled; what is not is wiring: constructors and the plumbing between a
command and the objects it makes.

## Plan

1. Done: commands on one store (`GrootFS`), the life of a store (`StoreManager`), disk
   limits (`DiskQuota`), settings and fetching (`Config`, `Fetcher`), processes and layers
   (`Unpacker`, `Sandbox`).
2. Done: every safety property that a run checks is proved, but for the
   second half of `LayersApplied`.
3. Left: what remains of `StoreAtRest` and `CleanAllOrNothing` with faults: which parts of
   volumes failures and kills may leave behind, and what the next clean still takes
   away.
