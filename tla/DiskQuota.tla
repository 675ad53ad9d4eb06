------------------------------ MODULE DiskQuota ------------------------------
(***************************************************************************)
(* Disk limits of images: XFS project quotas, the project id directories   *)
(* that tardis (the setuid helper) allocates, the files the limits are     *)
(* recorded in, and the commands that read them: stats, the metrics of a   *)
(* create, generate-volume-size-metadata.  None of these takes a lock, and *)
(* neither does delete, so every step of one may meet every step of        *)
(* another.  Volumes appear and go atomically here (GrootFS implements     *)
(* LayerCache).                                                            *)
(***************************************************************************)
EXTENDS Integers, FiniteSets, FiniteSetsExt, Functions

CONSTANTS
  Creators, Deleters, Meters,  \* slots for create, delete and reading commands
  Id, Vol,
  TarSize,    \* [Vol -> Nat]: bytes the unpacker wrote
  DuSize,     \* [Vol -> Nat]: bytes "du -bs" counts
  DiskSpec,   \* [limit: Nat, exclusive: BOOLEAN, base: SUBSET Vol]
  BlockSize,  \* the unit of XFS quotas, 512 bytes
  MinQuota,   \* overlayxfs.MinQuota
  MaxProjID,  \* bound: largest project id
  MaxBytes,   \* bound: bytes a container writes
  Device,     \* numbers the loop device of the store may have
  MaxOps, MaxFaults  \* bounds: commands started; calls that fail, kills, restarts

Missing == -1  \* no such file or directory
Torn == -2     \* created or truncated, not yet written
ProjID == 1 .. MaxProjID
Process == Creators \cup Deleters
Rounded(n) == (n \div BlockSize) * BlockSize

ASSUME QuotaAssumption ==
  /\ Creators \cap Deleters = {} /\ Missing \notin Process
  /\ IsFiniteSet(Id) /\ IsFiniteSet(Vol)
  /\ TarSize \in [Vol -> Nat] /\ DuSize \in [Vol -> Nat]
  /\ \A s \in DiskSpec : s.limit \in Nat /\ s.exclusive \in BOOLEAN /\ s.base \subseteq Vol
  /\ BlockSize \in Nat \ {0} /\ MinQuota \in Nat /\ MinQuota >= BlockSize /\ MaxProjID \in Nat
  /\ {MaxBytes, MaxOps, MaxFaults} \subseteq Nat
  /\ Device \subseteq Nat /\ Device # {}

VARIABLES
  projectids,  \* directories under <store>/projectids
  limit,       \* limit[n]: hard limit of project n in the filesystem, 0 if none
  meta,        \* meta[v]: size in the metadata of volume v; Missing, no volume
  device,      \* the number of the device the store is mounted from
  node,        \* the number of the device file <store>/storeDevice
  image,       \* image[i]: NoImage or what is under images/<i>
  proc,        \* proc[p]: a create or delete command
  meter,       \* meter[m]: a command that only reads, or rewrites metadata
  raced,       \* history: an image was destroyed while another command made
               \* or destroyed it
  spent

vars == <<projectids, limit, meta, device, node, image, proc, meter, raced, spent>>

NoImage == [maker |-> Missing, base |-> {}, want |-> 0, proj |-> 0, quota |-> Missing,
            info |-> Missing, diff |-> Missing, used |-> 0, done |-> FALSE]
IdleProc == [pc |-> "idle", id |-> Missing, spec |-> Missing, size |-> 0, lim |-> 0, next |-> 0,
             file |-> Missing]
IdleMeter == [pc |-> "idle", id |-> Missing, todo |-> {}, sum |-> 0, total |-> 0, used |-> 0,
              failed |-> FALSE, pulled |-> 0, stable |-> {}]

Init ==
  /\ projectids = {}
  /\ limit = [n \in ProjID |-> 0]
  /\ meta = [v \in Vol |-> Missing]
  /\ device = Min(Device)
  /\ node = Missing
  /\ image = [i \in Id |-> NoImage]
  /\ proc = [p \in Process |-> IdleProc]
  /\ meter = [m \in Meters |-> IdleMeter]
  /\ raced = FALSE
  /\ spent = [ops |-> 0, faults |-> 0]

StartCommand == spent.ops < MaxOps /\ spent' = [spent EXCEPT !.ops = @ + 1]
Fault == spent.faults < MaxFaults /\ spent' = [spent EXCEPT !.faults = @ + 1]

\* Lister.List, ImageManager.ImageIDs: images being made included.
List == {i \in Id : image[i].maker # Missing}
Exists(i) == i \in List
Vols == {v \in Vol : meta[v] # Missing}
\* Driver.VolumeSize finds and decodes the metadata file.
SizeKnown(v) == meta[v] >= 0
UnusedVolumes == Vols \ UNION {image[i].base : i \in {j \in List : image[j].done}}

Usage(n) == SumFunctionOnSet([i \in Id |-> image[i].used], {i \in List : image[i].diff = n})

\* The disk limit of applyDiskLimit, 0 when none is asked for.
TooSmall(s, size) == s.limit # 0 /\ ~s.exclusive /\ s.limit < size
DiskLimit(s, size) ==
  IF s.limit = 0 THEN 0
  ELSE LET l == IF s.exclusive THEN s.limit ELSE s.limit - size
       IN IF l < MinQuota THEN MinQuota ELSE l

Goto(p, pc) == proc' = [proc EXCEPT ![p].pc = pc]
GotoIf(p, b, pc) == Goto(p, IF b THEN pc ELSE "getid")
SetImage(i, img) == image' = [image EXCEPT ![i] = img]
Forget(i) == meter' = [m \in Meters |-> [meter[m] EXCEPT !.stable = @ \ {i}]]

------------------------------------------------------------------------------
(* create: ImageManager.Create and Driver.CreateImage, once the volumes are *)
(* there                                                                    *)

StartCreate(p, i, s) ==
  /\ proc[p].pc = "idle" /\ ~Exists(i) /\ s.base \subseteq Vols
  /\ StartCommand
  /\ proc' = [proc EXCEPT ![p] = [IdleProc EXCEPT !.pc = "mkdir", !.id = i, !.spec = s]]
  /\ UNCHANGED <<device, node, projectids, limit, meta, image, meter, raced>>

\* A directory that exists sends the create to its cleanup.
MkdirImage(p) ==
  /\ proc[p].pc = "mkdir"
  /\ LET i == proc[p].id
     IN /\ GotoIf(p, ~Exists(i), "lower")
        /\ IF Exists(i) THEN UNCHANGED image
           ELSE SetImage(i, [NoImage EXCEPT !.maker = p, !.base = proc[p].spec.base])
  /\ UNCHANGED <<device, node, projectids, limit, meta, meter, raced, spent>>

\* getLowerDirs adds up the sizes of the volumes; a torn metadata file fails.
GetLowerDirs(p) ==
  /\ proc[p].pc = "lower"
  /\ LET base == proc[p].spec.base
         ok == Exists(proc[p].id) /\ \A v \in base : SizeKnown(v)
     IN proc' = [proc EXCEPT ![p].pc = IF ok THEN "limit" ELSE "getid",
                             ![p].size = IF ok THEN SumFunctionOnSet(meta, base) ELSE 0]
  /\ UNCHANGED <<device, node, projectids, limit, meta, image, meter, raced, spent>>

ApplyDiskLimit(p) ==
  /\ proc[p].pc = "limit"
  /\ LET s == proc[p].spec
         l == DiskLimit(s, proc[p].size)
     IN proc' = [proc EXCEPT
          ![p].pc = IF TooSmall(s, proc[p].size) THEN "getid" ELSE IF l = 0 THEN "dirs" ELSE "alloc",
          ![p].lim = l]
  /\ UNCHANGED <<device, node, projectids, limit, meta, image, meter, raced, spent>>

\* Discoverer.Alloc: the first id to try; 1 is never used.
Alloc(p) ==
  /\ proc[p].pc = "alloc"
  /\ LET n == Cardinality(projectids) + 1
     IN proc' = [proc EXCEPT ![p].pc = "mkid", ![p].next = IF n = 1 THEN 2 ELSE n]
  /\ UNCHANGED <<device, node, projectids, limit, meta, image, meter, raced, spent>>

\* Mutant of UntilSucceeds: an id directory that exists is taken over.
UntilSucceedsShared(p) ==
  /\ proc[p].pc = "mkid" /\ proc[p].next \in ProjID
  /\ projectids' = projectids \cup {proc[p].next}
  /\ Goto(p, "setid")
  /\ UNCHANGED <<device, node, limit, meta, image, meter, raced, spent>>

\* untilSucceeds: os.Mkdir decides between two that try the same id.
UntilSucceeds(p) ==
  /\ proc[p].pc = "mkid" /\ proc[p].next \in ProjID
  /\ IF proc[p].next \in projectids
     THEN /\ proc' = [proc EXCEPT ![p].next = @ + 1]
          /\ UNCHANGED projectids
     ELSE /\ projectids' = projectids \cup {proc[p].next}
          /\ Goto(p, "setid")
  /\ UNCHANGED <<device, node, limit, meta, image, meter, raced, spent>>

\* Project ids are those of directories, opened to get and to set them.
OpenDir(i) == Exists(i)

\* quota.Set, first half: the project id, inherited by what is made below.
SetProjectID(p) ==
  /\ proc[p].pc = "setid"
  /\ LET i == proc[p].id
     IN /\ GotoIf(p, OpenDir(i), "setlimit")
        /\ IF OpenDir(i) THEN SetImage(i, [image[i] EXCEPT !.proj = proc[p].next, !.want = proc[p].lim])
           ELSE UNCHANGED image
  /\ UNCHANGED <<device, node, projectids, limit, meta, meter, raced, spent>>

\* getStoreDevicePath: a device file that is there is used, whatever device
\* it names; otherwise one is made for the device of the store.  quotactl(2)
\* finds no filesystem behind the number of a device that is gone.
GetStoreDevicePath == node' = IF node = Missing THEN device ELSE node
DeviceFound == node \in {Missing, device}

\* Mutant of SetLimit: the limit is rounded up to whole blocks.
SetLimitRoundedUp(p) ==
  /\ proc[p].pc = "setlimit"
  /\ GetStoreDevicePath
  /\ limit' = [limit EXCEPT ![proc[p].next] = Rounded(proc[p].lim + BlockSize - 1)]
  /\ Goto(p, "openquota")
  /\ UNCHANGED <<device, projectids, meta, image, meter, raced, spent>>

\* quota.Set, second half: quotactl(Q_XSETPQLIM), in blocks; it does not
\* look at the image again.
SetLimit(p) ==
  /\ proc[p].pc = "setlimit"
  /\ GetStoreDevicePath
  /\ GotoIf(p, DeviceFound, "openquota")
  /\ limit' = IF DeviceFound THEN [limit EXCEPT ![proc[p].next] = Rounded(proc[p].lim)] ELSE limit
  /\ UNCHANGED <<device, projectids, meta, image, meter, raced, spent>>

\* os.WriteFile of image_quota: open ...
OpenQuotaFile(p) ==
  /\ proc[p].pc = "openquota"
  /\ LET i == proc[p].id
     IN /\ proc' = [proc EXCEPT ![p].pc = IF Exists(i) THEN "writequota" ELSE "getid",
                                ![p].file = image[i].maker]
        /\ IF Exists(i) THEN SetImage(i, [image[i] EXCEPT !.quota = Torn]) ELSE UNCHANGED image
  /\ UNCHANGED <<device, node, projectids, limit, meta, meter, raced, spent>>

\* ... and write to the file that was opened, which is lost if its image
\* was removed.
WriteQuotaFile(p) ==
  /\ proc[p].pc = "writequota"
  /\ Goto(p, "dirs")
  /\ LET i == proc[p].id
     IN IF image[i].maker = proc[p].file THEN SetImage(i, [image[i] EXCEPT !.quota = proc[p].lim])
        ELSE UNCHANGED image
  /\ UNCHANGED <<device, node, projectids, limit, meta, meter, raced, spent>>

\* Mutant of CreateImageDirectories: diff does not inherit the project.
DirectoriesWithoutProject(p) ==
  /\ proc[p].pc = "dirs"
  /\ LET i == proc[p].id
         ok == Exists(i) /\ image[i].diff = Missing
     IN /\ GotoIf(p, ok, "info")
        /\ IF ok THEN SetImage(i, [image[i] EXCEPT !.diff = 0]) ELSE UNCHANGED image
  /\ UNCHANGED <<device, node, projectids, limit, meta, meter, raced, spent>>

\* createImageDirectories: diff, which takes all a container writes, gets
\* the project id its parent has now.
CreateImageDirectories(p) ==
  /\ proc[p].pc = "dirs"
  /\ LET i == proc[p].id
         ok == Exists(i) /\ image[i].diff = Missing
     IN /\ GotoIf(p, ok, "info")
        /\ IF ok THEN SetImage(i, [image[i] EXCEPT !.diff = image[i].proj]) ELSE UNCHANGED image
  /\ UNCHANGED <<device, node, projectids, limit, meta, meter, raced, spent>>

\* image_info holds the size of the volumes; the create has succeeded.
WriteImageInfo(p) ==
  /\ proc[p].pc = "info"
  /\ LET i == proc[p].id
     IN /\ proc' = [proc EXCEPT ![p] = IF Exists(i) THEN IdleProc ELSE [@ EXCEPT !.pc = "getid"]]
        /\ IF Exists(i) THEN SetImage(i, [image[i] EXCEPT !.info = proc[p].size, !.done = TRUE])
           ELSE UNCHANGED image
  /\ UNCHANGED <<device, node, projectids, limit, meta, meter, raced, spent>>

\* Any of these calls may fail.
CreateFails(p) ==
  /\ proc[p].pc \in {"lower", "limit", "openquota", "writequota", "dirs", "info"}
  /\ Fault
  /\ Goto(p, "getid")
  /\ UNCHANGED <<device, node, projectids, limit, meta, image, meter, raced>>

\* runTardis: there is no tardis, or none that is setuid root.
RunTardisFails(p) ==
  /\ proc[p].pc = "alloc"
  /\ Fault
  /\ Goto(p, "getid")
  /\ UNCHANGED <<device, node, projectids, limit, meta, image, meter, raced>>

\* tardis ends with an error, and gives no id directory back.
TardisFails(p) ==
  /\ proc[p].pc \in {"alloc", "mkid", "setid", "setlimit"}
  /\ Fault
  /\ Goto(p, "getid")
  /\ UNCHANGED <<device, node, projectids, limit, meta, image, meter, raced>>

------------------------------------------------------------------------------
(* Driver.DestroyImage, called by delete and by the cleanup of a create     *)

StartDelete(p, i) ==
  /\ proc[p].pc = "idle" /\ Exists(i)
  /\ StartCommand
  /\ proc' = [proc EXCEPT ![p] = [IdleProc EXCEPT !.pc = "getid", !.id = i]]
  /\ UNCHANGED <<device, node, projectids, limit, meta, image, meter, raced>>

\* The image p destroys is another command's: one still at work on it, or
\* one that made it since.
Interferes(p) ==
  LET i == proc[p].id
  IN \/ \E q \in Process \ {p} : proc[q].pc # "idle" /\ proc[q].id = i
     \/ p \in Creators /\ Exists(i) /\ image[i].maker # p

\* quota.GetProjectID: 0 if the image is gone or has none.
GetProjectID(p) ==
  /\ proc[p].pc = "getid"
  /\ proc' = [proc EXCEPT ![p].pc = "unlink", ![p].next = image[proc[p].id].proj]
  /\ raced' = (raced \/ Interferes(p))
  /\ UNCHANGED <<device, node, projectids, limit, meta, image, meter, spent>>

\* ensureImageDestroyed
RemoveImage(p) ==
  /\ proc[p].pc = "unlink"
  /\ SetImage(proc[p].id, NoImage)
  /\ Forget(proc[p].id)
  /\ raced' = (raced \/ Interferes(p))
  /\ Goto(p, "freeid")
  /\ UNCHANGED <<device, node, projectids, limit, meta, spent>>

\* The rootfs is busy: delete gives up, the cleanup of a create goes on.
RemoveImageFails(p) ==
  /\ proc[p].pc = "unlink"
  /\ Fault
  /\ proc' = [proc EXCEPT ![p] = IF p \in Deleters THEN IdleProc ELSE [@ EXCEPT !.pc = "purge"]]
  /\ UNCHANGED <<device, node, projectids, limit, meta, image, meter, raced>>

\* Mutant of FreeProjectID: the directory stays.
KeepProjectID(p) ==
  /\ proc[p].pc = "freeid"
  /\ proc' = [proc EXCEPT ![p] = IF p \in Deleters THEN IdleProc ELSE [@ EXCEPT !.pc = "purge"]]
  /\ UNCHANGED <<device, node, projectids, limit, meta, image, meter, raced, spent>>

\* os.RemoveAll of the id directory, by the id read before the removal.
FreeProjectID(p) ==
  /\ proc[p].pc = "freeid"
  /\ projectids' = projectids \ {proc[p].next}
  /\ proc' = [proc EXCEPT ![p] = IF p \in Deleters THEN IdleProc ELSE [@ EXCEPT !.pc = "purge"]]
  /\ UNCHANGED <<device, node, limit, meta, image, meter, raced, spent>>

\* The deferred cleanup of ImageManager.Create removes the path once more.
PurgeImage(p) ==
  /\ proc[p].pc = "purge"
  /\ SetImage(proc[p].id, NoImage)
  /\ Forget(proc[p].id)
  /\ raced' = (raced \/ Interferes(p))
  /\ proc' = [proc EXCEPT ![p] = IdleProc]
  /\ UNCHANGED <<device, node, projectids, limit, meta, spent>>

Kill(p) ==
  /\ proc[p].pc # "idle"
  /\ Fault
  /\ proc' = [proc EXCEPT ![p] = IdleProc]
  /\ UNCHANGED <<device, node, projectids, limit, meta, image, meter, raced>>

------------------------------------------------------------------------------
(* The surroundings: containers, pulls and cleans                           *)

\* A container writes a block; XFS refuses what exceeds the project's limit.
\* What is written outside of any project is of no account here.
ContainerWrites(i) ==
  /\ image[i].done /\ image[i].diff \in ProjID /\ image[i].used + BlockSize <= MaxBytes
  /\ LET l == limit[image[i].diff] IN l # 0 => Usage(image[i].diff) + BlockSize <= l
  /\ SetImage(i, [image[i] EXCEPT !.used = @ + BlockSize])
  /\ UNCHANGED <<device, node, projectids, limit, meta, proc, meter, raced, spent>>

\* The machine restarts and init-store mounts the store again, perhaps from
\* another loop device: commands and containers are gone, files and quotas
\* are not.
Restart ==
  /\ Fault
  /\ device' \in Device
  /\ proc' = [p \in Process |-> IdleProc]
  /\ meter' = [m \in Meters |-> IdleMeter]
  /\ UNCHANGED <<node, projectids, limit, meta, image, raced>>

PullVolume(v) ==
  /\ meta[v] = Missing
  /\ meta' = [meta EXCEPT ![v] = TarSize[v]]
  /\ meter' = [m \in Meters |-> [meter[m] EXCEPT !.pulled = IF meter[m].pc = "idle" THEN 0 ELSE @ + TarSize[v]]]
  /\ UNCHANGED <<device, node, projectids, limit, image, proc, raced, spent>>

\* A clean collects a volume no image or running create uses.
CollectVolume(v) ==
  /\ meta[v] # Missing /\ StartCommand
  /\ \A i \in List : v \notin image[i].base
  /\ \A p \in Creators : proc[p].pc # "idle" => v \notin proc[p].spec.base
  /\ meta' = [meta EXCEPT ![v] = Missing]
  /\ UNCHANGED <<device, node, projectids, limit, image, proc, meter, raced>>

------------------------------------------------------------------------------
(* Commands that read                                                       *)

SetMeter(m, r) == meter' = [meter EXCEPT ![m] = r]
StoreUnchanged == UNCHANGED <<device, node, projectids, limit, image, proc, raced>>

\* emitMetrics: UsedVolumesSize starts with TotalVolumesSize.
StartMetrics(m) ==
  /\ meter[m].pc = "idle" /\ StartCommand
  /\ SetMeter(m, [IdleMeter EXCEPT !.pc = "total", !.todo = Vols])
  /\ UNCHANGED meta /\ StoreUnchanged

\* countVolumesSize: a volume collected since it was listed counts as 0, a
\* torn metadata file is an error.
CountVolume(m) ==
  /\ meter[m].pc \in {"total", "unused"}
  /\ \E v \in meter[m].todo :
       SetMeter(m, IF meta[v] = Torn THEN [meter[m] EXCEPT !.todo = {}, !.failed = TRUE]
                   ELSE [meter[m] EXCEPT !.todo = @ \ {v},
                                         !.sum = @ + IF meta[v] = Missing THEN 0 ELSE meta[v]])
  /\ UNCHANGED <<meta, spent>> /\ StoreUnchanged

\* Mutant of ListUnused: the sum of the total is not reset.
ListUnusedOnTop(m) ==
  /\ meter[m].pc = "total" /\ meter[m].todo = {} /\ ~meter[m].failed
  /\ SetMeter(m, [meter[m] EXCEPT !.pc = "unused", !.total = @ + meter[m].sum, !.todo = UnusedVolumes])
  /\ UNCHANGED <<meta, spent>> /\ StoreUnchanged

\* UsedVolumesSize goes on with UnusedVolumesSize.
ListUnused(m) ==
  /\ meter[m].pc = "total" /\ meter[m].todo = {} /\ ~meter[m].failed
  /\ SetMeter(m, [meter[m] EXCEPT !.pc = "unused", !.total = meter[m].sum, !.sum = 0,
                                  !.todo = UnusedVolumes])
  /\ UNCHANGED <<meta, spent>> /\ StoreUnchanged

\* UsedVolumesSize subtracts; an error is logged and 0 emitted.  Then
\* CommittedQuota lists the images.
ListImages(m) ==
  /\ meter[m].pc \in {"total", "unused"} /\ meter[m].todo = {}
  /\ meter[m].pc = "unused" \/ meter[m].failed
  /\ SetMeter(m, [meter[m] EXCEPT !.pc = "quota", !.sum = 0, !.failed = FALSE, !.todo = List,
                     !.used = IF meter[m].failed THEN 0 ELSE meter[m].total - meter[m].sum,
                     !.stable = {i \in List : image[i].done}])
  /\ UNCHANGED <<meta, spent>> /\ StoreUnchanged

\* Mutant of ReadImageQuota: an empty file does not parse.
ReadImageQuotaStrict(m) ==
  /\ meter[m].pc = "quota"
  /\ \E i \in meter[m].todo :
       SetMeter(m, IF image[i].quota = Torn THEN [meter[m] EXCEPT !.todo = {}, !.failed = TRUE]
                   ELSE [meter[m] EXCEPT !.todo = @ \ {i},
                           !.sum = @ + IF image[i].quota < 0 THEN 0 ELSE image[i].quota])
  /\ UNCHANGED <<meta, spent>> /\ StoreUnchanged

\* readImageQuota: no file and an empty file are a quota of 0.
ReadImageQuota(m) ==
  /\ meter[m].pc = "quota"
  /\ \E i \in meter[m].todo :
       SetMeter(m, [meter[m] EXCEPT !.todo = @ \ {i},
                      !.sum = @ + IF image[i].quota < 0 THEN 0 ELSE image[i].quota])
  /\ UNCHANGED <<meta, spent>> /\ StoreUnchanged

\* ImageManager.Stats: the image has to exist.
StartStats(m, i) ==
  /\ meter[m].pc = "idle" /\ Exists(i) /\ StartCommand
  /\ SetMeter(m, [IdleMeter EXCEPT !.pc = "stats", !.id = i])
  /\ UNCHANGED meta /\ StoreUnchanged

\* quota.Get, in tardis: usage and limit of the image's project ...
ListQuota(m) ==
  /\ meter[m].pc = "stats"
  /\ LET i == meter[m].id
         n == image[i].proj
     IN SetMeter(m, IF ~OpenDir(i) \/ (n # 0 /\ ~DeviceFound) THEN IdleMeter
                    ELSE [meter[m] EXCEPT !.pc = "info", !.stable = IF image[i].done THEN {i} ELSE {},
                            !.used = IF n = 0 THEN 0 ELSE Usage(n), !.sum = IF n = 0 THEN 0 ELSE limit[n]])
  /\ IF OpenDir(meter[m].id) /\ image[meter[m].id].proj # 0 THEN GetStoreDevicePath ELSE UNCHANGED node
  /\ UNCHANGED <<meta, spent, device, projectids, limit, image, proc, raced>>

\* ... then the size of its volumes, or the command fails.
ReadImageInfo(m) ==
  /\ meter[m].pc = "info"
  /\ LET info == image[meter[m].id].info
     IN SetMeter(m, IF info = Missing THEN IdleMeter
                    ELSE [meter[m] EXCEPT !.pc = "stated", !.total = meter[m].used + info])
  /\ UNCHANGED <<meta, spent>> /\ StoreUnchanged

\* generate-volume-size-metadata: du, then os.Create and Encode per volume.
StartGenerate(m) ==
  /\ meter[m].pc = "idle" /\ Vols # {} /\ StartCommand
  /\ SetMeter(m, [IdleMeter EXCEPT !.pc = "generate", !.todo = Vols])
  /\ UNCHANGED meta /\ StoreUnchanged

CreateMetaFile(m, v) ==
  /\ meter[m].pc = "generate" /\ v \in meter[m].todo /\ meta[v] # Missing
  /\ meta' = [meta EXCEPT ![v] = Torn]
  /\ SetMeter(m, [meter[m] EXCEPT !.pc = "encode", !.id = v, !.todo = @ \ {v}])
  /\ UNCHANGED spent /\ StoreUnchanged

\* Mutant of EncodeMeta: the new size is added to what the file held.
EncodeMetaAdds(m) ==
  /\ meter[m].pc = "encode"
  /\ LET v == meter[m].id
     IN meta' = [meta EXCEPT ![v] = IF @ = Missing THEN Missing ELSE @ + DuSize[v]]
  /\ SetMeter(m, [meter[m] EXCEPT !.pc = "generate", !.id = Missing])
  /\ UNCHANGED spent /\ StoreUnchanged

EncodeMeta(m) ==
  /\ meter[m].pc = "encode"
  /\ LET v == meter[m].id
     IN meta' = [meta EXCEPT ![v] = IF @ = Missing THEN Missing ELSE DuSize[v]]
  /\ SetMeter(m, [meter[m] EXCEPT !.pc = "generate", !.id = Missing])
  /\ UNCHANGED spent /\ StoreUnchanged

\* tardis prints the statistics, and stats does.
EndStats(m) ==
  /\ meter[m].pc = "stated"
  /\ SetMeter(m, IdleMeter)
  /\ UNCHANGED <<meta, spent>> /\ StoreUnchanged

\* TryEmitUsage, after which the create ends whatever came of it.
TryEmitUsage(m) ==
  /\ meter[m].pc = "quota" /\ meter[m].todo = {}
  /\ SetMeter(m, IdleMeter)
  /\ UNCHANGED <<meta, spent>> /\ StoreUnchanged

\* All metadata is written, or a volume that was listed is gone.
EndGenerate(m) ==
  /\ meter[m].pc = "generate" /\ (meter[m].todo = {} \/ \E v \in meter[m].todo : meta[v] = Missing)
  /\ SetMeter(m, IdleMeter)
  /\ UNCHANGED <<meta, spent>> /\ StoreUnchanged

------------------------------------------------------------------------------

\* tardis limit
Limit(p) == Alloc(p) \/ UntilSucceeds(p) \/ SetProjectID(p) \/ SetLimit(p)

CreateImage(p) ==
  \/ GetLowerDirs(p) \/ ApplyDiskLimit(p) \/ Limit(p) \/ OpenQuotaFile(p) \/ WriteQuotaFile(p)
  \/ CreateImageDirectories(p) \/ WriteImageInfo(p)

Create(p) ==
  \/ \E i \in Id, s \in DiskSpec : StartCreate(p, i, s)
  \/ MkdirImage(p) \/ CreateImage(p) \/ CreateFails(p) \/ RunTardisFails(p) \/ TardisFails(p) \/ PurgeImage(p)

DestroyImage(p) == GetProjectID(p) \/ RemoveImage(p) \/ RemoveImageFails(p) \/ FreeProjectID(p)

EmitMetrics(m) ==
  StartMetrics(m) \/ CountVolume(m) \/ ListUnused(m) \/ ListImages(m) \/ ReadImageQuota(m)
  \/ TryEmitUsage(m)

\* tardis stats, and Driver.FetchStats around it
VolumeStats(m) == ListQuota(m) \/ ReadImageInfo(m)
FetchStats(m) == VolumeStats(m) \/ EndStats(m)

Stats(m) == (\E i \in Id : StartStats(m, i)) \/ FetchStats(m)

GenerateMetadata(m) == StartGenerate(m) \/ (\E v \in Vol : CreateMetaFile(m, v)) \/ EncodeMeta(m) \/ EndGenerate(m)

Next ==
  \/ \E p \in Creators : Create(p)
  \/ \E p \in Deleters, i \in Id : StartDelete(p, i)
  \/ \E p \in Process : DestroyImage(p) \/ Kill(p)
  \/ \E m \in Meters : EmitMetrics(m) \/ Stats(m) \/ GenerateMetadata(m)
  \/ \E i \in Id : ContainerWrites(i)
  \/ \E v \in Vol : PullVolume(v) \/ CollectVolume(v)
  \/ Restart

Spec == Init /\ [][Next]_vars

------------------------------------------------------------------------------

\* The variables have the types their comments give.
TypeOK ==
  /\ projectids \subseteq ProjID
  /\ limit \in [ProjID -> Nat]
  /\ device \in Device /\ node \in Device \cup {Missing}
  /\ \A v \in Vol : meta[v] \in {Missing, Torn, TarSize[v], DuSize[v]}
  /\ \A i \in Id : image[i].used \in 0 .. MaxBytes /\ image[i].proj \in {0} \cup ProjID
  /\ \A p \in Process : proc[p].pc = "idle" \/ proc[p].id \in Id
  /\ DOMAIN meter = Meters
  /\ raced \in BOOLEAN

Limited(i) == image[i].done /\ image[i].want # 0

\* What an image may write is bounded by its own disk limit and by nothing
\* else: its project is in force on the directory containers write to, with
\* the limit asked for rounded down to blocks, and no other image's bytes
\* count against it.  It needs Alloc to give no id twice, the id to be set
\* before diff is made, and DestroyImage to free only an id its image owns;
\* it is promised as long as no image was destroyed while another command
\* was making or destroying it (driver.go:547 frees by an id read earlier).
LimitIsOwn ==
  ~raced => \A i \in Id : Limited(i) =>
     /\ image[i].diff = image[i].proj
     /\ limit[image[i].proj] = Rounded(image[i].want)
     /\ image[i].used <= image[i].want
     /\ Usage(image[i].proj) = image[i].used

\* With every command ended and no failure, kill or race behind, the project
\* id directories are those of the images: DestroyImage leaks none.
NoIdLeaked ==
  (/\ ~raced /\ spent.faults = 0
   /\ \A p \in Process : proc[p].pc = "idle")
  => projectids = {image[i].proj : i \in List} \ {0}

\* A live image's id directory is not given away: even after failed or
\* killed commands, Alloc never returns an id some image carries.
IdsReserved == ~raced => \A i \in List : image[i].proj # 0 => image[i].proj \in projectids

\* What generate-volume-size-metadata may add to the size of a volume.
Growth == [v \in Vol |-> IF DuSize[v] > TarSize[v] THEN DuSize[v] - TarSize[v] ELSE 0]

\* UsedVolumesSize subtracts two sums read at different times; it falls
\* below 0 at most by what was pulled in between, or regenerated.
UsedBounded ==
  \A m \in Meters : meter[m].pc = "quota" =>
     meter[m].used + meter[m].pulled + SumFunctionOnSet(Growth, Vol) >= 0

\* CommittedQuota counts at least the quotas of the images that were there
\* all the time, whatever is created or deleted meanwhile, and does not fail.
CommittedCovered ==
  ~raced => \A m \in Meters : meter[m].pc = "quota" /\ meter[m].todo = {} =>
     /\ ~meter[m].failed
     /\ meter[m].sum >= SumFunctionOnSet([i \in Id |-> image[i].want], meter[m].stable)

\* stats of an image that is not destroyed meanwhile: the quota is its own
\* limit and the usage is within it.
StatsTrue ==
  ~raced => \A m \in Meters : LET i == meter[m].id IN
     meter[m].pc = "stated" /\ i \in meter[m].stable /\ Limited(i) =>
       /\ meter[m].sum = Rounded(image[i].want)
       /\ meter[m].used <= meter[m].sum
       /\ meter[m].total >= meter[m].used
==============================================================================
