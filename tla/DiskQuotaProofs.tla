--------------------------- MODULE DiskQuotaProofs ---------------------------
(***************************************************************************)
(* What is proved of DiskQuota, for any number of commands, images and     *)
(* volumes, any sizes and any faults: all of its invariants.               *)
(***************************************************************************)
EXTENDS DiskQuota, SumLemmas

------------------------------------------------------------------------------
(* Types *)

\* Where a create is while it makes its image, and where destroying is.
MakePC == {"lower", "limit", "alloc", "mkid", "setid", "setlimit", "openquota",
           "writequota", "dirs", "info"}
DestroyPC == {"getid", "unlink", "freeid"}
ProcPC == {"idle", "mkdir", "purge"} \cup MakePC \cup DestroyPC
MeterPC == {"idle", "total", "unused", "quota", "stats", "info", "stated", "generate", "encode"}

ImageType ==
  [maker: Creators \cup {Missing}, base: SUBSET Vol, want: Nat, proj: {0} \cup ProjID,
   quota: Nat \cup {Missing, Torn}, info: Nat \cup {Missing}, diff: {Missing, 0} \cup ProjID,
   used: 0 .. MaxBytes, done: BOOLEAN]
ProcType ==
  [pc: ProcPC, id: Id \cup {Missing}, spec: DiskSpec \cup {Missing}, size: Nat, lim: Nat,
   next: Nat, file: Creators \cup {Missing}]
MeterType ==
  [pc: MeterPC, id: Id \cup Vol \cup {Missing}, todo: SUBSET (Id \cup Vol), sum: Int, total: Int,
   used: Int, failed: BOOLEAN, pulled: Nat, stable: SUBSET Id]

\* A command is at work on an image, a create with a specification; a project
\* is limited to something, and its id is within the bound.
ProcOK(p, r) ==
  /\ r.pc # "idle" => r.id \in Id
  /\ r.pc \in MakePC \cup {"mkdir"} => p \in Creators /\ r.spec \in DiskSpec
  /\ r.pc \in {"alloc", "mkid", "setid", "setlimit"} => r.lim >= MinQuota
  /\ r.pc \in {"setid", "setlimit"} => r.next \in ProjID
  /\ r.pc = "writequota" => r.file # Missing

\* What a command that reads goes over.
MeterOK(r) ==
  /\ r.pc \in {"total", "unused", "generate", "encode"} => r.todo \subseteq Vol
  /\ r.pc = "quota" => r.todo \subseteq Id /\ ~r.failed
  /\ r.pc \in {"stats", "info", "stated"} => r.id \in Id
  /\ r.pc = "encode" => r.id \in Vol

StoreTypes ==
  /\ projectids \subseteq ProjID
  /\ limit \in [ProjID -> Nat]
  /\ device \in Device /\ node \in Device \cup {Missing}
  /\ meta \in [Vol -> Int]
  /\ \A v \in Vol : meta[v] \in {Missing, Torn, TarSize[v], DuSize[v]}
  /\ raced \in BOOLEAN
  /\ spent \in [ops: Nat, faults: Nat]

\* What is under no image is nothing.
ImageTypes ==
  /\ image \in [Id -> ImageType]
  /\ \A i \in Id : image[i].maker = Missing => image[i] = NoImage

ProcTypes == proc \in [Process -> ProcType] /\ \A p \in Process : ProcOK(p, proc[p])
MeterTypes == meter \in [Meters -> MeterType] /\ \A m \in Meters : MeterOK(meter[m])

Types == StoreTypes /\ ImageTypes /\ ProcTypes /\ MeterTypes

\* A set of naturals that is not empty has its minimum in it.
LEMMA MinIn ==
  ASSUME NEW S \in SUBSET Nat, S # {}
  PROVE  Min(S) \in S
BY Least DEF Min

\* A function with one value changed.
LEMMA ExceptType ==
  ASSUME NEW S, NEW T, NEW f \in [S -> T], NEW x \in S, NEW v \in T
  PROVE  /\ [f EXCEPT ![x] = v] \in [S -> T]
         /\ [f EXCEPT ![x] = v][x] = v
         /\ \A y \in S : y # x => [f EXCEPT ![x] = v][y] = f[y]
OBVIOUS

\* What a step sets of one command, image or reader.
LEMMA ProcStep ==
  ASSUME ProcTypes, NEW p \in Process, NEW r \in ProcType, ProcOK(p, r), proc' = [proc EXCEPT ![p] = r]
  PROVE  ProcTypes' /\ proc'[p] = r /\ \A q \in Process : q # p => proc'[q] = proc[q]
<1>1. /\ proc' \in [Process -> ProcType] /\ proc'[p] = r
      /\ \A q \in Process : q # p => proc'[q] = proc[q]
  BY ExceptType DEF ProcTypes
<1>2. \A q \in Process : ProcOK(q, proc'[q])
  BY <1>1 DEF ProcTypes
<1> QED
  BY <1>1, <1>2 DEF ProcTypes, ProcOK

LEMMA ImageStep ==
  ASSUME ImageTypes, NEW i \in Id, NEW r \in ImageType, r.maker = Missing => r = NoImage,
         image' = [image EXCEPT ![i] = r]
  PROVE  ImageTypes' /\ image'[i] = r /\ \A j \in Id : j # i => image'[j] = image[j]
<1>1. /\ image' \in [Id -> ImageType] /\ image'[i] = r
      /\ \A j \in Id : j # i => image'[j] = image[j]
  BY ExceptType DEF ImageTypes
<1>2. \A j \in Id : image'[j].maker = Missing => image'[j] = NoImage
  BY <1>1 DEF ImageTypes
<1> QED
  BY <1>1, <1>2 DEF ImageTypes, NoImage

LEMMA MeterStep ==
  ASSUME MeterTypes, NEW m \in Meters, NEW r \in MeterType, MeterOK(r), meter' = [meter EXCEPT ![m] = r]
  PROVE  MeterTypes' /\ meter'[m] = r /\ \A n \in Meters : n # m => meter'[n] = meter[n]
<1>1. /\ meter' \in [Meters -> MeterType] /\ meter'[m] = r
      /\ \A n \in Meters : n # m => meter'[n] = meter[n]
  BY ExceptType DEF MeterTypes
<1>2. \A n \in Meters : MeterOK(meter'[n])
  BY <1>1 DEF MeterTypes
<1> QED
  BY <1>1, <1>2 DEF MeterTypes, MeterOK

\* The records nothing is in.
LEMMA IdleTypes ==
  /\ IdleProc \in ProcType /\ \A p : ProcOK(p, IdleProc)
  /\ IdleMeter \in MeterType /\ MeterOK(IdleMeter)
  /\ NoImage \in ImageType
<1>1. IdleProc \in ProcType /\ \A p : ProcOK(p, IdleProc)
  BY DEF IdleProc, ProcType, ProcPC, ProcOK, MakePC
<1>2. IdleMeter \in MeterType /\ MeterOK(IdleMeter)
  BY DEF IdleMeter, MeterType, MeterPC, MeterOK
<1>3. NoImage \in ImageType
  BY QuotaAssumption DEF NoImage, ImageType
<1> QED
  BY <1>1, <1>2, <1>3

\* The initial states.
LEMMA InitTypes == Init => Types
<1> SUFFICES ASSUME Init PROVE Types
  OBVIOUS
<1>1. StoreTypes
  <2>1. Min(Device) \in Device
    BY QuotaAssumption, MinIn
  <2>2. meta \in [Vol -> Int] /\ \A v \in Vol : meta[v] = Missing
    BY DEF Init, Missing
  <2>3. raced \in BOOLEAN /\ spent \in [ops: Nat, faults: Nat]
    BY DEF Init
  <2> QED
    BY <2>1, <2>2, <2>3 DEF Init, StoreTypes
<1>2. ImageTypes
  BY IdleTypes DEF Init, ImageTypes
<1>3. ProcTypes
  BY IdleTypes DEF Init, ProcTypes
<1>4. MeterTypes
  BY IdleTypes DEF Init, MeterTypes
<1> QED
  BY <1>1, <1>2, <1>3, <1>4 DEF Types

\* A step gives a command, or an image, a new record of the right kind.
Sets(p, r) == r \in ProcType /\ ProcOK(p, r) /\ proc' = [proc EXCEPT ![p] = r]
Puts(i, r) == r \in ImageType /\ (r.maker = Missing => r = NoImage) /\ image' = [image EXCEPT ![i] = r]

\* The steps of a create, and what they set.
LEMMA StartCreateStep ==
  ASSUME Types, NEW p \in Creators, NEW i \in Id, NEW s \in DiskSpec, StartCreate(p, i, s)
  PROVE  Sets(p, [IdleProc EXCEPT !.pc = "mkdir", !.id = i, !.spec = s])
<1>1. [IdleProc EXCEPT !.pc = "mkdir", !.id = i, !.spec = s] \in ProcType
  BY DEF IdleProc, ProcType, ProcPC
<1> QED
  BY <1>1 DEF StartCreate, Sets, IdleProc, ProcOK, MakePC

LEMMA MkdirStep ==
  ASSUME Types, NEW p \in Creators, MkdirImage(p)
  PROVE  LET i == proc[p].id IN
         /\ i \in Id
         /\ image[i].maker # Missing => Sets(p, [proc[p] EXCEPT !.pc = "getid"]) /\ UNCHANGED image
         /\ image[i].maker = Missing =>
              /\ Sets(p, [proc[p] EXCEPT !.pc = "lower"])
              /\ Puts(i, [NoImage EXCEPT !.maker = p, !.base = proc[p].spec.base])
<1>1. /\ proc[p] \in ProcType /\ ProcOK(p, proc[p]) /\ proc[p].pc = "mkdir"
      /\ proc[p].id \in Id /\ proc[p].spec \in DiskSpec
  BY DEF Types, ProcTypes, MkdirImage, Process, ProcOK
<1>2. /\ [proc[p] EXCEPT !.pc = "getid"] \in ProcType /\ ProcOK(p, [proc[p] EXCEPT !.pc = "getid"])
      /\ [proc[p] EXCEPT !.pc = "lower"] \in ProcType /\ ProcOK(p, [proc[p] EXCEPT !.pc = "lower"])
  BY <1>1 DEF ProcType, ProcPC, ProcOK, MakePC, DestroyPC
<1>3. /\ [NoImage EXCEPT !.maker = p, !.base = proc[p].spec.base] \in ImageType
      /\ [NoImage EXCEPT !.maker = p, !.base = proc[p].spec.base].maker # Missing
  <2>1. proc[p].spec.base \in SUBSET Vol /\ p # Missing /\ NoImage \in ImageType
    BY <1>1, QuotaAssumption, IdleTypes DEF Process
  <2> QED
    BY <2>1 DEF ImageType
<1> QED
  BY <1>1, <1>2, <1>3 DEF MkdirImage, GotoIf, Goto, Exists, List, SetImage, Sets, Puts

LEMMA LowerStep ==
  ASSUME Types, NEW p \in Creators, GetLowerDirs(p)
  PROVE  \E ok \in BOOLEAN, size \in Nat :
           /\ Sets(p, [proc[p] EXCEPT !.pc = IF ok THEN "limit" ELSE "getid", !.size = size])
           /\ image[proc[p].id].maker = p => Exists(proc[p].id)
<1>1. /\ proc[p] \in ProcType /\ ProcOK(p, proc[p]) /\ proc[p].pc = "lower"
      /\ proc[p].id \in Id /\ proc[p].spec \in DiskSpec
  BY DEF Types, ProcTypes, GetLowerDirs, Process, ProcOK, MakePC
<1> DEFINE base == proc[p].spec.base
           ok == Exists(proc[p].id) /\ \A v \in base : SizeKnown(v)
           size == IF ok THEN SumFunctionOnSet(meta, base) ELSE 0
<1>2. size \in Nat
  <2>1. IsFiniteSet(base) /\ base \subseteq Vol
    BY <1>1, QuotaAssumption, FS_Subset
  <2>2. ok => \A v \in base : meta[v] \in Nat
    BY <2>1 DEF SizeKnown, Types, StoreTypes
  <2> QED
    BY <2>1, <2>2, SumPositive
<1> HIDE DEF size, ok
<1> DEFINE r == [proc[p] EXCEPT !.pc = IF ok THEN "limit" ELSE "getid", !.size = size]
<1>3. r \in ProcType /\ ProcOK(p, r)
  BY <1>1, <1>2 DEF ProcType, ProcPC, ProcOK, MakePC, DestroyPC
<1>4. proc' = [proc EXCEPT ![p] = r]
  BY DEF GetLowerDirs, ok, size, Types, ProcTypes
<1>5. image[proc[p].id].maker = p => Exists(proc[p].id)
  BY <1>1, QuotaAssumption DEF Exists, List, Process
<1> QED
  BY <1>2, <1>3, <1>4, <1>5 DEF Sets

LEMMA LimitStep ==
  ASSUME Types, NEW p \in Creators, ApplyDiskLimit(p)
  PROVE  \E pc \in {"getid", "dirs", "alloc"}, l \in Nat :
           Sets(p, [proc[p] EXCEPT !.pc = pc, !.lim = l])
<1>1. /\ proc[p] \in ProcType /\ ProcOK(p, proc[p]) /\ proc[p].pc = "limit"
      /\ proc[p].id \in Id /\ proc[p].spec \in DiskSpec
  BY DEF Types, ProcTypes, ApplyDiskLimit, Process, ProcOK, MakePC
<1> DEFINE s == proc[p].spec
           l == DiskLimit(s, proc[p].size)
           pc == IF TooSmall(s, proc[p].size) THEN "getid" ELSE IF l = 0 THEN "dirs" ELSE "alloc"
<1>2. l \in Nat /\ (l # 0 => l >= MinQuota)
  <2>1. s.limit \in Nat /\ proc[p].size \in Nat
    BY <1>1, QuotaAssumption DEF ProcType
  <2> QED
    BY <2>1, QuotaAssumption DEF DiskLimit
<1> HIDE DEF l
<1>3. pc \in {"getid", "dirs", "alloc"} /\ (pc = "alloc" => l # 0)
  OBVIOUS
<1> DEFINE r == [proc[p] EXCEPT !.pc = pc, !.lim = l]
<1>4. proc' = [proc EXCEPT ![p] = r]
  BY DEF ApplyDiskLimit, l, Types, ProcTypes
<1> HIDE DEF pc
<1>5. r \in ProcType /\ ProcOK(p, r)
  BY <1>1, <1>2, <1>3 DEF ProcType, ProcPC, ProcOK, MakePC, DestroyPC
<1> QED
  BY <1>2, <1>3, <1>4, <1>5 DEF Sets

LEMMA AllocStep ==
  ASSUME Types, NEW p \in Creators, Alloc(p)
  PROVE  \E n \in Nat : Sets(p, [proc[p] EXCEPT !.pc = "mkid", !.next = n])
<1>1. /\ proc[p] \in ProcType /\ ProcOK(p, proc[p]) /\ proc[p].pc = "alloc"
  BY DEF Types, ProcTypes, Alloc, Process
<1> DEFINE n == Cardinality(projectids) + 1
           k == IF n = 1 THEN 2 ELSE n
<1>2. k \in Nat
  <2>1. IsFiniteSet(projectids)
    <3>1. IsFiniteSet(ProjID)
      BY FS_Interval, QuotaAssumption DEF ProjID
    <3> QED
      BY <3>1, FS_Subset DEF Types, StoreTypes
  <2> QED
    BY <2>1, FS_CardinalityType
<1> DEFINE r == [proc[p] EXCEPT !.pc = "mkid", !.next = k]
<1>3. proc' = [proc EXCEPT ![p] = r]
  BY DEF Alloc, Types, ProcTypes
<1> HIDE DEF k
<1>4. r \in ProcType /\ ProcOK(p, r)
  BY <1>1, <1>2 DEF ProcType, ProcPC, ProcOK, MakePC, DestroyPC
<1> QED
  BY <1>2, <1>3, <1>4 DEF Sets

LEMMA MkidStep ==
  ASSUME Types, NEW p \in Creators, UntilSucceeds(p)
  PROVE  /\ proc[p].next \in ProjID
         /\ proc[p].next \in projectids =>
              /\ Sets(p, [proc[p] EXCEPT !.next = proc[p].next + 1])
              /\ UNCHANGED projectids
         /\ proc[p].next \notin projectids =>
              /\ Sets(p, [proc[p] EXCEPT !.pc = "setid"])
              /\ projectids' = projectids \cup {proc[p].next}
<1>1. /\ proc[p] \in ProcType /\ ProcOK(p, proc[p]) /\ proc[p].pc = "mkid" /\ proc[p].next \in ProjID
  BY DEF Types, ProcTypes, UntilSucceeds, Process
<1>2. /\ [proc[p] EXCEPT !.next = proc[p].next + 1] \in ProcType
      /\ ProcOK(p, [proc[p] EXCEPT !.next = proc[p].next + 1])
      /\ [proc[p] EXCEPT !.pc = "setid"] \in ProcType /\ ProcOK(p, [proc[p] EXCEPT !.pc = "setid"])
  BY <1>1 DEF ProcType, ProcPC, ProcOK, MakePC, DestroyPC
<1> QED
  BY <1>1, <1>2 DEF UntilSucceeds, Goto, Sets

LEMMA SetidStep ==
  ASSUME Types, NEW p \in Creators, SetProjectID(p)
  PROVE  LET i == proc[p].id IN
         /\ i \in Id /\ proc[p].next \in ProjID /\ proc[p].lim >= MinQuota /\ proc[p].lim \in Nat
         /\ image[i].maker = Missing => Sets(p, [proc[p] EXCEPT !.pc = "getid"]) /\ UNCHANGED image
         /\ image[i].maker # Missing =>
              /\ Sets(p, [proc[p] EXCEPT !.pc = "setlimit"])
              /\ Puts(i, [image[i] EXCEPT !.proj = proc[p].next, !.want = proc[p].lim])
<1>1. /\ proc[p] \in ProcType /\ ProcOK(p, proc[p]) /\ proc[p].pc = "setid"
      /\ proc[p].id \in Id /\ proc[p].next \in ProjID /\ proc[p].lim >= MinQuota /\ proc[p].lim \in Nat
  BY DEF Types, ProcTypes, SetProjectID, Process, ProcOK, ProcType
<1>2. /\ [proc[p] EXCEPT !.pc = "getid"] \in ProcType /\ ProcOK(p, [proc[p] EXCEPT !.pc = "getid"])
      /\ [proc[p] EXCEPT !.pc = "setlimit"] \in ProcType /\ ProcOK(p, [proc[p] EXCEPT !.pc = "setlimit"])
  BY <1>1 DEF ProcType, ProcPC, ProcOK, MakePC, DestroyPC
<1> DEFINE i == proc[p].id
           r == [image[i] EXCEPT !.proj = proc[p].next, !.want = proc[p].lim]
<1>3. image[i] \in ImageType
  BY <1>1 DEF Types, ImageTypes
<1>4. r \in ImageType /\ r.maker = image[i].maker
  BY <1>1, <1>3 DEF ImageType
<1> QED
  BY <1>1, <1>2, <1>4 DEF SetProjectID, GotoIf, Goto, OpenDir, Exists, List, SetImage, Sets, Puts

\* Limits are rounded down to blocks, to one at least if there is room for one.
LEMMA RoundedTo ==
  ASSUME NEW n \in Nat
  PROVE  Rounded(n) \in Nat /\ Rounded(n) =< n /\ (n >= BlockSize => Rounded(n) # 0)
<1>1. BlockSize \in Nat \ {0}
  BY QuotaAssumption
<1>2. /\ n \div BlockSize \in Nat
      /\ (n \div BlockSize) * BlockSize =< n /\ n < (n \div BlockSize) * BlockSize + BlockSize
  BY <1>1
<1>3. (n \div BlockSize) * BlockSize \in Nat
  BY <1>1, <1>2
<1> QED
  BY <1>1, <1>2, <1>3 DEF Rounded

LEMMA SetlimitStep ==
  ASSUME Types, NEW p \in Creators, SetLimit(p)
  PROVE  /\ proc[p].id \in Id /\ proc[p].next \in ProjID /\ proc[p].lim \in Nat
         /\ ~DeviceFound => Sets(p, [proc[p] EXCEPT !.pc = "getid"]) /\ UNCHANGED limit
         /\ DeviceFound =>
              /\ Sets(p, [proc[p] EXCEPT !.pc = "openquota"])
              /\ limit' = [limit EXCEPT ![proc[p].next] = Rounded(proc[p].lim)]
         /\ Rounded(proc[p].lim) \in Nat
<1>1. /\ proc[p] \in ProcType /\ ProcOK(p, proc[p]) /\ proc[p].pc = "setlimit"
      /\ proc[p].id \in Id /\ proc[p].next \in ProjID /\ proc[p].lim \in Nat
  BY DEF Types, ProcTypes, SetLimit, Process, ProcOK, ProcType
<1>2. /\ [proc[p] EXCEPT !.pc = "getid"] \in ProcType /\ ProcOK(p, [proc[p] EXCEPT !.pc = "getid"])
      /\ [proc[p] EXCEPT !.pc = "openquota"] \in ProcType /\ ProcOK(p, [proc[p] EXCEPT !.pc = "openquota"])
  BY <1>1 DEF ProcType, ProcPC, ProcOK, MakePC, DestroyPC
<1>3. Rounded(proc[p].lim) \in Nat
  BY <1>1, RoundedTo
<1> QED
  BY <1>1, <1>2, <1>3 DEF SetLimit, GotoIf, Goto, Sets

LEMMA OpenStep ==
  ASSUME Types, NEW p \in Creators, OpenQuotaFile(p)
  PROVE  LET i == proc[p].id IN
         /\ i \in Id
         /\ image[i].maker = Missing =>
              Sets(p, [proc[p] EXCEPT !.pc = "getid", !.file = Missing]) /\ UNCHANGED image
         /\ image[i].maker # Missing =>
              /\ Sets(p, [proc[p] EXCEPT !.pc = "writequota", !.file = image[i].maker])
              /\ Puts(i, [image[i] EXCEPT !.quota = Torn])
<1> DEFINE i == proc[p].id
<1>1. /\ proc[p] \in ProcType /\ ProcOK(p, proc[p]) /\ proc[p].pc = "openquota"
      /\ proc[p].id \in Id
  BY DEF Types, ProcTypes, OpenQuotaFile, Process, ProcOK, MakePC
<1>2. image[i] \in ImageType
  BY <1>1 DEF Types, ImageTypes
<1>3. image[i].maker \in Creators \cup {Missing}
  BY <1>2 DEF ImageType
<1>4. ASSUME NEW pc \in {"getid", "writequota"}, pc = "writequota" => image[i].maker # Missing
      PROVE  LET r == [proc[p] EXCEPT !.pc = pc, !.file = image[i].maker] IN r \in ProcType /\ ProcOK(p, r)
  BY <1>1, <1>3, <1>4 DEF ProcType, ProcPC, ProcOK, MakePC, DestroyPC
<1>5. /\ [image[i] EXCEPT !.quota = Torn] \in ImageType
      /\ [image[i] EXCEPT !.quota = Torn].maker = image[i].maker
  BY <1>2 DEF ImageType
<1>6. proc' = [proc EXCEPT ![p] = [proc[p] EXCEPT !.pc = IF Exists(i) THEN "writequota" ELSE "getid",
                                                  !.file = image[i].maker]]
  BY DEF OpenQuotaFile, Types, ProcTypes
<1> QED
  BY <1>1, <1>4, <1>5, <1>6 DEF OpenQuotaFile, Exists, List, SetImage, Sets, Puts

LEMMA WriteStep ==
  ASSUME Types, NEW p \in Creators, WriteQuotaFile(p)
  PROVE  LET i == proc[p].id IN
         /\ i \in Id /\ proc[p].lim \in Nat
         /\ Sets(p, [proc[p] EXCEPT !.pc = "dirs"])
         /\ image[i].maker # proc[p].file => UNCHANGED image
         /\ image[i].maker = proc[p].file => Puts(i, [image[i] EXCEPT !.quota = proc[p].lim])
<1> DEFINE i == proc[p].id
           r == [proc[p] EXCEPT !.pc = "dirs"]
<1>1. /\ proc[p] \in ProcType /\ ProcOK(p, proc[p]) /\ proc[p].pc = "writequota"
      /\ proc[p].id \in Id /\ proc[p].lim \in Nat /\ proc[p].file # Missing
  BY DEF Types, ProcTypes, WriteQuotaFile, Process, ProcOK, MakePC, ProcType
<1>2. image[i] \in ImageType
  BY <1>1 DEF Types, ImageTypes
<1>3. r \in ProcType /\ ProcOK(p, r)
  BY <1>1 DEF ProcType, ProcPC, ProcOK, MakePC, DestroyPC
<1>4. /\ [image[i] EXCEPT !.quota = proc[p].lim] \in ImageType
      /\ [image[i] EXCEPT !.quota = proc[p].lim].maker = image[i].maker
  BY <1>1, <1>2 DEF ImageType
<1> QED
  BY <1>1, <1>3, <1>4 DEF WriteQuotaFile, Goto, SetImage, Sets, Puts

LEMMA DirsStep ==
  ASSUME Types, NEW p \in Creators, CreateImageDirectories(p)
  PROVE  LET i == proc[p].id
             ok == image[i].maker # Missing /\ image[i].diff = Missing IN
         /\ i \in Id
         /\ ~ok => Sets(p, [proc[p] EXCEPT !.pc = "getid"]) /\ UNCHANGED image
         /\ ok => /\ Sets(p, [proc[p] EXCEPT !.pc = "info"])
                  /\ Puts(i, [image[i] EXCEPT !.diff = image[i].proj])
<1> DEFINE i == proc[p].id
           ok == image[i].maker # Missing /\ image[i].diff = Missing
<1>1. /\ proc[p] \in ProcType /\ ProcOK(p, proc[p]) /\ proc[p].pc = "dirs" /\ proc[p].id \in Id
  BY DEF Types, ProcTypes, CreateImageDirectories, Process, ProcOK, MakePC
<1>2. image[i] \in ImageType
  BY <1>1 DEF Types, ImageTypes
<1>3. ASSUME NEW pc \in {"getid", "info"}
      PROVE  [proc[p] EXCEPT !.pc = pc] \in ProcType /\ ProcOK(p, [proc[p] EXCEPT !.pc = pc])
  BY <1>1 DEF ProcType, ProcPC, ProcOK, MakePC, DestroyPC
<1>4. /\ [image[i] EXCEPT !.diff = image[i].proj] \in ImageType
      /\ [image[i] EXCEPT !.diff = image[i].proj].maker = image[i].maker
  BY <1>2 DEF ImageType
<1>5. ok <=> Exists(i) /\ image[i].diff = Missing
  BY <1>1 DEF Exists, List
<1>6. /\ proc' = [proc EXCEPT ![p].pc = IF ok THEN "info" ELSE "getid"]
      /\ IF ok THEN image' = [image EXCEPT ![i] = [image[i] EXCEPT !.diff = image[i].proj]] ELSE image' = image
  BY <1>5 DEF CreateImageDirectories, GotoIf, Goto, SetImage
<1> HIDE DEF ok
<1>7. ~ok => Sets(p, [proc[p] EXCEPT !.pc = "getid"]) /\ UNCHANGED image
  BY <1>3, <1>6 DEF Sets
<1>8. ok => Sets(p, [proc[p] EXCEPT !.pc = "info"])
  BY <1>3, <1>6 DEF Sets
<1>9. ok => Puts(i, [image[i] EXCEPT !.diff = image[i].proj])
  BY <1>4, <1>6 DEF Puts, ok
<1> QED
  BY <1>1, <1>7, <1>8, <1>9 DEF ok

LEMMA InfoStep ==
  ASSUME Types, NEW p \in Creators, WriteImageInfo(p)
  PROVE  LET i == proc[p].id IN
         /\ i \in Id /\ proc[p].size \in Nat
         /\ image[i].maker = Missing => Sets(p, [proc[p] EXCEPT !.pc = "getid"]) /\ UNCHANGED image
         /\ image[i].maker # Missing =>
              /\ Sets(p, IdleProc)
              /\ Puts(i, [image[i] EXCEPT !.info = proc[p].size, !.done = TRUE])
<1> DEFINE i == proc[p].id
           r == [image[i] EXCEPT !.info = proc[p].size, !.done = TRUE]
<1>1. /\ proc[p] \in ProcType /\ ProcOK(p, proc[p]) /\ proc[p].pc = "info"
      /\ proc[p].id \in Id /\ proc[p].size \in Nat
  BY DEF Types, ProcTypes, WriteImageInfo, Process, ProcOK, MakePC, ProcType
<1>2. image[i] \in ImageType
  BY <1>1 DEF Types, ImageTypes
<1>3. [proc[p] EXCEPT !.pc = "getid"] \in ProcType /\ ProcOK(p, [proc[p] EXCEPT !.pc = "getid"])
  BY <1>1 DEF ProcType, ProcPC, ProcOK, MakePC, DestroyPC
<1>4. r \in ImageType /\ r.maker = image[i].maker
  BY <1>1, <1>2 DEF ImageType
<1>5. /\ proc' = [proc EXCEPT ![p] = IF image[i].maker # Missing THEN IdleProc
                                     ELSE [proc[p] EXCEPT !.pc = "getid"]]
      /\ image' = IF image[i].maker # Missing THEN [image EXCEPT ![i] = r] ELSE image
  BY <1>1 DEF WriteImageInfo, Exists, List, SetImage
<1>6. image[i].maker = Missing => Sets(p, [proc[p] EXCEPT !.pc = "getid"]) /\ UNCHANGED image
  BY <1>3, <1>5 DEF Sets
<1>7. image[i].maker # Missing => Sets(p, IdleProc)
  BY <1>5, IdleTypes DEF Sets
<1>8. image[i].maker # Missing => Puts(i, r)
  BY <1>4, <1>5 DEF Puts
<1> QED
  BY <1>1, <1>6, <1>7, <1>8

\* A create that fails goes on to destroy what it has made.
LEMMA FailStep ==
  ASSUME Types, NEW p \in Creators, CreateFails(p) \/ RunTardisFails(p) \/ TardisFails(p)
  PROVE  /\ proc[p].pc \in MakePC /\ proc[p].id \in Id
         /\ Sets(p, [proc[p] EXCEPT !.pc = "getid"])
<1>1. /\ proc[p] \in ProcType /\ ProcOK(p, proc[p]) /\ proc[p].pc \in MakePC
      /\ proc' = [proc EXCEPT ![p] = [proc[p] EXCEPT !.pc = "getid"]]
  BY DEF Types, ProcTypes, CreateFails, RunTardisFails, TardisFails, Goto, Process, MakePC
<1>2. proc[p].id \in Id
  BY <1>1 DEF ProcOK, MakePC
<1>3. [proc[p] EXCEPT !.pc = "getid"] \in ProcType /\ ProcOK(p, [proc[p] EXCEPT !.pc = "getid"])
  BY <1>1, <1>2 DEF ProcType, ProcPC, ProcOK, MakePC, DestroyPC
<1> QED
  BY <1>1, <1>2, <1>3 DEF Sets

\* The steps of destroying an image.
LEMMA StartDeleteStep ==
  ASSUME Types, NEW p \in Deleters, NEW i \in Id, StartDelete(p, i)
  PROVE  /\ image[i].maker # Missing
         /\ Sets(p, [IdleProc EXCEPT !.pc = "getid", !.id = i])
<1>1. [IdleProc EXCEPT !.pc = "getid", !.id = i] \in ProcType
  BY DEF IdleProc, ProcType, ProcPC, DestroyPC
<1> QED
  BY <1>1 DEF StartDelete, Exists, List, Sets, IdleProc, ProcOK, MakePC

LEMMA GetidStep ==
  ASSUME Types, NEW p \in Process, GetProjectID(p)
  PROVE  /\ proc[p].id \in Id
         /\ Sets(p, [proc[p] EXCEPT !.pc = "unlink", !.next = image[proc[p].id].proj])
<1>1. /\ proc[p] \in ProcType /\ ProcOK(p, proc[p]) /\ proc[p].pc = "getid" /\ proc[p].id \in Id
  BY DEF Types, ProcTypes, GetProjectID, ProcOK
<1>2. image[proc[p].id].proj \in Nat
  BY <1>1 DEF Types, ImageTypes, ImageType, ProjID
<1> DEFINE r == [proc[p] EXCEPT !.pc = "unlink", !.next = image[proc[p].id].proj]
<1>3. r \in ProcType /\ ProcOK(p, r)
  BY <1>1, <1>2 DEF ProcType, ProcPC, ProcOK, MakePC, DestroyPC
<1>4. proc' = [proc EXCEPT ![p] = r]
  BY DEF GetProjectID, Types, ProcTypes
<1> QED
  BY <1>1, <1>3, <1>4 DEF Sets

LEMMA RemoveStep ==
  ASSUME Types, NEW p \in Process, RemoveImage(p)
  PROVE  /\ proc[p].id \in Id
         /\ Sets(p, [proc[p] EXCEPT !.pc = "freeid"])
         /\ Puts(proc[p].id, NoImage)
<1>1. /\ proc[p] \in ProcType /\ ProcOK(p, proc[p]) /\ proc[p].pc = "unlink" /\ proc[p].id \in Id
  BY DEF Types, ProcTypes, RemoveImage, ProcOK
<1>2. [proc[p] EXCEPT !.pc = "freeid"] \in ProcType /\ ProcOK(p, [proc[p] EXCEPT !.pc = "freeid"])
  BY <1>1 DEF ProcType, ProcPC, ProcOK, MakePC, DestroyPC
<1> QED
  BY <1>1, <1>2, IdleTypes DEF RemoveImage, Goto, SetImage, Sets, Puts

LEMMA EndDestroyStep ==
  ASSUME Types, NEW p \in Process, RemoveImageFails(p) \/ FreeProjectID(p)
  PROVE  /\ proc[p].id \in Id
         /\ \/ p \in Deleters /\ Sets(p, IdleProc)
            \/ p \in Creators /\ Sets(p, [proc[p] EXCEPT !.pc = "purge"])
<1>1. /\ proc[p] \in ProcType /\ ProcOK(p, proc[p]) /\ proc[p].pc \in {"unlink", "freeid"}
      /\ proc[p].id \in Id
  BY DEF Types, ProcTypes, RemoveImageFails, FreeProjectID, ProcOK
<1>2. [proc[p] EXCEPT !.pc = "purge"] \in ProcType /\ ProcOK(p, [proc[p] EXCEPT !.pc = "purge"])
  BY <1>1 DEF ProcType, ProcPC, ProcOK, MakePC, DestroyPC
<1>3. /\ p \in Deleters => proc' = [proc EXCEPT ![p] = IdleProc]
      /\ p \notin Deleters => proc' = [proc EXCEPT ![p] = [proc[p] EXCEPT !.pc = "purge"]]
  BY DEF RemoveImageFails, FreeProjectID
<1> QED
  BY <1>1, <1>2, <1>3, IdleTypes DEF Sets, Process

LEMMA PurgeStep ==
  ASSUME Types, NEW p \in Creators, PurgeImage(p)
  PROVE  /\ proc[p].id \in Id
         /\ Sets(p, IdleProc)
         /\ Puts(proc[p].id, NoImage)
<1>1. proc[p].pc = "purge" /\ proc[p].id \in Id
  BY DEF Types, ProcTypes, PurgeImage, ProcOK, Process
<1> QED
  BY <1>1, IdleTypes DEF PurgeImage, SetImage, Sets, Puts

LEMMA KillStep ==
  ASSUME Types, NEW p \in Process, Kill(p)
  PROVE  Sets(p, IdleProc)
BY IdleTypes DEF Kill, Sets

\* What the blocks of a project add up to.
LEMMA UsageType ==
  ASSUME Types, NEW n
  PROVE  Usage(n) \in Nat
<1> DEFINE f == [i \in Id |-> image[i].used]
           S == {i \in List : image[i].diff = n}
<1>1. IsFiniteSet(S) /\ S \subseteq Id
  BY QuotaAssumption, FS_Subset DEF List
<1>2. \A i \in S : f[i] \in Nat
  BY <1>1, QuotaAssumption DEF Types, ImageTypes, ImageType
<1>3. SumFunctionOnSet(f, S) \in Nat
  BY <1>1, <1>2, SumPositive
<1> QED
  BY <1>3 DEF Usage

\* The steps of a command that reads, and what they set.
Reads(m, r) == r \in MeterType /\ MeterOK(r) /\ meter' = [meter EXCEPT ![m] = r]

\* A reader with one field set.
LEMMA MeterFields ==
  ASSUME NEW r \in MeterType
  PROVE  /\ \A x \in MeterPC : [r EXCEPT !.pc = x] \in MeterType
         /\ \A x \in SUBSET (Id \cup Vol) : [r EXCEPT !.todo = x] \in MeterType
         /\ \A x \in Int : [r EXCEPT !.sum = x] \in MeterType
         /\ \A x \in Int : [r EXCEPT !.total = x] \in MeterType
         /\ \A x \in Int : [r EXCEPT !.used = x] \in MeterType
         /\ \A x \in BOOLEAN : [r EXCEPT !.failed = x] \in MeterType
         /\ \A x \in SUBSET Id : [r EXCEPT !.stable = x] \in MeterType
<1>1. \A x \in MeterPC : [r EXCEPT !.pc = x] \in MeterType
  BY DEF MeterType
<1>2. \A x \in SUBSET (Id \cup Vol) : [r EXCEPT !.todo = x] \in MeterType
  BY DEF MeterType
<1>3. \A x \in Int : [r EXCEPT !.sum = x] \in MeterType
  BY DEF MeterType
<1>4. \A x \in Int : [r EXCEPT !.total = x] \in MeterType
  BY DEF MeterType
<1>5. \A x \in Int : [r EXCEPT !.used = x] \in MeterType
  BY DEF MeterType
<1>6. \A x \in BOOLEAN : [r EXCEPT !.failed = x] \in MeterType
  BY DEF MeterType
<1>7. \A x \in SUBSET Id : [r EXCEPT !.stable = x] \in MeterType
  BY DEF MeterType
<1> QED
  BY <1>1, <1>2, <1>3, <1>4, <1>5, <1>6, <1>7

LEMMA StartReadStep ==
  ASSUME Types, NEW m \in Meters
  PROVE  /\ StartMetrics(m) => Reads(m, [IdleMeter EXCEPT !.pc = "total", !.todo = Vols])
         /\ StartGenerate(m) => Reads(m, [IdleMeter EXCEPT !.pc = "generate", !.todo = Vols])
         /\ \A i \in Id : StartStats(m, i) => Reads(m, [IdleMeter EXCEPT !.pc = "stats", !.id = i])
<1>1. Vols \subseteq Vol
  BY DEF Vols
<1>2. IdleMeter \in MeterType
  BY IdleTypes
<1>3. ASSUME NEW pc \in {"total", "generate"}
      PROVE  LET r == [IdleMeter EXCEPT !.pc = pc, !.todo = Vols] IN r \in MeterType /\ MeterOK(r)
  BY <1>1, <1>2 DEF MeterType, MeterPC, MeterOK
<1>4. ASSUME NEW i \in Id
      PROVE  LET r == [IdleMeter EXCEPT !.pc = "stats", !.id = i] IN r \in MeterType /\ MeterOK(r)
  BY <1>2 DEF MeterType, MeterPC, MeterOK
<1> QED
  BY <1>3, <1>4 DEF StartMetrics, StartGenerate, StartStats, SetMeter, Reads

LEMMA CountStep ==
  ASSUME Types, NEW m \in Meters, CountVolume(m)
  PROVE  \E v \in meter[m].todo :
           /\ v \in Vol
           /\ meta[v] = Torn => Reads(m, [meter[m] EXCEPT !.todo = {}, !.failed = TRUE])
           /\ meta[v] # Torn =>
                Reads(m, [meter[m] EXCEPT !.todo = meter[m].todo \ {v},
                                          !.sum = meter[m].sum + IF meta[v] = Missing THEN 0 ELSE meta[v]])
<1>1. /\ meter[m] \in MeterType /\ MeterOK(meter[m]) /\ meter[m].pc \in {"total", "unused"}
      /\ meter[m].todo \subseteq Vol /\ meter[m].sum \in Int
  BY DEF Types, MeterTypes, CountVolume, MeterOK, MeterType
<1>2. PICK v \in meter[m].todo :
        SetMeter(m, IF meta[v] = Torn THEN [meter[m] EXCEPT !.todo = {}, !.failed = TRUE]
                   ELSE [meter[m] EXCEPT !.todo = @ \ {v},
                                         !.sum = @ + IF meta[v] = Missing THEN 0 ELSE meta[v]])
  BY DEF CountVolume
<1> DEFINE n == IF meta[v] = Missing THEN 0 ELSE meta[v]
           r1 == [meter[m] EXCEPT !.todo = {}, !.failed = TRUE]
           r2 == [meter[m] EXCEPT !.todo = meter[m].todo \ {v}, !.sum = meter[m].sum + n]
<1>3. v \in Vol /\ n \in Int
  BY <1>1 DEF Types, StoreTypes
<1>4. r1 \in MeterType /\ MeterOK(r1)
  BY <1>1 DEF MeterType, MeterPC, MeterOK
<1>5. r2 \in MeterType /\ MeterOK(r2)
  <2> DEFINE x == meter[m].todo \ {v}
             y == meter[m].sum + n
             t == [meter[m] EXCEPT !.todo = x]
  <2>1. x \in SUBSET (Id \cup Vol) /\ x \subseteq Vol /\ y \in Int
    BY <1>1, <1>3
  <2> HIDE DEF x, y
  <2>2. t \in MeterType /\ r2 = [t EXCEPT !.sum = y]
    BY <1>1, <2>1, MeterFields DEF x, y
  <2>3. r2 \in MeterType
    BY <2>1, <2>2, MeterFields
  <2>4. r2.pc = meter[m].pc /\ r2.todo = x
    BY <1>1 DEF MeterType, x
  <2> QED
    BY <1>1, <2>1, <2>3, <2>4 DEF MeterOK
<1>6. meter' = [meter EXCEPT ![m] = IF meta[v] = Torn THEN r1 ELSE r2]
  BY <1>2 DEF SetMeter
<1> HIDE DEF r1, r2
<1>7. (meta[v] = Torn => Reads(m, r1)) /\ (meta[v] # Torn => Reads(m, r2))
  BY <1>4, <1>5, <1>6 DEF Reads
<1> QED
  BY <1>3, <1>7 DEF r1, r2

LEMMA UnusedStep ==
  ASSUME Types, NEW m \in Meters, ListUnused(m)
  PROVE  Reads(m, [meter[m] EXCEPT !.pc = "unused", !.total = meter[m].sum, !.sum = 0,
                                   !.todo = UnusedVolumes])
<1>1. meter[m] \in MeterType /\ MeterOK(meter[m]) /\ meter[m].sum \in Int
  BY DEF Types, MeterTypes, MeterType
<1>2. UnusedVolumes \subseteq Vol
  BY DEF UnusedVolumes, Vols
<1> DEFINE r == [meter[m] EXCEPT !.pc = "unused", !.total = meter[m].sum, !.sum = 0, !.todo = UnusedVolumes]
<1>3. r \in MeterType /\ MeterOK(r)
  <2> DEFINE x == UnusedVolumes
             t1 == [meter[m] EXCEPT !.pc = "unused"]
             t2 == [t1 EXCEPT !.total = meter[m].sum]
             t3 == [t2 EXCEPT !.sum = 0]
  <2>1. x \in SUBSET (Id \cup Vol) /\ x \subseteq Vol
    BY <1>2
  <2> HIDE DEF x
  <2>2. t1 \in MeterType
    BY <1>1, MeterFields DEF MeterPC
  <2>3. t2 \in MeterType
    BY <1>1, <2>2, MeterFields
  <2>4. t3 \in MeterType
    <3> HIDE DEF t2
    <3> QED
      BY <2>3, MeterFields
  <2>5. [t3 EXCEPT !.todo = x] \in MeterType
    BY <2>1, <2>4, MeterFields
  <2>6. r = [t3 EXCEPT !.todo = x] /\ r.pc = "unused" /\ r.todo = x
    BY <1>1 DEF MeterType, x
  <2>7. r \in MeterType
    BY <2>5, <2>6, Zenon
  <2> HIDE DEF r
  <2> QED
    BY <2>1, <2>6, <2>7 DEF MeterOK
<1> QED
  BY <1>3 DEF ListUnused, SetMeter, Reads

LEMMA ListStep ==
  ASSUME Types, NEW m \in Meters, ListImages(m)
  PROVE  \E used \in Int :
           /\ used = IF meter[m].failed THEN 0 ELSE meter[m].total - meter[m].sum
           /\ Reads(m, [meter[m] EXCEPT !.pc = "quota", !.sum = 0, !.failed = FALSE, !.todo = List,
                                        !.used = used, !.stable = {i \in List : image[i].done}])
<1>1. meter[m] \in MeterType /\ MeterOK(meter[m]) /\ meter[m].sum \in Int /\ meter[m].total \in Int
  BY DEF Types, MeterTypes, MeterType
<1>2. List \subseteq Id
  BY DEF List
<1> DEFINE used == IF meter[m].failed THEN 0 ELSE meter[m].total - meter[m].sum
           r == [meter[m] EXCEPT !.pc = "quota", !.sum = 0, !.failed = FALSE, !.todo = List,
                                 !.used = used, !.stable = {i \in List : image[i].done}]
<1>3. used \in Int
  BY <1>1
<1>4. meter' = [meter EXCEPT ![m] = r]
  BY DEF ListImages, SetMeter
<1> HIDE DEF used
<1>5. r \in MeterType /\ MeterOK(r)
  <2> DEFINE x == List
             y == {i \in List : image[i].done}
             t1 == [meter[m] EXCEPT !.pc = "quota"]
             t2 == [t1 EXCEPT !.sum = 0]
             t3 == [t2 EXCEPT !.failed = FALSE]
             t4 == [t3 EXCEPT !.todo = x]
             t5 == [t4 EXCEPT !.used = used]
  <2>1. x \in SUBSET (Id \cup Vol) /\ x \subseteq Id /\ y \in SUBSET Id
    BY <1>2
  <2> HIDE DEF x, y
  <2>2. t1 \in MeterType
    BY <1>1, MeterFields DEF MeterPC
  <2>3. t2 \in MeterType
    <3> HIDE DEF t1
    <3> QED
      BY <2>2, MeterFields
  <2>4. t3 \in MeterType
    BY <2>3, MeterFields
  <2>5. t4 \in MeterType
    BY <2>1, <2>4, MeterFields
  <2>6. t5 \in MeterType
    BY <1>3, <2>5, MeterFields
  <2>7. [t5 EXCEPT !.stable = y] \in MeterType
    BY <2>1, <2>6, MeterFields
  <2>8. r = [t5 EXCEPT !.stable = y] /\ r.pc = "quota" /\ r.todo = x /\ r.failed = FALSE
    BY <1>1 DEF MeterType, x, y
  <2>9. r \in MeterType
    BY <2>7, <2>8, Zenon
  <2> HIDE DEF r
  <2> QED
    BY <2>1, <2>8, <2>9 DEF MeterOK
<1> QED
  BY <1>3, <1>4, <1>5 DEF Reads, used

LEMMA QuotaStep ==
  ASSUME Types, NEW m \in Meters, ReadImageQuota(m)
  PROVE  \E i \in meter[m].todo :
           /\ i \in Id
           /\ Reads(m, [meter[m] EXCEPT !.todo = meter[m].todo \ {i},
                          !.sum = meter[m].sum + IF image[i].quota < 0 THEN 0 ELSE image[i].quota])
<1>1. /\ meter[m] \in MeterType /\ MeterOK(meter[m]) /\ meter[m].pc = "quota"
      /\ meter[m].todo \subseteq Id /\ meter[m].sum \in Int /\ ~meter[m].failed
  BY DEF Types, MeterTypes, ReadImageQuota, MeterOK, MeterType
<1>2. PICK i \in meter[m].todo :
        SetMeter(m, [meter[m] EXCEPT !.todo = @ \ {i},
                      !.sum = @ + IF image[i].quota < 0 THEN 0 ELSE image[i].quota])
  BY DEF ReadImageQuota
<1> DEFINE n == IF image[i].quota < 0 THEN 0 ELSE image[i].quota
           r == [meter[m] EXCEPT !.todo = meter[m].todo \ {i}, !.sum = meter[m].sum + n]
<1>3. i \in Id /\ n \in Int
  BY <1>1 DEF Types, ImageTypes, ImageType, Missing, Torn
<1>4. meter' = [meter EXCEPT ![m] = r]
  BY <1>2 DEF SetMeter
<1>5. r \in MeterType /\ MeterOK(r)
  <2> DEFINE x == meter[m].todo \ {i}
             y == meter[m].sum + n
             t == [meter[m] EXCEPT !.todo = x]
  <2>1. x \in SUBSET (Id \cup Vol) /\ x \subseteq Id /\ y \in Int
    BY <1>1, <1>3
  <2> HIDE DEF x, y
  <2>2. t \in MeterType /\ r = [t EXCEPT !.sum = y]
    BY <1>1, <2>1, MeterFields DEF x, y
  <2>3. r \in MeterType
    BY <2>1, <2>2, MeterFields
  <2>4. r.pc = "quota" /\ r.todo = x /\ r.failed = meter[m].failed
    BY <1>1 DEF MeterType, x
  <2> QED
    BY <1>1, <2>1, <2>3, <2>4 DEF MeterOK
<1> QED
  BY <1>3, <1>4, <1>5 DEF Reads

LEMMA StatsStep ==
  ASSUME Types, NEW m \in Meters, ListQuota(m)
  PROVE  LET i == meter[m].id
             n == image[i].proj IN
         /\ i \in Id /\ n \in {0} \cup ProjID
         /\ \/ Reads(m, IdleMeter)
            \/ Reads(m, [meter[m] EXCEPT !.pc = "info", !.stable = IF image[i].done THEN {i} ELSE {},
                            !.used = IF n = 0 THEN 0 ELSE Usage(n), !.sum = IF n = 0 THEN 0 ELSE limit[n]])
<1> DEFINE i == meter[m].id
           n == image[i].proj
           used == IF n = 0 THEN 0 ELSE Usage(n)
           sum == IF n = 0 THEN 0 ELSE limit[n]
           stable == IF image[i].done THEN {i} ELSE {}
           r == [meter[m] EXCEPT !.pc = "info", !.stable = stable, !.used = used, !.sum = sum]
<1>1. /\ meter[m] \in MeterType /\ MeterOK(meter[m]) /\ meter[m].pc = "stats" /\ meter[m].id \in Id
  BY DEF Types, MeterTypes, ListQuota, MeterOK
<1>2. n \in {0} \cup ProjID
  BY <1>1 DEF Types, ImageTypes, ImageType
<1>3. used \in Int /\ sum \in Int /\ stable \in SUBSET Id
  BY <1>1, <1>2, UsageType DEF Types, StoreTypes
<1>4. \/ meter' = [meter EXCEPT ![m] = IdleMeter]
      \/ meter' = [meter EXCEPT ![m] = r]
  BY DEF ListQuota, SetMeter
<1> HIDE DEF used, sum, stable
<1>5. r \in MeterType /\ MeterOK(r)
  BY <1>1, <1>3 DEF MeterType, MeterPC, MeterOK
<1> QED
  BY <1>1, <1>2, <1>4, <1>5, IdleTypes DEF Reads, used, sum, stable

LEMMA InfoReadStep ==
  ASSUME Types, NEW m \in Meters, ReadImageInfo(m)
  PROVE  LET i == meter[m].id IN
         /\ i \in Id
         /\ \/ Reads(m, IdleMeter)
            \/ /\ image[i].info \in Nat
               /\ Reads(m, [meter[m] EXCEPT !.pc = "stated", !.total = meter[m].used + image[i].info])
<1> DEFINE i == meter[m].id
           r == [meter[m] EXCEPT !.pc = "stated", !.total = meter[m].used + image[i].info]
<1>1. /\ meter[m] \in MeterType /\ MeterOK(meter[m]) /\ meter[m].pc = "info" /\ meter[m].id \in Id
      /\ meter[m].used \in Int
  BY DEF Types, MeterTypes, ReadImageInfo, MeterOK, MeterType
<1>2. image[i].info \in Nat \cup {Missing}
  BY <1>1 DEF Types, ImageTypes, ImageType
<1>3. ASSUME image[i].info \in Nat
      PROVE  r \in MeterType /\ MeterOK(r)
  <2> DEFINE y == meter[m].used + image[i].info
             t == [meter[m] EXCEPT !.pc = "stated"]
  <2>1. y \in Int /\ t \in MeterType
    <3>1. t \in MeterType
      BY <1>1, MeterFields DEF MeterPC
    <3> QED
      BY <1>1, <1>3, <3>1
  <2> HIDE DEF y
  <2>2. [t EXCEPT !.total = y] \in MeterType
    BY <2>1, MeterFields
  <2>3. r = [t EXCEPT !.total = y] /\ r.pc = "stated" /\ r.id = meter[m].id
    BY <1>1 DEF MeterType, y
  <2>4. r \in MeterType
    BY <2>2, <2>3, Zenon
  <2> HIDE DEF r
  <2> QED
    BY <1>1, <2>3, <2>4 DEF MeterOK
<1>4. meter' = [meter EXCEPT ![m] = IF image[i].info = Missing THEN IdleMeter ELSE r]
  BY DEF ReadImageInfo, SetMeter
<1> QED
  BY <1>1, <1>2, <1>3, <1>4, IdleTypes DEF Reads

LEMMA GenerateStep ==
  ASSUME Types, NEW m \in Meters
  PROVE  /\ \A v \in Vol : CreateMetaFile(m, v) =>
              Reads(m, [meter[m] EXCEPT !.pc = "encode", !.id = v, !.todo = meter[m].todo \ {v}])
         /\ EncodeMeta(m) =>
              meter[m].id \in Vol /\ Reads(m, [meter[m] EXCEPT !.pc = "generate", !.id = Missing])
         /\ EndStats(m) \/ TryEmitUsage(m) \/ EndGenerate(m) => Reads(m, IdleMeter)
<1>1. meter[m] \in MeterType /\ MeterOK(meter[m])
  BY DEF Types, MeterTypes
<1>2. ASSUME NEW v \in Vol, CreateMetaFile(m, v)
      PROVE  Reads(m, [meter[m] EXCEPT !.pc = "encode", !.id = v, !.todo = meter[m].todo \ {v}])
  <2> DEFINE r == [meter[m] EXCEPT !.pc = "encode", !.id = v, !.todo = meter[m].todo \ {v}]
  <2>1. r \in MeterType /\ MeterOK(r)
    <3>1. meter[m].pc = "generate"
      BY <1>2 DEF CreateMetaFile
    <3> QED
      BY <1>1, <3>1 DEF MeterType, MeterPC, MeterOK
  <2> QED
    BY <1>2, <2>1 DEF CreateMetaFile, SetMeter, Reads
<1>3. ASSUME EncodeMeta(m)
      PROVE  meter[m].id \in Vol /\ Reads(m, [meter[m] EXCEPT !.pc = "generate", !.id = Missing])
  <2> DEFINE r == [meter[m] EXCEPT !.pc = "generate", !.id = Missing]
  <2>1. meter[m].id \in Vol /\ meter[m].pc = "encode"
    BY <1>1, <1>3 DEF MeterOK, EncodeMeta
  <2>2. r \in MeterType /\ MeterOK(r)
    BY <1>1, <2>1 DEF MeterType, MeterPC, MeterOK
  <2> QED
    BY <1>3, <2>1, <2>2 DEF EncodeMeta, SetMeter, Reads
<1>4. IdleMeter \in MeterType /\ MeterOK(IdleMeter)
  BY IdleTypes
<1>5. EndStats(m) \/ TryEmitUsage(m) \/ EndGenerate(m) => Reads(m, IdleMeter)
  BY <1>4, Zenon DEF EndStats, TryEmitUsage, EndGenerate, SetMeter, Reads
<1> QED
  BY <1>2, <1>3, <1>5

\* What a step leaves alone keeps its type.
LEMMA SameTypes ==
  ASSUME Types
  PROVE  /\ UNCHANGED image => ImageTypes'
         /\ UNCHANGED proc => ProcTypes'
         /\ UNCHANGED meter => MeterTypes'
<1>1. UNCHANGED image => ImageTypes'
  BY DEF Types, ImageTypes
<1>2. UNCHANGED proc => ProcTypes'
  BY DEF Types, ProcTypes, ProcOK
<1>3. UNCHANGED meter => MeterTypes'
  BY DEF Types, MeterTypes, MeterOK
<1> QED
  BY <1>1, <1>2, <1>3

LEMMA SpentStep ==
  ASSUME Types, StartCommand \/ Fault \/ UNCHANGED spent
  PROVE  /\ spent' \in [ops: Nat, faults: Nat]
         /\ spent'.faults = 0 => spent.faults = 0
         /\ Fault => spent'.faults # 0
BY DEF Types, StoreTypes, StartCommand, Fault

LEMMA StoreStep ==
  ASSUME Types, projectids' \subseteq ProjID, limit' \in [ProjID -> Nat], device' \in Device,
         node' \in Device \cup {Missing}, UNCHANGED meta, raced' \in BOOLEAN,
         StartCommand \/ Fault \/ UNCHANGED spent
  PROVE  StoreTypes'
<1>1. spent' \in [ops: Nat, faults: Nat]
  BY SpentStep
<1>2. meta' = meta
  OBVIOUS
<1>3. meta' \in [Vol -> Int] /\ \A v \in Vol : meta'[v] \in {Missing, Torn, TarSize[v], DuSize[v]}
  BY <1>2 DEF Types, StoreTypes
<1> QED
  BY <1>1, <1>3 DEF StoreTypes

LEMMA StoreKept ==
  ASSUME Types, UNCHANGED <<projectids, limit, device, node, meta>>, raced' \in BOOLEAN,
         StartCommand \/ Fault \/ UNCHANGED spent
  PROVE  StoreTypes'
BY StoreStep DEF Types, StoreTypes

\* All that keeps readers busy while an image goes.
LEMMA ForgetTypes ==
  ASSUME Types, NEW i, Forget(i)
  PROVE  MeterTypes'
<1>1. \A m \in Meters : /\ meter[m] \in MeterType /\ MeterOK(meter[m])
                        /\ meter'[m] = [meter[m] EXCEPT !.stable = meter[m].stable \ {i}]
  BY DEF Types, MeterTypes, Forget
<1>2. ASSUME NEW m \in Meters
      PROVE  meter'[m] \in MeterType /\ MeterOK(meter'[m])
  <2>1. meter[m].stable \ {i} \in SUBSET Id
    BY <1>1 DEF MeterType
  <2>2. meter'[m] \in MeterType
    <3> DEFINE x == meter[m].stable \ {i}
    <3>1. meter'[m] = [meter[m] EXCEPT !.stable = x]
      BY <1>1
    <3>2. x \in SUBSET Id
      BY <2>1
    <3> HIDE DEF x
    <3> QED
      BY <1>1, <3>1, <3>2 DEF MeterType
  <2>3. /\ meter'[m].pc = meter[m].pc /\ meter'[m].todo = meter[m].todo
        /\ meter'[m].failed = meter[m].failed /\ meter'[m].id = meter[m].id
    BY <1>1 DEF MeterType
  <2> QED
    BY <1>1, <2>2, <2>3 DEF MeterOK
<1>3. meter' \in [Meters -> MeterType]
  BY <1>2 DEF Forget
<1> QED
  BY <1>2, <1>3 DEF MeterTypes, MeterOK

LEMMA SetsTypes ==
  ASSUME Types, NEW p \in Process, NEW r, Sets(p, r)
  PROVE  ProcTypes' /\ proc'[p] = r /\ \A q \in Process : q # p => proc'[q] = proc[q]
BY ProcStep DEF Types, Sets

LEMMA PutsTypes ==
  ASSUME Types, NEW i \in Id, NEW r, Puts(i, r)
  PROVE  ImageTypes' /\ image'[i] = r /\ \A j \in Id : j # i => image'[j] = image[j]
BY ImageStep DEF Types, Puts

LEMMA ReadsTypes ==
  ASSUME Types, NEW m \in Meters, NEW r, Reads(m, r)
  PROVE  MeterTypes' /\ meter'[m] = r /\ \A n \in Meters : n # m => meter'[n] = meter[n]
BY MeterStep DEF Types, Reads

\* The steps of a create keep the types.
LEMMA CreateTypes ==
  ASSUME Types, NEW p \in Creators, Create(p)
  PROVE  Types'
<1>0. p \in Process
  BY DEF Process
<1>1. ASSUME NEW i \in Id, NEW s \in DiskSpec, StartCreate(p, i, s)
      PROVE  Types'
  <2>1. StoreTypes'
    BY <1>1, StoreKept DEF StartCreate, Types, StoreTypes
  <2>2. ProcTypes'
    BY <1>0, <1>1, StartCreateStep, SetsTypes
  <2> QED
    BY <1>1, <2>1, <2>2, SameTypes DEF StartCreate, Types
<1>2. ASSUME MkdirImage(p)
      PROVE  Types'
  <2>1. StoreTypes'
    BY <1>2, StoreKept DEF MkdirImage, Types, StoreTypes
  <2>2. ProcTypes'
    BY <1>0, <1>2, MkdirStep, SetsTypes
  <2>3. ImageTypes'
    BY <1>2, MkdirStep, PutsTypes, SameTypes
  <2> QED
    BY <1>2, <2>1, <2>2, <2>3, SameTypes DEF MkdirImage, Types
<1>3. ASSUME GetLowerDirs(p) \/ ApplyDiskLimit(p) \/ Alloc(p)
      PROVE  Types'
  <2>1. UNCHANGED <<device, node, projectids, limit, meta, image, meter, raced, spent>>
    BY <1>3 DEF GetLowerDirs, ApplyDiskLimit, Alloc
  <2>2. StoreTypes'
    BY <2>1, StoreKept DEF Types, StoreTypes
  <2>3. \E r : Sets(p, r)
    BY <1>3, LowerStep, LimitStep, AllocStep
  <2>4. ProcTypes'
    BY <1>0, <2>3, SetsTypes
  <2> QED
    BY <2>1, <2>2, <2>4, SameTypes DEF Types
<1>4. ASSUME UntilSucceeds(p)
      PROVE  Types'
  <2>1. UNCHANGED <<device, node, limit, meta, image, meter, raced, spent>>
    BY <1>4 DEF UntilSucceeds
  <2>2. projectids' \subseteq ProjID
    BY <1>4, MkidStep DEF Types, StoreTypes
  <2>3. StoreTypes'
    BY <2>1, <2>2, StoreStep DEF Types, StoreTypes
  <2>4. ProcTypes'
    BY <1>0, <1>4, MkidStep, SetsTypes
  <2> QED
    BY <2>1, <2>3, <2>4, SameTypes DEF Types
<1>5. ASSUME SetLimit(p)
      PROVE  Types'
  <2>1. UNCHANGED <<device, projectids, meta, image, meter, raced, spent>>
    BY <1>5 DEF SetLimit
  <2>2. limit' \in [ProjID -> Nat]
    BY <1>5, SetlimitStep DEF Types, StoreTypes
  <2>3. node' \in Device \cup {Missing}
    BY <1>5 DEF SetLimit, GetStoreDevicePath, Types, StoreTypes
  <2>4. StoreTypes'
    BY <2>1, <2>2, <2>3, StoreStep DEF Types, StoreTypes
  <2>5. ProcTypes'
    BY <1>0, <1>5, SetlimitStep, SetsTypes
  <2> QED
    BY <2>1, <2>4, <2>5, SameTypes DEF Types
<1>6. ASSUME SetProjectID(p) \/ OpenQuotaFile(p) \/ WriteQuotaFile(p) \/ CreateImageDirectories(p)
             \/ WriteImageInfo(p)
      PROVE  Types'
  <2>1. UNCHANGED <<device, node, projectids, limit, meta, meter, raced, spent>>
    BY <1>6 DEF SetProjectID, OpenQuotaFile, WriteQuotaFile, CreateImageDirectories, WriteImageInfo
  <2>2. StoreTypes'
    BY <2>1, StoreKept DEF Types, StoreTypes
  <2>3. (\E r : Sets(p, r)) /\ (UNCHANGED image \/ \E i \in Id : \E r : Puts(i, r))
    <3>1. CASE SetProjectID(p)
      BY <3>1, SetidStep
    <3>2. CASE OpenQuotaFile(p)
      BY <3>2, OpenStep
    <3>3. CASE WriteQuotaFile(p)
      BY <3>3, WriteStep
    <3>4. CASE CreateImageDirectories(p)
      BY <3>4, DirsStep
    <3>5. CASE WriteImageInfo(p)
      BY <3>5, InfoStep
    <3> QED
      BY <1>6, <3>1, <3>2, <3>3, <3>4, <3>5
  <2>4. ProcTypes'
    BY <1>0, <2>3, SetsTypes
  <2>5. ImageTypes'
    BY <2>3, PutsTypes, SameTypes
  <2> QED
    BY <2>1, <2>2, <2>4, <2>5, SameTypes DEF Types
<1>7. ASSUME CreateFails(p) \/ RunTardisFails(p) \/ TardisFails(p)
      PROVE  Types'
  <2>1. UNCHANGED <<device, node, projectids, limit, meta, image, meter, raced>> /\ Fault
    BY <1>7 DEF CreateFails, RunTardisFails, TardisFails
  <2>2. StoreTypes'
    BY <2>1, StoreKept DEF Types, StoreTypes
  <2>3. ProcTypes'
    BY <1>0, <1>7, FailStep, SetsTypes
  <2> QED
    BY <2>1, <2>2, <2>3, SameTypes DEF Types
<1>8. ASSUME PurgeImage(p)
      PROVE  Types'
  <2>1. /\ UNCHANGED <<device, node, projectids, limit, meta, spent>>
        /\ Forget(proc[p].id) /\ raced' \in BOOLEAN
    BY <1>8 DEF PurgeImage, Interferes, Types, StoreTypes
  <2>2. StoreTypes'
    BY <2>1, StoreKept
  <2>3. ProcTypes' /\ ImageTypes'
    BY <1>0, <1>8, PurgeStep, SetsTypes, PutsTypes
  <2>4. MeterTypes'
    BY <2>1, ForgetTypes
  <2> QED
    BY <2>2, <2>3, <2>4 DEF Types
<1> QED
  BY <1>1, <1>2, <1>3, <1>4, <1>5, <1>6, <1>7, <1>8 DEF Create, CreateImage, Limit

\* The steps of destroying an image keep the types.
LEMMA DestroyTypes ==
  ASSUME Types, NEW p \in Process,
         (p \in Deleters /\ \E i \in Id : StartDelete(p, i)) \/ DestroyImage(p) \/ Kill(p)
  PROVE  Types'
<1>1. ASSUME p \in Deleters, NEW i \in Id, StartDelete(p, i)
      PROVE  Types'
  <2>1. StoreTypes'
    BY <1>1, StoreKept DEF StartDelete, Types, StoreTypes
  <2>2. ProcTypes'
    BY <1>1, StartDeleteStep, SetsTypes
  <2> QED
    BY <1>1, <2>1, <2>2, SameTypes DEF StartDelete, Types
<1>2. ASSUME GetProjectID(p)
      PROVE  Types'
  <2>1. UNCHANGED <<device, node, projectids, limit, meta, image, meter, spent>> /\ raced' \in BOOLEAN
    BY <1>2 DEF GetProjectID, Interferes, Types, StoreTypes
  <2>2. StoreTypes'
    BY <2>1, StoreKept
  <2>3. ProcTypes'
    BY <1>2, GetidStep, SetsTypes
  <2> QED
    BY <2>1, <2>2, <2>3, SameTypes DEF Types
<1>3. ASSUME RemoveImage(p)
      PROVE  Types'
  <2>1. /\ UNCHANGED <<device, node, projectids, limit, meta, spent>>
        /\ Forget(proc[p].id) /\ raced' \in BOOLEAN
    BY <1>3 DEF RemoveImage, Interferes, Types, StoreTypes
  <2>2. StoreTypes'
    BY <2>1, StoreKept
  <2>3. ProcTypes' /\ ImageTypes'
    BY <1>3, RemoveStep, SetsTypes, PutsTypes
  <2>4. MeterTypes'
    BY <2>1, ForgetTypes
  <2> QED
    BY <2>2, <2>3, <2>4 DEF Types
<1>4. ASSUME RemoveImageFails(p) \/ FreeProjectID(p)
      PROVE  Types'
  <2>1. /\ UNCHANGED <<device, node, limit, meta, image, meter, raced>>
        /\ Fault \/ UNCHANGED spent
        /\ projectids' \subseteq projectids
    BY <1>4 DEF RemoveImageFails, FreeProjectID
  <2>2. StoreTypes'
    BY <2>1, StoreStep DEF Types, StoreTypes
  <2>3. ProcTypes'
    BY <1>4, EndDestroyStep, SetsTypes
  <2> QED
    BY <2>1, <2>2, <2>3, SameTypes DEF Types
<1>5. ASSUME Kill(p)
      PROVE  Types'
  <2>1. UNCHANGED <<device, node, projectids, limit, meta, image, meter, raced>> /\ Fault
    BY <1>5 DEF Kill
  <2>2. StoreTypes'
    BY <2>1, StoreKept DEF Types, StoreTypes
  <2>3. ProcTypes'
    BY <1>5, KillStep, SetsTypes
  <2> QED
    BY <2>1, <2>2, <2>3, SameTypes DEF Types
<1> QED
  BY <1>1, <1>2, <1>3, <1>4, <1>5 DEF DestroyImage

\* What a pull adds to the readers that are at work.
LEMMA PullMeters ==
  ASSUME Types, NEW v \in Vol, PullVolume(v)
  PROVE  /\ MeterTypes'
         /\ \A m \in Meters : \E n \in Nat :
              /\ n = IF meter[m].pc = "idle" THEN 0 ELSE meter[m].pulled + TarSize[v]
              /\ meter'[m] = [meter[m] EXCEPT !.pulled = n]
<1>1. ASSUME NEW m \in Meters
      PROVE  \E n \in Nat : /\ n = IF meter[m].pc = "idle" THEN 0 ELSE meter[m].pulled + TarSize[v]
                            /\ meter'[m] = [meter[m] EXCEPT !.pulled = n]
                            /\ meter'[m] \in MeterType /\ MeterOK(meter'[m])
  <2> DEFINE n == IF meter[m].pc = "idle" THEN 0 ELSE meter[m].pulled + TarSize[v]
  <2>1. meter[m] \in MeterType /\ MeterOK(meter[m])
    BY DEF Types, MeterTypes
  <2>2. n \in Nat
    <3>1. meter[m].pulled \in Nat /\ TarSize[v] \in Nat
      BY <2>1, QuotaAssumption DEF MeterType
    <3> QED
      BY <3>1
  <2>3. meter'[m] = [meter[m] EXCEPT !.pulled = n]
    BY DEF PullVolume
  <2> HIDE DEF n
  <2>4. meter'[m] \in MeterType
    BY <2>1, <2>2, <2>3 DEF MeterType
  <2>5. /\ meter'[m].pc = meter[m].pc /\ meter'[m].todo = meter[m].todo
        /\ meter'[m].failed = meter[m].failed /\ meter'[m].id = meter[m].id
    BY <2>1, <2>3 DEF MeterType
  <2>6. MeterOK(meter'[m])
    BY <2>1, <2>5 DEF MeterOK
  <2> QED
    BY <2>2, <2>3, <2>4, <2>6 DEF n
<1>2. meter' \in [Meters -> MeterType]
  BY <1>1 DEF PullVolume
<1>3. MeterTypes'
  BY <1>1, <1>2 DEF MeterTypes, MeterOK
<1> QED
  BY <1>1, <1>3

\* A volume gets, loses or changes its metadata.
LEMMA MetaStep ==
  ASSUME Types, NEW v \in Vol, NEW x \in {Missing, Torn, TarSize[v], DuSize[v]},
         meta' = [meta EXCEPT ![v] = x]
  PROVE  /\ meta' \in [Vol -> Int]
         /\ \A w \in Vol : meta'[w] \in {Missing, Torn, TarSize[w], DuSize[w]}
         /\ meta'[v] = x /\ \A w \in Vol : w # v => meta'[w] = meta[w]
<1>1. x \in Int
  BY QuotaAssumption DEF Missing, Torn
<1>2. meta \in [Vol -> Int] /\ \A w \in Vol : meta[w] \in {Missing, Torn, TarSize[w], DuSize[w]}
  BY DEF Types, StoreTypes
<1>3. meta' \in [Vol -> Int] /\ meta'[v] = x /\ \A w \in Vol : w # v => meta'[w] = meta[w]
  BY <1>1, <1>2
<1> QED
  BY <1>2, <1>3

\* The readers change no image, no process, no id and no limit.
ReadersOnly == UNCHANGED <<device, projectids, limit, image, proc, raced>>

LEMMA ReadersStep ==
  ASSUME Types, NEW m \in Meters, EmitMetrics(m) \/ Stats(m) \/ GenerateMetadata(m)
  PROVE  /\ ReadersOnly /\ (StartCommand \/ UNCHANGED spent)
         /\ \E r : Reads(m, r)
         /\ node' \in Device \cup {Missing}
         /\ \/ UNCHANGED meta
            \/ /\ GenerateMetadata(m)
               /\ \E v \in Vol : /\ meta' = [meta EXCEPT ![v] = Torn] /\ meta[v] # Missing
                                 /\ Reads(m, [meter[m] EXCEPT !.pc = "encode", !.id = v, !.todo = meter[m].todo \ {v}])
            \/ /\ GenerateMetadata(m)
               /\ \E v \in Vol : /\ meta' = [meta EXCEPT ![v] = IF meta[v] = Missing THEN Missing ELSE DuSize[v]]
                                 /\ Reads(m, [meter[m] EXCEPT !.pc = "generate", !.id = Missing])
<1> DEFINE Same == ReadersOnly /\ (StartCommand \/ UNCHANGED spent) /\ node' \in Device \cup {Missing}
<1>0. node \in Device \cup {Missing} /\ device \in Device
  BY DEF Types, StoreTypes
<1>1. CASE EmitMetrics(m)
  <2>1. Same /\ UNCHANGED meta
    BY <1>0, <1>1 DEF EmitMetrics, StartMetrics, CountVolume, ListUnused, ListImages, ReadImageQuota,
                     TryEmitUsage, StoreUnchanged, ReadersOnly
  <2>2. \E r : Reads(m, r)
    BY <1>1, StartReadStep, CountStep, UnusedStep, ListStep, QuotaStep, GenerateStep DEF EmitMetrics
  <2> QED
    BY <2>1, <2>2
<1>2. CASE Stats(m)
  <2>1. Same /\ UNCHANGED meta
    BY <1>0, <1>2 DEF Stats, StartStats, FetchStats, VolumeStats, ListQuota, ReadImageInfo, EndStats,
                     StoreUnchanged, ReadersOnly, GetStoreDevicePath
  <2>2. \E r : Reads(m, r)
    BY <1>2, StartReadStep, StatsStep, InfoReadStep, GenerateStep DEF Stats, FetchStats, VolumeStats
  <2> QED
    BY <2>1, <2>2
<1>3. CASE GenerateMetadata(m)
  <2>1. CASE StartGenerate(m) \/ EndGenerate(m)
    <3>1. Same /\ UNCHANGED meta
      BY <1>0, <2>1 DEF StartGenerate, EndGenerate, StoreUnchanged, ReadersOnly
    <3>2. \E r : Reads(m, r)
      BY <2>1, StartReadStep, GenerateStep
    <3> QED
      BY <3>1, <3>2
  <2>2. ASSUME NEW v \in Vol, CreateMetaFile(m, v)
        PROVE  /\ Same /\ meta' = [meta EXCEPT ![v] = Torn] /\ meta[v] # Missing
               /\ Reads(m, [meter[m] EXCEPT !.pc = "encode", !.id = v, !.todo = meter[m].todo \ {v}])
    BY <1>0, <2>2, GenerateStep DEF CreateMetaFile, StoreUnchanged, ReadersOnly
  <2>3. ASSUME EncodeMeta(m)
        PROVE  /\ Same
               /\ \E v \in Vol : /\ meta' = [meta EXCEPT ![v] = IF meta[v] = Missing THEN Missing ELSE DuSize[v]]
                                 /\ Reads(m, [meter[m] EXCEPT !.pc = "generate", !.id = Missing])
    BY <1>0, <2>3, GenerateStep DEF EncodeMeta, StoreUnchanged, ReadersOnly
  <2> QED
    BY <1>3, <2>1, <2>2, <2>3 DEF GenerateMetadata
<1> QED
  BY <1>1, <1>2, <1>3

LEMMA ReadersTypes ==
  ASSUME Types, NEW m \in Meters, EmitMetrics(m) \/ Stats(m) \/ GenerateMetadata(m)
  PROVE  Types'
<1>1. /\ ReadersOnly /\ (StartCommand \/ UNCHANGED spent)
      /\ \E r : Reads(m, r)
      /\ node' \in Device \cup {Missing}
      /\ UNCHANGED meta
         \/ \E v \in Vol : \E x \in {Missing, Torn, TarSize[v], DuSize[v]} : meta' = [meta EXCEPT ![v] = x]
  BY ReadersStep
<1>2. meta' \in [Vol -> Int] /\ \A w \in Vol : meta'[w] \in {Missing, Torn, TarSize[w], DuSize[w]}
  <2>1. CASE UNCHANGED meta
    <3>1. meta' = meta
      BY <2>1
    <3> QED
      BY <3>1 DEF Types, StoreTypes
  <2>2. CASE \E v \in Vol : \E x \in {Missing, Torn, TarSize[v], DuSize[v]} : meta' = [meta EXCEPT ![v] = x]
    BY <2>2, MetaStep
  <2> QED
    BY <1>1, <2>1, <2>2
<1>3. spent' \in [ops: Nat, faults: Nat]
  BY <1>1, SpentStep
<1>4. StoreTypes'
  BY <1>1, <1>2, <1>3 DEF ReadersOnly, Types, StoreTypes
<1>5. MeterTypes'
  BY <1>1, ReadsTypes
<1>6. ProcTypes' /\ ImageTypes'
  BY <1>1, SameTypes DEF ReadersOnly
<1> QED
  BY <1>4, <1>5, <1>6 DEF Types

\* A container writes one block more.
LEMMA WritesStep ==
  ASSUME Types, NEW i \in Id, ContainerWrites(i)
  PROVE  /\ image[i].used + BlockSize \in 0 .. MaxBytes
         /\ Puts(i, [image[i] EXCEPT !.used = image[i].used + BlockSize])
<1>1. image[i] \in ImageType /\ image[i].used \in Nat /\ (image[i].maker = Missing => image[i] = NoImage)
  BY QuotaAssumption DEF Types, ImageTypes, ImageType
<1> DEFINE u == image[i].used + BlockSize
<1>2. u \in 0 .. MaxBytes
  BY <1>1, QuotaAssumption DEF ContainerWrites
<1>3. image[i].maker # Missing
  BY <1>1 DEF NoImage, ContainerWrites
<1>4. image' = [image EXCEPT ![i] = [image[i] EXCEPT !.used = u]]
  BY DEF ContainerWrites, SetImage
<1> HIDE DEF u
<1>5. [image[i] EXCEPT !.used = u] \in ImageType /\ [image[i] EXCEPT !.used = u].maker = image[i].maker
  BY <1>1, <1>2 DEF ImageType
<1> QED
  BY <1>2, <1>3, <1>4, <1>5 DEF Puts, u

LEMMA WorldTypes ==
  ASSUME Types, (\E i \in Id : ContainerWrites(i)) \/ (\E v \in Vol : PullVolume(v) \/ CollectVolume(v)) \/ Restart
  PROVE  Types'
<1>1. ASSUME NEW i \in Id, ContainerWrites(i)
      PROVE  Types'
  <2>1. UNCHANGED <<device, node, projectids, limit, meta, proc, meter, raced, spent>>
    BY <1>1 DEF ContainerWrites
  <2>2. StoreTypes'
    BY <2>1, StoreKept DEF Types, StoreTypes
  <2>3. ImageTypes'
    BY <1>1, WritesStep, PutsTypes
  <2> QED
    BY <2>1, <2>2, <2>3, SameTypes DEF Types
<1>2. ASSUME NEW v \in Vol, PullVolume(v)
      PROVE  Types'
  <2>1. UNCHANGED <<device, node, projectids, limit, image, proc, raced, spent>>
    BY <1>2 DEF PullVolume
  <2>2. meta' \in [Vol -> Int] /\ \A w \in Vol : meta'[w] \in {Missing, Torn, TarSize[w], DuSize[w]}
    BY <1>2, MetaStep DEF PullVolume
  <2>3. StoreTypes'
    BY <2>1, <2>2 DEF Types, StoreTypes
  <2> QED
    BY <1>2, <2>1, <2>3, PullMeters, SameTypes DEF Types
<1>3. ASSUME NEW v \in Vol, CollectVolume(v)
      PROVE  Types'
  <2>1. UNCHANGED <<device, node, projectids, limit, image, proc, meter, raced>> /\ StartCommand
    BY <1>3 DEF CollectVolume
  <2>2. meta' \in [Vol -> Int] /\ \A w \in Vol : meta'[w] \in {Missing, Torn, TarSize[w], DuSize[w]}
    BY <1>3, MetaStep DEF CollectVolume
  <2>3. spent' \in [ops: Nat, faults: Nat]
    BY <2>1, SpentStep
  <2>4. StoreTypes'
    BY <2>1, <2>2, <2>3 DEF Types, StoreTypes
  <2> QED
    BY <2>1, <2>4, SameTypes DEF Types
<1>4. ASSUME Restart
      PROVE  Types'
  <2>1. /\ UNCHANGED <<node, projectids, limit, meta, image, raced>> /\ Fault /\ device' \in Device
        /\ proc' = [p \in Process |-> IdleProc] /\ meter' = [m \in Meters |-> IdleMeter]
    BY <1>4 DEF Restart
  <2>2. StoreTypes'
    BY <2>1, StoreStep DEF Types, StoreTypes
  <2>3. ProcTypes'
    <3>1. proc' \in [Process -> ProcType] /\ \A p \in Process : ProcOK(p, proc'[p])
      BY <2>1, IdleTypes
    <3> QED
      BY <3>1 DEF ProcTypes, ProcOK
  <2>4. MeterTypes'
    <3>1. meter' \in [Meters -> MeterType] /\ \A m \in Meters : MeterOK(meter'[m])
      BY <2>1, IdleTypes
    <3> QED
      BY <3>1 DEF MeterTypes, MeterOK
  <2> QED
    BY <2>1, <2>2, <2>3, <2>4, SameTypes DEF Types
<1> QED
  BY <1>1, <1>2, <1>3, <1>4

LEMMA NextTypes == Types /\ [Next]_vars => Types'
<1> SUFFICES ASSUME Types, [Next]_vars
             PROVE  Types'
  OBVIOUS
<1>1. CASE UNCHANGED vars
  <2>1. StoreTypes'
    BY <1>1, StoreKept DEF vars, Types, StoreTypes
  <2> QED
    BY <1>1, <2>1, SameTypes DEF vars, Types
<1>2. CASE Next
  <2>1. Deleters \subseteq Process
    BY DEF Process
  <2> QED
    BY <1>2, <2>1, CreateTypes, DestroyTypes, ReadersTypes, WorldTypes DEF Next
<1> QED
  BY <1>1, <1>2

LEMMA AlwaysTypes == Spec => []Types
<1>1. Init => Types
  BY InitTypes
<1> QED
  BY <1>1, NextTypes, PTL DEF Spec

\* Every variable of the quota model keeps its type, whatever interleaves:
\* in particular no id outside of those the store has is ever put on an
\* image, and no container exceeds the bound of what it writes.
THEOREM QuotaTypes == Spec => []TypeOK
<1>1. Types => TypeOK
  <2> SUFFICES ASSUME Types
               PROVE  TypeOK
    OBVIOUS
  <2>1. \A i \in Id : image[i].used \in 0 .. MaxBytes /\ image[i].proj \in {0} \cup ProjID
    BY DEF Types, ImageTypes, ImageType
  <2>2. \A p \in Process : proc[p].pc = "idle" \/ proc[p].id \in Id
    BY DEF Types, ProcTypes, ProcOK
  <2>3. DOMAIN meter = Meters
    BY DEF Types, MeterTypes
  <2> QED
    BY <2>1, <2>2, <2>3 DEF Types, StoreTypes, TypeOK
<1> QED
  BY <1>1, AlwaysTypes, PTL

------------------------------------------------------------------------------
(* Projects: as long as no image was destroyed under another command, an    *)
(* id belongs to one image, or to one command that gives it or takes it.    *)

\* How far the image i is when the create that makes it is at pc.
Stage(i, pc) ==
  /\ pc \in {"lower", "limit", "alloc", "mkid", "setid"} =>
       image[i].proj = 0 /\ image[i].want = 0 /\ image[i].quota = Missing
  /\ pc \in MakePC \ {"info"} => image[i].diff = Missing
  /\ pc \in {"setlimit", "openquota", "writequota"} => image[i].proj # 0
  /\ pc \in {"openquota", "writequota", "dirs", "info"} /\ image[i].proj # 0 =>
       limit[image[i].proj] = Rounded(image[i].want)
  /\ pc \in {"dirs", "info"} /\ image[i].want # 0 => image[i].quota = image[i].want
  /\ pc = "info" => image[i].diff = image[i].proj

\* A command holds an id that no image carries: just allocated, or of an
\* image just removed.
Claims(p) == proc[p].pc \in {"setid", "freeid"} /\ proc[p].next # 0

CommandInv(p) ==
  LET i == proc[p].id IN
  /\ proc[p].pc \in MakePC => image[i].maker = p /\ ~image[i].done /\ Stage(i, proc[p].pc)
  /\ proc[p].pc = "mkdir" => image[i].maker # p
  /\ proc[p].pc \in {"getid", "unlink"} => image[i].maker # Missing
  /\ proc[p].pc = "unlink" => proc[p].next = image[i].proj
  /\ proc[p].pc = "setlimit" => image[i].proj = proc[p].next
  /\ proc[p].pc \in {"setlimit", "openquota", "writequota"} => image[i].want = proc[p].lim
  /\ proc[p].pc = "writequota" => proc[p].file = p
  /\ Claims(p) => proc[p].next \in projectids /\ \A j \in Id : image[j].proj # proc[p].next

ImageInv(i) ==
  /\ image[i].proj # 0 => image[i].proj \in projectids
  /\ image[i].proj # 0 <=> image[i].want # 0
  /\ image[i].want # 0 => image[i].want >= MinQuota
  /\ image[i].diff \in {Missing, image[i].proj}
  /\ ~image[i].done => image[i].used = 0
  /\ image[i].done =>
       /\ image[i].info \in Nat
       /\ image[i].diff = image[i].proj
       /\ image[i].want # 0 =>
            /\ image[i].quota = image[i].want
            /\ limit[image[i].proj] = Rounded(image[i].want)
            /\ image[i].used =< limit[image[i].proj]

\* Two commands do not hold one id, and no image is made while another
\* command, having read its id, is about to remove it.
Apart(p, q) ==
  /\ Claims(p) /\ Claims(q) => proc[p].next # proc[q].next
  /\ proc[p].pc = "unlink" /\ proc[q].pc \in MakePC => proc[p].id # proc[q].id

Distinct == \A i, j \in Id : i # j /\ image[i].proj # 0 => image[i].proj # image[j].proj

ProjectInv ==
  /\ \A p \in Process : CommandInv(p)
  /\ \A p, q \in Process : p # q => Apart(p, q)
  /\ \A i \in Id : ImageInv(i)
  /\ Distinct

\* The fields of a command that goes on to x.
Moves(p, x) ==
  /\ proc'[p].pc = x /\ proc'[p].id = proc[p].id /\ proc'[p].next = proc[p].next
  /\ proc'[p].lim = proc[p].lim /\ proc'[p].file = proc[p].file
  /\ \A q \in Process : q # p => proc'[q] = proc[q]

LEMMA SetsMoves ==
  ASSUME Types, NEW p \in Process, NEW x, Sets(p, [proc[p] EXCEPT !.pc = x])
  PROVE  Moves(p, x)
<1>1. /\ proc'[p] = [proc[p] EXCEPT !.pc = x]
      /\ \A q \in Process : q # p => proc'[q] = proc[q]
  BY SetsTypes
<1>2. proc[p] \in ProcType
  BY DEF Types, ProcTypes
<1> QED
  BY <1>1, <1>2 DEF ProcType, Moves

\* A step of p that changes no image, no id and no limit.
LEMMA CommandFrame ==
  ASSUME ProjectInv, NEW p \in Process, UNCHANGED <<image, projectids, limit>>,
         \A q \in Process : q # p => proc'[q] = proc[q],
         CommandInv(p)',
         Claims(p)' => Claims(p) /\ proc'[p].next = proc[p].next,
         proc'[p].pc \in MakePC => proc[p].pc \in MakePC /\ proc'[p].id = proc[p].id,
         proc'[p].pc = "unlink" =>
           \A q \in Process : q # p /\ proc[q].pc \in MakePC => proc'[p].id # proc[q].id
  PROVE  ProjectInv'
<1>1. \A q \in Process : q # p => CommandInv(q)'
  <2> SUFFICES ASSUME NEW q \in Process, q # p
               PROVE  CommandInv(q)'
    OBVIOUS
  <2>1. CommandInv(q) /\ proc'[q] = proc[q]
    BY DEF ProjectInv
  <2> QED
    BY <2>1 DEF CommandInv, Claims, Stage
<1>2. \A i \in Id : ImageInv(i)'
  BY DEF ProjectInv, ImageInv
<1>3. Distinct'
  BY DEF ProjectInv, Distinct
<1>4. ASSUME NEW q \in Process, NEW s \in Process, q # s
      PROVE  Apart(q, s)'
  <2>1. Apart(q, s)
    BY <1>4 DEF ProjectInv
  <2>2. CASE q # p /\ s # p
    BY <2>1, <2>2 DEF Apart, Claims
  <2>3. CASE q = p
    BY <1>4, <2>1, <2>3 DEF Apart, Claims
  <2>4. CASE s = p
    BY <1>4, <2>1, <2>4 DEF Apart, Claims
  <2> QED
    BY <2>2, <2>3, <2>4
<1> QED
  BY <1>1, <1>2, <1>3, <1>4 DEF ProjectInv

\* A step of p that changes the image it makes, and nobody else makes or removes.
LEMMA ImageFrame ==
  ASSUME ProjectInv, NEW p \in Process, p # Missing, NEW i \in Id, UNCHANGED <<projectids, limit>>,
         \A q \in Process : q # p => proc'[q] = proc[q],
         \A j \in Id : j # i => image'[j] = image[j],
         \A q \in Process : q # p /\ proc[q].pc \in MakePC \cup {"unlink"} => proc[q].id # i,
         \A q \in Process : proc[q].pc # "idle" => proc[q].id \in Id,
         image'[i].maker = p,
         image'[i].proj = image[i].proj \/ (Claims(p) /\ image'[i].proj = proc[p].next),
         CommandInv(p)', ImageInv(i)', ~Claims(p)', proc'[p].pc # "unlink",
         proc'[p].pc \in MakePC => proc'[p].id = i
  PROVE  ProjectInv'
<1>1. ASSUME NEW q \in Process, q # p
      PROVE  CommandInv(q)'
  <2>1. CommandInv(q) /\ proc'[q] = proc[q] /\ CommandInv(p)
    BY <1>1 DEF ProjectInv
  <2>2. Claims(q)' => proc'[q].next \in projectids' /\ \A j \in Id : image'[j].proj # proc'[q].next
    <3>1. Claims(p) /\ Claims(q) => proc[p].next # proc[q].next
      BY <1>1 DEF ProjectInv, Apart
    <3> QED
      BY <2>1, <3>1 DEF CommandInv, Claims
  <2>3. CASE proc[q].id # i
    BY <2>1, <2>2, <2>3 DEF CommandInv, Stage, MakePC
  <2>4. CASE proc[q].id = i
    <3>1. proc[q].pc \notin MakePC \cup {"unlink"}
      BY <1>1, <2>4
    <3> QED
      BY <1>1, <2>1, <2>2, <2>4, <3>1 DEF CommandInv, MakePC
  <2> QED
    BY <2>3, <2>4
<1>2. \A j \in Id : j # i => ImageInv(j)'
  BY DEF ProjectInv, ImageInv
<1>3. Distinct'
  <2>1. CommandInv(p)
    BY DEF ProjectInv
  <2> QED
    BY <2>1 DEF ProjectInv, Distinct, CommandInv
<1>4. ASSUME NEW q \in Process, NEW s \in Process, q # s
      PROVE  Apart(q, s)'
  <2>1. Apart(q, s)
    BY <1>4 DEF ProjectInv
  <2>2. CASE q # p /\ s # p
    BY <2>1, <2>2 DEF Apart, Claims
  <2>3. CASE q = p
    BY <2>3 DEF Apart
  <2>4. CASE s = p
    BY <1>4, <2>4 DEF Apart
  <2> QED
    BY <2>2, <2>3, <2>4
<1> QED
  BY <1>1, <1>2, <1>3, <1>4 DEF ProjectInv

\* A step of p that removes an image nobody else works on.
LEMMA RemoveFrame ==
  ASSUME ProjectInv, NEW p \in Process, NEW i \in Id, UNCHANGED <<projectids, limit>>,
         \A q \in Process : q # p => proc'[q] = proc[q],
         image'[i] = NoImage, \A j \in Id : j # i => image'[j] = image[j],
         \A q \in Process : q # p /\ proc[q].pc # "idle" => proc[q].id # i /\ proc[q].id \in Id,
         \/ proc'[p].pc = "idle"
         \/ proc'[p].pc = "freeid" /\ proc'[p].next = image[i].proj
  PROVE  ProjectInv'
<1>0. image'[i].proj = 0
  BY DEF NoImage
<1>1. ASSUME NEW q \in Process, q # p
      PROVE  CommandInv(q)'
  <2>1. CommandInv(q) /\ proc'[q] = proc[q]
    BY <1>1 DEF ProjectInv
  <2>2. proc[q].pc # "idle" => image'[proc[q].id] = image[proc[q].id]
    BY <1>1
  <2>3. Claims(q)' => proc'[q].next \in projectids' /\ \A j \in Id : image'[j].proj # proc'[q].next
    BY <1>0, <2>1 DEF CommandInv, Claims
  <2>4. Stage(proc[q].id, proc[q].pc) /\ proc[q].pc \in MakePC => Stage(proc[q].id, proc[q].pc)'
    BY <2>1, <2>2 DEF Stage, MakePC
  <2> QED
    BY <2>1, <2>2, <2>3, <2>4 DEF CommandInv, MakePC
<1>2. CommandInv(p)'
  <2>1. Claims(p)' => proc'[p].next \in projectids' /\ \A j \in Id : image'[j].proj # proc'[p].next
    BY <1>0 DEF ProjectInv, ImageInv, Distinct, Claims
  <2> QED
    BY <2>1 DEF CommandInv, MakePC
<1>3. \A j \in Id : ImageInv(j)'
  <2>1. ImageInv(i)'
    BY DEF ImageInv, NoImage
  <2> QED
    BY <2>1 DEF ProjectInv, ImageInv
<1>4. Distinct'
  BY <1>0 DEF ProjectInv, Distinct
<1>5. ASSUME NEW q \in Process, NEW s \in Process, q # s
      PROVE  Apart(q, s)'
  <2>1. Apart(q, s) /\ CommandInv(q) /\ CommandInv(s)
    BY <1>5 DEF ProjectInv
  <2>2. CASE q # p /\ s # p
    BY <2>1, <2>2 DEF Apart, Claims
  <2>3. CASE q = p
    BY <1>5, <2>1, <2>3 DEF Apart, Claims, CommandInv
  <2>4. CASE s = p
    BY <1>5, <2>1, <2>4 DEF Apart, Claims, CommandInv, MakePC
  <2> QED
    BY <2>2, <2>3, <2>4
<1> QED
  BY <1>1, <1>2, <1>3, <1>4, <1>5 DEF ProjectInv

\* The steps of a create before it has an id keep the invariant.
LEMMA EarlyProjects ==
  ASSUME Types, ProjectInv, NEW p \in Creators,
         \/ \E i \in Id, s \in DiskSpec : StartCreate(p, i, s)
         \/ GetLowerDirs(p) \/ ApplyDiskLimit(p) \/ Alloc(p)
         \/ CreateFails(p) \/ RunTardisFails(p) \/ TardisFails(p)
  PROVE  ProjectInv'
<1>0. p \in Process /\ p # Missing /\ CommandInv(p)
  BY QuotaAssumption DEF Process, ProjectInv
<1>1. ASSUME NEW i \in Id, NEW s \in DiskSpec, StartCreate(p, i, s)
      PROVE  ProjectInv'
  <2> DEFINE r == [IdleProc EXCEPT !.pc = "mkdir", !.id = i, !.spec = s]
  <2>1. proc'[p] = r /\ \A q \in Process : q # p => proc'[q] = proc[q]
    BY <1>0, <1>1, StartCreateStep, SetsTypes
  <2>2. proc'[p].pc = "mkdir" /\ proc'[p].id = i
    BY <2>1 DEF IdleProc
  <2>3. UNCHANGED <<image, projectids, limit>> /\ image[i].maker # p
    BY <1>0, <1>1 DEF StartCreate, Exists, List
  <2>4. CommandInv(p)' /\ ~Claims(p)'
    BY <2>2, <2>3 DEF CommandInv, Claims, MakePC
  <2> QED
    BY <1>0, <2>1, <2>2, <2>3, <2>4, CommandFrame DEF MakePC
<1>2. ASSUME GetLowerDirs(p) \/ ApplyDiskLimit(p) \/ Alloc(p)
      PROVE  ProjectInv'
  <2>1. UNCHANGED <<image, projectids, limit>>
    BY <1>2 DEF GetLowerDirs, ApplyDiskLimit, Alloc
  <2>2. proc[p].pc \in {"lower", "limit", "alloc"} /\ proc[p] \in ProcType
    BY <1>0, <1>2 DEF GetLowerDirs, ApplyDiskLimit, Alloc, Types, ProcTypes
  <2>3. /\ proc'[p].pc \in {"limit", "getid", "dirs", "alloc", "mkid"} /\ proc'[p].id = proc[p].id
        /\ \A q \in Process : q # p => proc'[q] = proc[q]
    <3>1. CASE GetLowerDirs(p)
      <4>1. PICK ok \in BOOLEAN, size \in Nat :
              Sets(p, [proc[p] EXCEPT !.pc = IF ok THEN "limit" ELSE "getid", !.size = size])
        BY <3>1, LowerStep
      <4>2. /\ proc'[p] = [proc[p] EXCEPT !.pc = IF ok THEN "limit" ELSE "getid", !.size = size]
            /\ \A q \in Process : q # p => proc'[q] = proc[q]
        BY <1>0, <4>1, SetsTypes
      <4> QED
        BY <2>2, <4>2 DEF ProcType
    <3>2. CASE ApplyDiskLimit(p)
      <4>1. PICK pc \in {"getid", "dirs", "alloc"}, l \in Nat : Sets(p, [proc[p] EXCEPT !.pc = pc, !.lim = l])
        BY <3>2, LimitStep
      <4>2. /\ proc'[p] = [proc[p] EXCEPT !.pc = pc, !.lim = l]
            /\ \A q \in Process : q # p => proc'[q] = proc[q]
        BY <1>0, <4>1, SetsTypes
      <4> QED
        BY <2>2, <4>2 DEF ProcType
    <3>3. CASE Alloc(p)
      <4>1. PICK n \in Nat : Sets(p, [proc[p] EXCEPT !.pc = "mkid", !.next = n])
        BY <3>3, AllocStep
      <4>2. /\ proc'[p] = [proc[p] EXCEPT !.pc = "mkid", !.next = n]
            /\ \A q \in Process : q # p => proc'[q] = proc[q]
        BY <1>0, <4>1, SetsTypes
      <4> QED
        BY <2>2, <4>2 DEF ProcType
    <3> QED
      BY <1>2, <3>1, <3>2, <3>3
  <2>4. CommandInv(p)' /\ ~Claims(p)'
    BY <1>0, <2>1, <2>2, <2>3 DEF CommandInv, Claims, Stage, MakePC
  <2> QED
    BY <1>0, <2>1, <2>2, <2>3, <2>4, CommandFrame DEF MakePC
<1>3. ASSUME CreateFails(p) \/ RunTardisFails(p) \/ TardisFails(p)
      PROVE  ProjectInv'
  <2>1. UNCHANGED <<image, projectids, limit>>
    BY <1>3 DEF CreateFails, RunTardisFails, TardisFails
  <2>2. proc[p].pc \in MakePC /\ Moves(p, "getid")
    BY <1>0, <1>3, FailStep, SetsMoves
  <2>3. CommandInv(p)' /\ ~Claims(p)'
    BY <1>0, <2>1, <2>2 DEF CommandInv, Claims, MakePC, Moves
  <2> QED
    BY <1>0, <2>1, <2>2, <2>3, CommandFrame DEF MakePC, Moves
<1> QED
  BY <1>1, <1>2, <1>3

\* The image of a create at work is made, and removed, by no other command.
LEMMA AloneAtWork ==
  ASSUME Types, ProjectInv, NEW p \in Process, proc[p].pc \in MakePC
  PROVE  /\ p # Missing /\ proc[p].id \in Id /\ image[proc[p].id].maker = p
         /\ ~image[proc[p].id].done
         /\ \A q \in Process : q # p /\ proc[q].pc \in MakePC \cup {"unlink"} => proc[q].id # proc[p].id
         /\ \A q \in Process : proc[q].pc # "idle" => proc[q].id \in Id
<1>1. \A q \in Process : proc[q].pc # "idle" => proc[q].id \in Id
  BY DEF Types, ProcTypes, ProcOK
<1>2. image[proc[p].id].maker = p /\ ~image[proc[p].id].done /\ p # Missing
  BY QuotaAssumption DEF ProjectInv, CommandInv
<1>3. \A q \in Process : q # p /\ proc[q].pc \in MakePC => proc[q].id # proc[p].id
  BY <1>2 DEF ProjectInv, CommandInv
<1>4. \A q \in Process : q # p /\ proc[q].pc = "unlink" => proc[q].id # proc[p].id
  BY DEF ProjectInv, Apart
<1> QED
  BY <1>1, <1>2, <1>3, <1>4 DEF MakePC

\* Making the directory of the image.
LEMMA MkdirProjects ==
  ASSUME Types, ProjectInv, NEW p \in Creators, MkdirImage(p)
  PROVE  ProjectInv'
<1>a. PICK i \in Id : i = proc[p].id
  BY MkdirStep
<1>0. p \in Process /\ p # Missing /\ CommandInv(p) /\ proc[p].pc = "mkdir" /\ i \in Id
  BY <1>a, QuotaAssumption, MkdirStep DEF Process, ProjectInv, MkdirImage
<1>1. UNCHANGED <<projectids, limit>>
  BY DEF MkdirImage
<1>2. CASE image[i].maker # Missing
  <2>1. Moves(p, "getid") /\ UNCHANGED image
    BY <1>a, <1>0, <1>2, MkdirStep, SetsMoves
  <2>2. CommandInv(p)' /\ ~Claims(p)'
    BY <1>a, <1>0, <1>2, <2>1 DEF CommandInv, Claims, MakePC, Moves
  <2> QED
    BY <1>0, <1>1, <2>1, <2>2, CommandFrame DEF MakePC, Moves
<1>3. CASE image[i].maker = Missing
  <2>1. Moves(p, "lower")
    BY <1>a, <1>0, <1>3, MkdirStep, SetsMoves
  <2>2. /\ image'[i] = [NoImage EXCEPT !.maker = p, !.base = proc[p].spec.base]
        /\ \A j \in Id : j # i => image'[j] = image[j]
    BY <1>a, <1>0, <1>3, MkdirStep, PutsTypes
  <2>3. /\ image'[i].maker = p /\ image'[i].done = FALSE /\ image'[i].proj = 0 /\ image'[i].want = 0
        /\ image'[i].quota = Missing /\ image'[i].diff = Missing /\ image'[i].used = 0
    BY <2>2 DEF NoImage
  <2>4. \A q \in Process : proc[q].pc # "idle" => proc[q].id \in Id
    BY DEF Types, ProcTypes, ProcOK
  <2>5. \A q \in Process : q # p /\ proc[q].pc \in MakePC \cup {"unlink"} => proc[q].id # i
    <3>1. \A q \in Process : proc[q].pc \in MakePC \cup {"unlink"} => image[proc[q].id].maker # Missing
      BY QuotaAssumption DEF ProjectInv, CommandInv
    <3> QED
      BY <1>a, <1>3, <3>1
  <2>6. image[i].proj = 0
    BY <1>0, <1>3 DEF Types, ImageTypes, NoImage
  <2>7. CommandInv(p)' /\ ~Claims(p)'
    BY <1>a, <1>0, <2>1, <2>3 DEF CommandInv, Claims, Stage, MakePC, Moves
  <2>8. ImageInv(i)'
    BY <2>3 DEF ImageInv
  <2> QED
    BY <1>a, <1>0, <1>1, <2>1, <2>2, <2>3, <2>4, <2>5, <2>6, <2>7, <2>8, ImageFrame DEF Moves
<1> QED
  BY <1>2, <1>3

\* Taking an id: nobody has it, as its directory was not there.
LEMMA MkidProjects ==
  ASSUME Types, ProjectInv, NEW p \in Creators, UntilSucceeds(p)
  PROVE  ProjectInv'
<1>0. /\ p \in Process /\ CommandInv(p) /\ proc[p].pc = "mkid" /\ proc[p] \in ProcType
      /\ UNCHANGED <<image, limit>> /\ proc[p].next \in ProjID
  BY MkidStep DEF Process, ProjectInv, UntilSucceeds, Types, ProcTypes
<1>1. CASE proc[p].next \in projectids
  <2>1. UNCHANGED projectids
    BY <1>1, MkidStep
  <2>2. /\ proc'[p] = [proc[p] EXCEPT !.next = proc[p].next + 1]
        /\ \A q \in Process : q # p => proc'[q] = proc[q]
    BY <1>0, <1>1, MkidStep, SetsTypes
  <2>3. proc'[p].pc = "mkid" /\ proc'[p].id = proc[p].id
    BY <1>0, <2>2 DEF ProcType
  <2>4. CommandInv(p)' /\ ~Claims(p)'
    BY <1>0, <2>1, <2>3 DEF CommandInv, Claims, Stage, MakePC
  <2> QED
    BY <1>0, <2>1, <2>2, <2>3, <2>4, CommandFrame DEF MakePC
<1>2. CASE proc[p].next \notin projectids
  <2>1. Moves(p, "setid") /\ projectids' = projectids \cup {proc[p].next}
    BY <1>0, <1>2, MkidStep, SetsMoves
  <2>2. \A j \in Id : image[j].proj # proc[p].next
    <3>1. proc[p].next # 0
      BY <1>0 DEF ProjID
    <3> QED
      BY <1>2, <3>1 DEF ProjectInv, ImageInv
  <2>3. CommandInv(p)'
    BY <1>0, <2>1, <2>2 DEF CommandInv, Claims, Stage, MakePC, Moves
  <2>4. \A q \in Process : q # p => CommandInv(q)'
    <3> SUFFICES ASSUME NEW q \in Process, q # p
                 PROVE  CommandInv(q)'
      OBVIOUS
    <3>1. CommandInv(q) /\ proc'[q] = proc[q]
      BY <2>1 DEF ProjectInv, Moves
    <3> QED
      BY <1>0, <2>1, <3>1 DEF CommandInv, Claims, Stage
  <2>5. \A i \in Id : ImageInv(i)'
    BY <1>0, <2>1 DEF ProjectInv, ImageInv
  <2>6. Distinct'
    BY <1>0 DEF ProjectInv, Distinct
  <2>7. ASSUME NEW q \in Process, NEW s \in Process, q # s
        PROVE  Apart(q, s)'
    <3>1. Apart(q, s) /\ CommandInv(q) /\ CommandInv(s)
      BY <2>7 DEF ProjectInv
    <3>2. CASE q # p /\ s # p
      BY <2>1, <3>1, <3>2 DEF Apart, Claims, Moves
    <3>3. CASE q = p
      BY <1>2, <2>1, <2>7, <3>1, <3>3 DEF Apart, Claims, CommandInv, Moves
    <3>4. CASE s = p
      BY <1>0, <1>2, <2>1, <2>7, <3>1, <3>4 DEF Apart, Claims, CommandInv, Moves, MakePC
    <3> QED
      BY <3>2, <3>3, <3>4
  <2> QED
    BY <2>3, <2>4, <2>5, <2>6, <2>7 DEF ProjectInv
<1> QED
  BY <1>1, <1>2

\* Giving the id to the image.
LEMMA SetidProjects ==
  ASSUME Types, ProjectInv, NEW p \in Creators, SetProjectID(p)
  PROVE  ProjectInv'
<1>a. PICK i \in Id : i = proc[p].id
  BY SetidStep
<1>0. /\ p \in Process /\ CommandInv(p) /\ proc[p].pc = "setid"
      /\ UNCHANGED <<projectids, limit>>
  BY DEF Process, ProjectInv, SetProjectID
<1>1. /\ p # Missing /\ i \in Id /\ image[i].maker = p /\ ~image[i].done
      /\ \A q \in Process : q # p /\ proc[q].pc \in MakePC \cup {"unlink"} => proc[q].id # i
      /\ \A q \in Process : proc[q].pc # "idle" => proc[q].id \in Id
  BY <1>a, <1>0, AloneAtWork DEF MakePC
<1>2. proc[p].next \in ProjID /\ proc[p].lim >= MinQuota /\ proc[p].lim \in Nat
  BY SetidStep
<1>3. Moves(p, "setlimit")
  BY <1>a, <1>0, <1>1, SetidStep, SetsMoves
<1>4. /\ image'[i] = [image[i] EXCEPT !.proj = proc[p].next, !.want = proc[p].lim]
      /\ \A j \in Id : j # i => image'[j] = image[j]
  BY <1>a, <1>1, SetidStep, PutsTypes
<1>5. /\ image'[i].maker = p /\ ~image'[i].done /\ image'[i].proj = proc[p].next
      /\ image'[i].want = proc[p].lim /\ image'[i].diff = image[i].diff /\ image'[i].used = image[i].used
  BY <1>a, <1>1, <1>4 DEF Types, ImageTypes, ImageType
<1>6. proc[p].next # 0 /\ proc[p].lim # 0
  BY <1>2, QuotaAssumption DEF ProjID
<1>7. Claims(p) /\ image[i].diff = Missing /\ image[i].used = 0
  BY <1>a, <1>0, <1>1, <1>6 DEF Claims, CommandInv, Stage, MakePC, ProjectInv, ImageInv
<1>8. CommandInv(p)' /\ ~Claims(p)'
  BY <1>a, <1>1, <1>3, <1>5, <1>6, <1>7 DEF CommandInv, Claims, Stage, MakePC, Moves
<1>9. ImageInv(i)'
  BY <1>a, <1>0, <1>2, <1>5, <1>6, <1>7 DEF ImageInv, CommandInv
<1> QED
  BY <1>a, <1>0, <1>1, <1>3, <1>4, <1>5, <1>7, <1>8, <1>9, ImageFrame DEF Moves

\* Setting the limit of the id, which no other image has.
LEMMA SetlimitProjects ==
  ASSUME Types, ProjectInv, NEW p \in Creators, SetLimit(p)
  PROVE  ProjectInv'
<1>a. PICK i \in Id : i = proc[p].id
  BY SetlimitStep
<1>0. /\ p \in Process /\ CommandInv(p) /\ proc[p].pc = "setlimit"
      /\ UNCHANGED <<projectids, image>> /\ proc[p].next \in ProjID
  BY SetlimitStep DEF Process, ProjectInv, SetLimit
<1>1. /\ p # Missing /\ image[i].maker = p /\ ~image[i].done
      /\ \A q \in Process : q # p /\ proc[q].pc \in MakePC \cup {"unlink"} => proc[q].id # i
      /\ \A q \in Process : proc[q].pc # "idle" => proc[q].id \in Id
  BY <1>a, <1>0, AloneAtWork DEF MakePC
<1>2. CASE ~DeviceFound
  <2>1. Moves(p, "getid") /\ UNCHANGED limit
    BY <1>0, <1>2, SetlimitStep, SetsMoves
  <2>2. CommandInv(p)' /\ ~Claims(p)'
    BY <1>a, <1>0, <1>1, <2>1 DEF CommandInv, Claims, MakePC, Moves
  <2> QED
    BY <1>0, <2>1, <2>2, CommandFrame DEF MakePC, Moves
<1>3. CASE DeviceFound
  <2>1. Moves(p, "openquota") /\ limit' = [limit EXCEPT ![proc[p].next] = Rounded(proc[p].lim)]
    BY <1>0, <1>3, SetlimitStep, SetsMoves
  <2>2. /\ limit'[proc[p].next] = Rounded(proc[p].lim)
        /\ \A n : n # proc[p].next => limit'[n] = limit[n]
    BY <1>0, <2>1 DEF Types, StoreTypes
  <2>3. image[i].proj = proc[p].next /\ image[i].want = proc[p].lim /\ image[i].proj # 0 /\ Stage(i, "setlimit")
    BY <1>a, <1>0 DEF CommandInv, Stage, MakePC
  <2>4. \A j \in Id : j # i => limit'[image[j].proj] = limit[image[j].proj]
    BY <2>2, <2>3 DEF ProjectInv, Distinct
  <2>5. CommandInv(p)' /\ ~Claims(p)'
    BY <1>a, <1>0, <1>1, <2>1, <2>2, <2>3 DEF CommandInv, Claims, Stage, MakePC, Moves
  <2>6. ASSUME NEW q \in Process, q # p
        PROVE  CommandInv(q)'
    <3>1. CommandInv(q) /\ proc'[q] = proc[q]
      BY <2>1, <2>6 DEF ProjectInv, Moves
    <3>2. proc[q].pc \in MakePC => proc[q].id \in Id /\ proc[q].id # i
      BY <1>1, <2>6 DEF MakePC
    <3>3. proc[q].pc \in MakePC => Stage(proc[q].id, proc[q].pc)'
      BY <1>0, <2>4, <3>1, <3>2 DEF CommandInv, Stage
    <3> QED
      BY <1>0, <3>1, <3>3 DEF CommandInv, Claims
  <2>7. \A j \in Id : ImageInv(j)'
    <3>1. ImageInv(i)'
      BY <1>0, <1>1 DEF ProjectInv, ImageInv
    <3> QED
      BY <1>0, <2>4, <3>1 DEF ProjectInv, ImageInv
  <2>8. Distinct'
    BY <1>0 DEF ProjectInv, Distinct
  <2>9. \A q, s \in Process : q # s => Apart(q, s)'
    BY <1>0, <2>1 DEF ProjectInv, Apart, Claims, Moves, MakePC
  <2> QED
    BY <2>5, <2>6, <2>7, <2>8, <2>9 DEF ProjectInv
<1> QED
  BY <1>2, <1>3

\* The steps that go on with the image of a create, which has its id.
LEMMA LateProjects ==
  ASSUME Types, ProjectInv, NEW p \in Creators,
         OpenQuotaFile(p) \/ WriteQuotaFile(p) \/ CreateImageDirectories(p) \/ WriteImageInfo(p)
  PROVE  ProjectInv'
<1>a. PICK i \in Id : i = proc[p].id
  BY OpenStep, WriteStep, DirsStep, InfoStep
<1>0. /\ p \in Process /\ CommandInv(p) /\ proc[p].pc \in {"openquota", "writequota", "dirs", "info"}
      /\ UNCHANGED <<projectids, limit>> /\ proc[p] \in ProcType /\ image[i] \in ImageType
  BY DEF Process, ProjectInv, OpenQuotaFile, WriteQuotaFile, CreateImageDirectories, WriteImageInfo,
         Types, ProcTypes, ImageTypes
<1>1. /\ p # Missing /\ image[i].maker = p /\ ~image[i].done
      /\ \A q \in Process : q # p /\ proc[q].pc \in MakePC \cup {"unlink"} => proc[q].id # i
      /\ \A q \in Process : proc[q].pc # "idle" => proc[q].id \in Id
  BY <1>a, <1>0, AloneAtWork DEF MakePC
<1>2. ImageInv(i) /\ Stage(i, proc[p].pc)
  BY <1>a, <1>0 DEF ProjectInv, CommandInv, MakePC
<1>3. CASE OpenQuotaFile(p)
  <2>1. /\ proc'[p] = [proc[p] EXCEPT !.pc = "writequota", !.file = image[i].maker]
        /\ \A q \in Process : q # p => proc'[q] = proc[q]
    BY <1>a, <1>0, <1>1, <1>3, OpenStep, SetsTypes
  <2>2. image'[i] = [image[i] EXCEPT !.quota = Torn] /\ \A j \in Id : j # i => image'[j] = image[j]
    BY <1>a, <1>1, <1>3, OpenStep, PutsTypes
  <2>3. /\ proc'[p].pc = "writequota" /\ proc'[p].id = i /\ proc'[p].lim = proc[p].lim /\ proc'[p].file = p
    BY <1>a, <1>0, <1>1, <2>1 DEF ProcType
  <2>4. /\ image'[i].maker = p /\ ~image'[i].done /\ image'[i].proj = image[i].proj
        /\ image'[i].want = image[i].want /\ image'[i].diff = image[i].diff /\ image'[i].used = image[i].used
    BY <1>0, <1>1, <2>2 DEF ImageType
  <2>5. CommandInv(p)' /\ ~Claims(p)'
    <3>1. proc[p].pc = "openquota"
      BY <1>3 DEF OpenQuotaFile
    <3> QED
      BY <1>a, <1>0, <1>2, <2>3, <2>4, <3>1 DEF CommandInv, Claims, Stage, MakePC
  <2>6. ImageInv(i)'
    BY <1>0, <1>1, <1>2, <2>4 DEF ImageInv
  <2> QED
    BY <1>0, <1>1, <2>1, <2>2, <2>3, <2>4, <2>5, <2>6, ImageFrame
<1>4. CASE WriteQuotaFile(p)
  <2>0. proc[p].pc = "writequota" /\ proc[p].file = p
    BY <1>0, <1>4 DEF WriteQuotaFile, CommandInv
  <2>1. Moves(p, "dirs")
    BY <1>0, <1>4, WriteStep, SetsMoves
  <2>2. /\ image'[i] = [image[i] EXCEPT !.quota = proc[p].lim]
        /\ \A j \in Id : j # i => image'[j] = image[j]
    BY <1>a, <1>1, <1>4, <2>0, WriteStep, PutsTypes
  <2>3. /\ image'[i].maker = p /\ ~image'[i].done /\ image'[i].proj = image[i].proj
        /\ image'[i].want = image[i].want /\ image'[i].diff = image[i].diff /\ image'[i].used = image[i].used
        /\ image'[i].quota = proc[p].lim
    BY <1>0, <1>1, <2>2 DEF ImageType
  <2>4. CommandInv(p)' /\ ~Claims(p)'
    BY <1>a, <1>0, <1>2, <2>0, <2>1, <2>3 DEF CommandInv, Claims, Stage, MakePC, Moves
  <2>5. ImageInv(i)'
    BY <1>0, <1>1, <1>2, <2>3 DEF ImageInv
  <2> QED
    BY <1>a, <1>0, <1>1, <2>1, <2>2, <2>3, <2>4, <2>5, ImageFrame DEF Moves
<1>5. CASE CreateImageDirectories(p)
  <2>0. proc[p].pc = "dirs" /\ image[i].diff = Missing
    BY <1>0, <1>2, <1>5 DEF CreateImageDirectories, Stage, MakePC
  <2>1. Moves(p, "info")
    BY <1>a, <1>0, <1>1, <1>5, <2>0, DirsStep, SetsMoves
  <2>2. /\ image'[i] = [image[i] EXCEPT !.diff = image[i].proj]
        /\ \A j \in Id : j # i => image'[j] = image[j]
    BY <1>a, <1>1, <1>5, <2>0, DirsStep, PutsTypes
  <2>3. /\ image'[i].maker = p /\ ~image'[i].done /\ image'[i].proj = image[i].proj
        /\ image'[i].want = image[i].want /\ image'[i].diff = image[i].proj /\ image'[i].used = image[i].used
        /\ image'[i].quota = image[i].quota
    BY <1>0, <1>1, <2>2 DEF ImageType
  <2>4. CommandInv(p)' /\ ~Claims(p)'
    BY <1>a, <1>0, <1>2, <2>0, <2>1, <2>3 DEF CommandInv, Claims, Stage, MakePC, Moves
  <2>5. ImageInv(i)'
    BY <1>0, <1>1, <1>2, <2>3 DEF ImageInv
  <2> QED
    BY <1>a, <1>0, <1>1, <2>1, <2>2, <2>3, <2>4, <2>5, ImageFrame DEF Moves
<1>6. CASE WriteImageInfo(p)
  <2>0. proc[p].pc = "info" /\ proc[p].size \in Nat
    BY <1>0, <1>6 DEF WriteImageInfo, ProcType
  <2>1. proc'[p] = IdleProc /\ \A q \in Process : q # p => proc'[q] = proc[q]
    <3>1. Sets(p, IdleProc)
      BY <1>a, <1>1, <1>6, InfoStep
    <3> QED
      BY <1>0, <3>1, SetsTypes
  <2>2. /\ image'[i] = [image[i] EXCEPT !.info = proc[p].size, !.done = TRUE]
        /\ \A j \in Id : j # i => image'[j] = image[j]
    BY <1>a, <1>1, <1>6, InfoStep, PutsTypes
  <2>3. /\ image'[i].maker = p /\ image'[i].done /\ image'[i].proj = image[i].proj
        /\ image'[i].want = image[i].want /\ image'[i].diff = image[i].diff /\ image'[i].used = image[i].used
        /\ image'[i].quota = image[i].quota /\ image'[i].info = proc[p].size
    BY <1>0, <1>1, <2>2 DEF ImageType
  <2>4. proc'[p].pc = "idle" /\ CommandInv(p)' /\ ~Claims(p)'
    <3>1. proc'[p].pc = "idle"
      BY <2>1 DEF IdleProc
    <3> QED
      BY <3>1 DEF CommandInv, Claims, MakePC
  <2>5. ImageInv(i)'
    <3>1. image[i].proj # 0 => limit[image[i].proj] \in Nat
      BY <1>0 DEF Types, StoreTypes, ImageType
    <3> QED
      BY <1>0, <1>1, <1>2, <2>0, <2>3, <3>1 DEF ImageInv, Stage
  <2> QED
    BY <1>0, <1>1, <2>1, <2>2, <2>3, <2>4, <2>5, ImageFrame DEF MakePC
<1> QED
  BY <1>3, <1>4, <1>5, <1>6

\* The steps of destroying an image keep the invariant, unless another
\* command is at work on it.
LEMMA DestroyProjects ==
  ASSUME Types, ProjectInv, NEW p \in Process, ~raced',
         \/ p \in Deleters /\ \E i \in Id : StartDelete(p, i)
         \/ DestroyImage(p) \/ Kill(p)
         \/ p \in Creators /\ PurgeImage(p)
  PROVE  ProjectInv'
<1>0. /\ CommandInv(p) /\ proc[p] \in ProcType
      /\ \A q \in Process : proc[q].pc # "idle" => proc[q].id \in Id
  BY DEF ProjectInv, Types, ProcTypes, ProcOK
<1>1. ASSUME p \in Deleters, NEW i \in Id, StartDelete(p, i)
      PROVE  ProjectInv'
  <2>1. image[i].maker # Missing /\ UNCHANGED <<image, projectids, limit>>
    BY <1>1, StartDeleteStep DEF StartDelete
  <2>2. /\ proc'[p] = [IdleProc EXCEPT !.pc = "getid", !.id = i]
        /\ \A q \in Process : q # p => proc'[q] = proc[q]
    BY <1>1, StartDeleteStep, SetsTypes
  <2>3. proc'[p].pc = "getid" /\ proc'[p].id = i
    BY <2>2 DEF IdleProc
  <2>4. CommandInv(p)' /\ ~Claims(p)'
    BY <2>1, <2>3 DEF CommandInv, Claims, MakePC
  <2> QED
    BY <2>1, <2>2, <2>3, <2>4, CommandFrame DEF MakePC
<1>2. ASSUME GetProjectID(p)
      PROVE  ProjectInv'
  <2>1. /\ proc[p].pc = "getid" /\ ~Interferes(p) /\ UNCHANGED <<image, projectids, limit>>
    BY <1>2 DEF GetProjectID
  <2>2. /\ proc'[p] = [proc[p] EXCEPT !.pc = "unlink", !.next = image[proc[p].id].proj]
        /\ \A q \in Process : q # p => proc'[q] = proc[q]
    BY <1>2, GetidStep, SetsTypes
  <2>3. proc'[p].pc = "unlink" /\ proc'[p].id = proc[p].id /\ proc'[p].next = image[proc[p].id].proj
    BY <1>0, <2>2 DEF ProcType
  <2>4. CommandInv(p)' /\ ~Claims(p)'
    BY <1>0, <2>1, <2>3 DEF CommandInv, Claims, MakePC
  <2>5. \A q \in Process : q # p /\ proc[q].pc \in MakePC => proc[p].id # proc[q].id
    BY <2>1 DEF Interferes, MakePC
  <2> QED
    BY <2>1, <2>2, <2>3, <2>4, <2>5, CommandFrame DEF MakePC
<1>3. ASSUME RemoveImage(p)
      PROVE  ProjectInv'
  <2>a. PICK i \in Id : i = proc[p].id
    BY <1>3, RemoveStep
  <2>1. proc[p].pc = "unlink" /\ ~Interferes(p) /\ UNCHANGED <<projectids, limit>>
    BY <1>3 DEF RemoveImage
  <2>2. Moves(p, "freeid")
    BY <1>3, RemoveStep, SetsMoves
  <2>3. image'[i] = NoImage /\ \A j \in Id : j # i => image'[j] = image[j]
    BY <1>3, <2>a, RemoveStep, PutsTypes
  <2>4. \A q \in Process : q # p /\ proc[q].pc # "idle" => proc[q].id # i /\ proc[q].id \in Id
    BY <1>0, <2>a, <2>1 DEF Interferes
  <2>5. proc'[p].pc = "freeid" /\ proc'[p].next = image[i].proj
    BY <1>0, <2>a, <2>1, <2>2 DEF Moves, CommandInv
  <2> QED
    BY <2>1, <2>2, <2>3, <2>4, <2>5, RemoveFrame DEF Moves
<1>4. ASSUME PurgeImage(p), p \in Creators
      PROVE  ProjectInv'
  <2>a. PICK i \in Id : i = proc[p].id
    BY <1>4, PurgeStep
  <2>1. ~Interferes(p) /\ UNCHANGED <<projectids, limit>>
    BY <1>4 DEF PurgeImage
  <2>2. proc'[p] = IdleProc /\ \A q \in Process : q # p => proc'[q] = proc[q]
    BY <1>4, PurgeStep, SetsTypes
  <2>3. image'[i] = NoImage /\ \A j \in Id : j # i => image'[j] = image[j]
    BY <1>4, <2>a, PurgeStep, PutsTypes
  <2>4. \A q \in Process : q # p /\ proc[q].pc # "idle" => proc[q].id # i /\ proc[q].id \in Id
    BY <1>0, <2>a, <2>1 DEF Interferes
  <2>5. proc'[p].pc = "idle"
    BY <2>2 DEF IdleProc
  <2> QED
    BY <2>1, <2>2, <2>3, <2>4, <2>5, RemoveFrame
<1>5. ASSUME Kill(p)
      PROVE  ProjectInv'
  <2>1. UNCHANGED <<image, projectids, limit>>
    BY <1>5 DEF Kill
  <2>2. proc'[p] = IdleProc /\ \A q \in Process : q # p => proc'[q] = proc[q]
    BY <1>5, KillStep, SetsTypes
  <2>3. proc'[p].pc = "idle"
    BY <2>2 DEF IdleProc
  <2>4. CommandInv(p)' /\ ~Claims(p)'
    BY <2>3 DEF CommandInv, Claims, MakePC
  <2> QED
    BY <2>1, <2>2, <2>3, <2>4, CommandFrame DEF MakePC
<1>6. ASSUME RemoveImageFails(p) \/ FreeProjectID(p)
      PROVE  ProjectInv'
  <2>1. UNCHANGED <<image, limit>>
    BY <1>6 DEF RemoveImageFails, FreeProjectID
  <2>2. /\ proc'[p].pc \in {"idle", "purge"}
        /\ \A q \in Process : q # p => proc'[q] = proc[q]
    <3>1. CASE Sets(p, IdleProc)
      BY <3>1, SetsTypes DEF IdleProc
    <3>2. CASE Sets(p, [proc[p] EXCEPT !.pc = "purge"])
      BY <3>2, SetsMoves DEF Moves
    <3> QED
      BY <1>6, <3>1, <3>2, EndDestroyStep
  <2>3. CommandInv(p)' /\ ~Claims(p)'
    BY <2>2 DEF CommandInv, Claims, MakePC
  <2>4. CASE UNCHANGED projectids
    BY <2>1, <2>2, <2>3, <2>4, CommandFrame DEF MakePC
  <2>5. CASE projectids' # projectids
    <3>1. projectids' = projectids \ {proc[p].next} /\ proc[p].pc = "freeid" /\ proc[p].next \in projectids
      BY <1>6, <2>5 DEF RemoveImageFails, FreeProjectID
    <3>2. proc[p].next # 0
      BY <3>1 DEF Types, StoreTypes, ProjID
    <3>3. Claims(p) /\ \A j \in Id : image[j].proj # proc[p].next
      BY <1>0, <3>1, <3>2 DEF CommandInv, Claims
    <3>4. ASSUME NEW q \in Process, q # p
          PROVE  CommandInv(q)'
      <4>1. CommandInv(q) /\ proc'[q] = proc[q] /\ Apart(p, q)
        BY <2>2, <3>4 DEF ProjectInv
      <4>2. Claims(q) => proc[q].next \in projectids'
        BY <3>1, <3>3, <4>1 DEF CommandInv, Apart
      <4> QED
        BY <2>1, <4>1, <4>2 DEF CommandInv, Claims, Stage
    <3>5. \A j \in Id : ImageInv(j)'
      BY <2>1, <3>1, <3>3 DEF ProjectInv, ImageInv
    <3>6. Distinct'
      BY <2>1 DEF ProjectInv, Distinct
    <3>7. \A q, s \in Process : q # s => Apart(q, s)'
      BY <2>2 DEF ProjectInv, Apart, Claims, MakePC
    <3> QED
      BY <2>3, <3>4, <3>5, <3>6, <3>7 DEF ProjectInv
  <2> QED
    BY <2>4, <2>5
<1> QED
  BY <1>1, <1>2, <1>3, <1>4, <1>5, <1>6 DEF DestroyImage

\* What a project's blocks add up to is no less than those of one of its images.
LEMMA UsageIncludes ==
  ASSUME Types, NEW i \in Id, image[i].maker # Missing
  PROVE  Usage(image[i].diff) >= image[i].used
<1> DEFINE f == [j \in Id |-> image[j].used]
           n == image[i].diff
           S == {j \in List : image[j].diff = n}
<1>1. IsFiniteSet(S) /\ S \subseteq Id /\ i \in S
  BY QuotaAssumption, FS_Subset DEF List
<1>2. \A j \in S : f[j] \in Nat
  BY <1>1, QuotaAssumption DEF Types, ImageTypes, ImageType
<1>3. \A j \in S : f[j] \in Int
  BY <1>2
<1>4. SumFunctionOnSet(f, S) = f[i] + SumFunctionOnSet(f, S \ {i})
  BY <1>1, <1>3, SumRemove
<1>5. SumFunctionOnSet(f, S \ {i}) \in Nat
  <2>1. IsFiniteSet(S \ {i})
    BY <1>1, FS_Subset
  <2>2. \A j \in S \ {i} : f[j] \in Nat
    BY <1>2
  <2> QED
    BY <2>1, <2>2, SumPositive
<1>6. Usage(n) = SumFunctionOnSet(f, S) /\ f[i] = image[i].used /\ f[i] \in Nat
  BY <1>1, <1>2 DEF Usage
<1> HIDE DEF f, S, n
<1>7. Usage(n) >= image[i].used
  BY <1>4, <1>5, <1>6
<1> QED
  BY <1>7 DEF n

\* A container writes no more than the limit of its own image.
LEMMA WritesProjects ==
  ASSUME Types, ProjectInv, NEW i \in Id, ContainerWrites(i)
  PROVE  ProjectInv'
<1>1. /\ image[i].done /\ image[i].diff \in ProjID /\ image[i] \in ImageType
      /\ UNCHANGED <<projectids, limit, proc>>
      /\ limit[image[i].diff] # 0 => Usage(image[i].diff) + BlockSize <= limit[image[i].diff]
  BY DEF ContainerWrites, Types, ImageTypes
<1>2. /\ image'[i] = [image[i] EXCEPT !.used = image[i].used + BlockSize]
      /\ \A j \in Id : j # i => image'[j] = image[j]
  BY WritesStep, PutsTypes
<1>3. /\ image'[i].used = image[i].used + BlockSize /\ image'[i].maker = image[i].maker
      /\ image'[i].done = image[i].done /\ image'[i].proj = image[i].proj /\ image'[i].want = image[i].want
      /\ image'[i].quota = image[i].quota /\ image'[i].diff = image[i].diff /\ image'[i].info = image[i].info
  BY <1>1, <1>2 DEF ImageType
<1>4. ImageInv(i) /\ image[i].proj = image[i].diff /\ image[i].proj # 0 /\ image[i].want # 0
  BY <1>1 DEF ProjectInv, ImageInv, ProjID
<1>5. image[i].maker # Missing
  BY <1>1 DEF Types, ImageTypes, NoImage
<1>6. image'[i].used =< limit[image[i].proj]
  <2>1. limit[image[i].proj] # 0 /\ limit[image[i].proj] \in Nat
    <3>1. image[i].want \in Nat /\ image[i].want >= BlockSize
      BY <1>1, <1>4, QuotaAssumption DEF ImageType, ImageInv
    <3>2. Rounded(image[i].want) # 0
      BY <3>1, RoundedTo
    <3> QED
      BY <1>1, <1>4, <3>2 DEF ImageInv, Types, StoreTypes
  <2>2. Usage(image[i].diff) \in Nat /\ Usage(image[i].diff) >= image[i].used
    BY <1>5, UsageType, UsageIncludes
  <2>3. image[i].used \in Nat /\ BlockSize \in Nat
    BY <1>1, QuotaAssumption DEF ImageType
  <2> QED
    BY <1>1, <1>3, <1>4, <2>1, <2>2, <2>3
<1>7. ImageInv(i)'
  BY <1>1, <1>3, <1>4, <1>6 DEF ImageInv
<1>8. \A j \in Id : ImageInv(j)'
  BY <1>1, <1>2, <1>7 DEF ProjectInv, ImageInv
<1>9. \A j \in Id : /\ image'[j].maker = image[j].maker /\ image'[j].done = image[j].done
                    /\ image'[j].proj = image[j].proj /\ image'[j].want = image[j].want
                    /\ image'[j].quota = image[j].quota /\ image'[j].diff = image[j].diff
  BY <1>2, <1>3
<1>10. \A q \in Process : CommandInv(q)'
  <2> SUFFICES ASSUME NEW q \in Process
               PROVE  CommandInv(q)'
    OBVIOUS
  <2>1. CommandInv(q) /\ proc'[q] = proc[q] /\ (proc[q].pc # "idle" => proc[q].id \in Id)
    BY <1>1 DEF ProjectInv, Types, ProcTypes, ProcOK
  <2>2. proc[q].pc \in MakePC => Stage(proc[q].id, proc[q].pc)'
    BY <1>1, <1>9, <2>1 DEF CommandInv, Stage, MakePC
  <2> QED
    BY <1>1, <1>9, <2>1, <2>2 DEF CommandInv, Claims, MakePC
<1>11. Distinct'
  BY <1>9 DEF ProjectInv, Distinct
<1>12. \A q, s \in Process : q # s => Apart(q, s)'
  BY <1>1 DEF ProjectInv, Apart, Claims
<1> QED
  BY <1>8, <1>10, <1>11, <1>12 DEF ProjectInv

\* Nothing else has to do with projects.
LEMMA OtherProjects ==
  ASSUME ProjectInv, UNCHANGED <<projectids, limit, image, proc>>
  PROVE  ProjectInv'
<1>1. \A p \in Process : CommandInv(p)'
  BY DEF ProjectInv, CommandInv, Claims, Stage
<1>2. \A i \in Id : ImageInv(i)'
  BY DEF ProjectInv, ImageInv
<1>3. Distinct'
  BY DEF ProjectInv, Distinct
<1>4. \A p, q \in Process : p # q => Apart(p, q)'
  BY DEF ProjectInv, Apart, Claims
<1> QED
  BY <1>1, <1>2, <1>3, <1>4 DEF ProjectInv

LEMMA RestartProjects ==
  ASSUME ProjectInv, Restart
  PROVE  ProjectInv'
<1>0. UNCHANGED <<projectids, limit, image>> /\ \A p \in Process : proc'[p].pc = "idle"
  BY DEF Restart, IdleProc
<1>1. \A p \in Process : CommandInv(p)'
  BY <1>0 DEF CommandInv, Claims, MakePC
<1>2. \A i \in Id : ImageInv(i)'
  BY <1>0 DEF ProjectInv, ImageInv
<1>3. Distinct'
  BY <1>0 DEF ProjectInv, Distinct
<1>4. \A p, q \in Process : p # q => Apart(p, q)'
  BY <1>0 DEF Apart, Claims
<1> QED
  BY <1>1, <1>2, <1>3, <1>4 DEF ProjectInv

\* raced is never taken back.
LEMMA RacedStays ==
  ASSUME Next, ~raced'
  PROVE  ~raced
<1>1. CASE \E p \in Creators : Create(p)
  BY <1>1 DEF Create, CreateImage, Limit, StartCreate, MkdirImage, GetLowerDirs, ApplyDiskLimit, Alloc, UntilSucceeds,
     SetProjectID, SetLimit, OpenQuotaFile, WriteQuotaFile, CreateImageDirectories, WriteImageInfo,
     CreateFails, RunTardisFails, TardisFails, PurgeImage
<1>2. CASE \E p \in Deleters, i \in Id : StartDelete(p, i)
  BY <1>2 DEF StartDelete
<1>3. CASE \E p \in Process : DestroyImage(p) \/ Kill(p)
  BY <1>3 DEF DestroyImage, Kill, GetProjectID, RemoveImage, RemoveImageFails, FreeProjectID
<1>4. CASE \E m \in Meters : EmitMetrics(m) \/ Stats(m) \/ GenerateMetadata(m)
  BY <1>4 DEF EmitMetrics, Stats, GenerateMetadata, StartMetrics, CountVolume, ListUnused, ListImages,
     ReadImageQuota, TryEmitUsage, StartStats, FetchStats, VolumeStats, ListQuota, ReadImageInfo, EndStats,
     StartGenerate, CreateMetaFile, EncodeMeta, EndGenerate, StoreUnchanged
<1>5. CASE (\E i \in Id : ContainerWrites(i)) \/ (\E v \in Vol : PullVolume(v) \/ CollectVolume(v)) \/ Restart
  BY <1>5 DEF ContainerWrites, PullVolume, CollectVolume, Restart
<1> QED
  BY <1>1, <1>2, <1>3, <1>4, <1>5 DEF Next

LEMMA NextProjects == Types /\ (~raced => ProjectInv) /\ [Next]_vars => (~raced => ProjectInv)'
<1> SUFFICES ASSUME Types, ~raced => ProjectInv, [Next]_vars, ~raced'
             PROVE  ProjectInv'
  OBVIOUS
<1>1. CASE UNCHANGED vars
  BY <1>1, OtherProjects DEF vars
<1>2. CASE Next
  <2>1. ProjectInv
    BY <1>2, RacedStays
  <2>2. CASE \E p \in Creators : Create(p)
    <3>1. PICK p \in Creators : Create(p)
      BY <2>2
    <3>2. CASE PurgeImage(p)
      BY <2>1, <3>2, DestroyProjects DEF Process
    <3>3. CASE ~PurgeImage(p)
      BY <2>1, <3>1, <3>3, EarlyProjects, MkdirProjects, MkidProjects, SetidProjects, SetlimitProjects, LateProjects
         DEF Create, CreateImage, Limit
    <3> QED
      BY <3>2, <3>3
  <2>3. CASE \E p \in Deleters, i \in Id : StartDelete(p, i)
    BY <2>1, <2>3, DestroyProjects DEF Process
  <2>4. CASE \E p \in Process : DestroyImage(p) \/ Kill(p)
    BY <2>1, <2>4, DestroyProjects
  <2>5. CASE \E m \in Meters : EmitMetrics(m) \/ Stats(m) \/ GenerateMetadata(m)
    BY <2>1, <2>5, ReadersStep, OtherProjects DEF ReadersOnly
  <2>6. CASE \E i \in Id : ContainerWrites(i)
    BY <2>1, <2>6, WritesProjects
  <2>7. CASE \E v \in Vol : PullVolume(v) \/ CollectVolume(v)
    BY <2>1, <2>7, OtherProjects DEF PullVolume, CollectVolume
  <2>8. CASE Restart
    BY <2>1, <2>8, RestartProjects
  <2> QED
    BY <1>2, <2>2, <2>3, <2>4, <2>5, <2>6, <2>7, <2>8 DEF Next
<1> QED
  BY <1>1, <1>2

LEMMA InitProjects == Init => ProjectInv
<1> SUFFICES ASSUME Init PROVE ProjectInv
  OBVIOUS
<1>0. (\A p \in Process : proc[p] = IdleProc) /\ \A i \in Id : image[i] = NoImage
  BY DEF Init
<1>1. \A p \in Process : proc[p].pc = "idle"
  BY <1>0 DEF IdleProc
<1>2. \A p \in Process : CommandInv(p)
  BY <1>1 DEF CommandInv, Claims, MakePC
<1>3. \A i \in Id : ImageInv(i)
  BY <1>0 DEF ImageInv, NoImage
<1>4. Distinct
  BY <1>0 DEF Distinct, NoImage
<1>5. \A p, q \in Process : p # q => Apart(p, q)
  BY <1>1 DEF Apart, Claims
<1> QED
  BY <1>2, <1>3, <1>4, <1>5 DEF ProjectInv

LEMMA AlwaysProjects == Spec => [](Types /\ (~raced => ProjectInv))
<1>1. Init => Types /\ (~raced => ProjectInv)
  BY InitTypes, InitProjects
<1>2. Types /\ (~raced => ProjectInv) /\ [Next]_vars => (Types /\ (~raced => ProjectInv))'
  BY NextTypes, NextProjects
<1> QED
  BY <1>1, <1>2, PTL DEF Spec

\* The project of an image that is done is its own, and limited as asked.
LEMMA OwnLimit ==
  ASSUME Types, ProjectInv, NEW i \in Id, Limited(i)
  PROVE  /\ image[i].diff = image[i].proj /\ image[i].proj # 0
         /\ limit[image[i].proj] = Rounded(image[i].want)
         /\ image[i].used <= image[i].want
         /\ image[i].used =< limit[image[i].proj]
         /\ Usage(image[i].proj) = image[i].used
<1>1. /\ image[i].diff = image[i].proj /\ image[i].proj # 0 /\ image[i] \in ImageType
      /\ limit[image[i].proj] = Rounded(image[i].want)
      /\ image[i].used =< limit[image[i].proj]
      /\ image[i].maker # Missing
  BY DEF Limited, ProjectInv, ImageInv, Types, ImageTypes, NoImage
<1>2. image[i].used <= image[i].want
  <2>1. image[i].want \in Nat /\ image[i].used \in Nat
    BY <1>1, QuotaAssumption DEF ImageType
  <2> QED
    BY <1>1, <2>1, RoundedTo
<1>3. Usage(image[i].proj) = image[i].used
  <2> DEFINE f == [j \in Id |-> image[j].used]
  <2>1. {j \in List : image[j].diff = image[i].proj} = {i}
    <3>1. i \in List
      BY <1>1 DEF List
    <3>2. image[i].proj # Missing
      BY <1>1 DEF ImageType, ProjID, Missing
    <3>3. \A j \in Id : image[j].diff = image[i].proj => j = i
      BY <1>1, <3>2 DEF ProjectInv, ImageInv, Distinct
    <3> QED
      BY <1>1, <3>1, <3>3 DEF List
  <2>2. f[i] \in Int /\ f[i] = image[i].used
    BY <1>1, QuotaAssumption DEF ImageType
  <2>3. SumFunctionOnSet(f, {i}) = f[i]
    BY <2>2, SumOne
  <2> QED
    BY <2>1, <2>2, <2>3 DEF Usage
<1> QED
  BY <1>1, <1>2, <1>3

\* A disk limit bounds its own image and nothing else (driver.go:547,
\* quota_linux.go, discoverer.go): whatever commands interleave, fail, are
\* killed or cut off by a restart, an image that is done has the id it was
\* given in force on what containers write to, the limit that was asked for
\* rounded down to blocks, and no other image's bytes counted against it,
\* as long as no image was destroyed under another command.
THEOREM LimitsOwn == Spec => []LimitIsOwn
<1>1. Types /\ (~raced => ProjectInv) => LimitIsOwn
  BY OwnLimit DEF LimitIsOwn
<1> QED
  BY <1>1, AlwaysProjects, PTL

\* The id directory of an image that is there is never given away
\* (driver.go:536-547, discoverer.go): also after failures and kills, which
\* may leave directories nobody needs, none that is needed is missing.
THEOREM IdsKept == Spec => []IdsReserved
<1>1. Types /\ (~raced => ProjectInv) => IdsReserved
  BY DEF IdsReserved, ProjectInv, ImageInv, List
<1> QED
  BY <1>1, AlwaysProjects, PTL

\* An id has its image, or the command that holds it.
Accounted(n) ==
  \/ \E i \in Id : image[i].proj = n
  \/ \E p \in Process : Claims(p) /\ proc[p].next = n

\* Without a failure nothing a command has removed is still there, and no id
\* directory is forgotten.
Cleared(p) == proc[p].pc \in {"freeid", "purge"} => image[proc[p].id].maker # p
LeakInv ==
  /\ \A p \in Process : Cleared(p)
  /\ \A n \in projectids : Accounted(n)

\* A step of p that loses no id.
LEMMA LeakFrame ==
  ASSUME Types, LeakInv, NEW p \in Process, UNCHANGED projectids,
         \A q \in Process : q # p => proc'[q] = proc[q],
         Cleared(p)',
         \A j \in Id : /\ image'[j].maker \in {image[j].maker, p, Missing}
                       /\ \/ image'[j].proj = image[j].proj \/ image[j].proj = 0
                          \/ Claims(p)' /\ proc'[p].next = image[j].proj,
         Claims(p) => \/ Claims(p)' /\ proc'[p].next = proc[p].next
                      \/ \E j \in Id : image'[j].proj = proc[p].next
  PROVE  LeakInv'
<1>1. ASSUME NEW q \in Process, q # p
      PROVE  Cleared(q)'
  <2>1. proc'[q] = proc[q] /\ Cleared(q) /\ q # Missing
    BY <1>1, QuotaAssumption DEF LeakInv
  <2>2. proc[q].pc \in {"freeid", "purge"} => proc[q].id \in Id
    BY DEF Types, ProcTypes, ProcOK
  <2> QED
    BY <1>1, <2>1, <2>2 DEF Cleared
<1>2. ASSUME NEW n \in projectids'
      PROVE  Accounted(n)'
  <2>1. n \in projectids /\ n # 0 /\ Accounted(n)
    BY <1>2 DEF LeakInv, Types, StoreTypes, ProjID
  <2>2. CASE \E i \in Id : image[i].proj = n
    BY <2>1, <2>2 DEF Accounted
  <2>3. ASSUME NEW q \in Process, Claims(q), proc[q].next = n
        PROVE  Accounted(n)'
    <3>1. CASE q = p
      BY <2>3, <3>1 DEF Accounted
    <3>2. CASE q # p
      <4>1. Claims(q)' /\ proc'[q].next = n
        BY <2>3, <3>2 DEF Claims
      <4> QED
        BY <4>1 DEF Accounted
    <3> QED
      BY <3>1, <3>2
  <2> QED
    BY <2>1, <2>2, <2>3 DEF Accounted
<1> QED
  BY <1>1, <1>2 DEF LeakInv

\* What a step of a create does to commands and images, but for taking an
\* id, giving it to its image, and the last cleanup.
LEMMA CreateEffect ==
  ASSUME Types, NEW p \in Creators,
         \/ \E i \in Id, s \in DiskSpec : StartCreate(p, i, s)
         \/ MkdirImage(p) \/ GetLowerDirs(p) \/ ApplyDiskLimit(p) \/ Alloc(p) \/ SetLimit(p)
         \/ OpenQuotaFile(p) \/ WriteQuotaFile(p) \/ CreateImageDirectories(p) \/ WriteImageInfo(p)
  PROVE  /\ proc[p].pc \notin {"setid", "freeid"} /\ proc'[p].pc \notin {"freeid", "purge"}
         /\ \A q \in Process : q # p => proc'[q] = proc[q]
         /\ \A j \in Id : /\ image'[j].maker \in {image[j].maker, p}
                          /\ image'[j].proj = image[j].proj \/ image[j].proj = 0
         /\ UNCHANGED projectids
<1>0. p \in Process /\ proc \in [Process -> ProcType] /\ image \in [Id -> ImageType]
  BY DEF Process, Types, ProcTypes, ImageTypes
<1> DEFINE Moved == /\ proc'[p].pc \notin {"freeid", "purge"}
                    /\ \A q \in Process : q # p => proc'[q] = proc[q]
           Kept == \A j \in Id : /\ image'[j].maker \in {image[j].maker, p}
                                 /\ image'[j].proj = image[j].proj \/ image[j].proj = 0
<1>1. /\ proc[p].pc \notin {"setid", "freeid"} /\ UNCHANGED projectids
  BY DEF StartCreate, MkdirImage, GetLowerDirs, ApplyDiskLimit, Alloc, SetLimit, OpenQuotaFile, WriteQuotaFile,
         CreateImageDirectories, WriteImageInfo
<1>2. UNCHANGED image => Kept
  OBVIOUS
<1>3. ASSUME NEW i \in Id, NEW r, image' = [image EXCEPT ![i] = r],
             r.maker \in {image[i].maker, p}, r.proj = image[i].proj \/ image[i].proj = 0
      PROVE  Kept
  BY <1>0, <1>3
<1> HIDE DEF Moved, Kept
<1>4. ASSUME NEW i \in Id, NEW s \in DiskSpec, StartCreate(p, i, s)
      PROVE  Moved /\ Kept
  BY <1>0, <1>2, <1>4 DEF StartCreate, IdleProc, Moved
<1>5. ASSUME MkdirImage(p)
      PROVE  Moved /\ Kept
  <2>1. PICK i \in Id : i = proc[p].id
    BY <1>5, MkdirStep
  <2>2. Moved
    BY <1>0, <1>5 DEF MkdirImage, GotoIf, Goto, ProcType, Moved
  <2>3. CASE Exists(i)
    BY <1>2, <1>5, <2>1, <2>2, <2>3 DEF MkdirImage
  <2>4. CASE ~Exists(i)
    <3> DEFINE r == [NoImage EXCEPT !.maker = p, !.base = proc[p].spec.base]
    <3>1. image' = [image EXCEPT ![i] = r] /\ r.maker = p
      BY <1>5, <2>1, <2>4 DEF MkdirImage, SetImage, NoImage
    <3>2. image[i].proj = 0
      BY <2>4 DEF Types, ImageTypes, Exists, List, NoImage
    <3> HIDE DEF r
    <3> QED
      BY <1>3, <2>2, <3>1, <3>2
  <2> QED
    BY <2>3, <2>4
<1>6. ASSUME GetLowerDirs(p) \/ ApplyDiskLimit(p) \/ Alloc(p)
      PROVE  Moved /\ Kept
  <2>1. UNCHANGED image
    BY <1>6 DEF GetLowerDirs, ApplyDiskLimit, Alloc
  <2>2. Moved
    <3>1. CASE GetLowerDirs(p)
      BY <1>0, <3>1 DEF GetLowerDirs, ProcType, Moved
    <3>2. CASE ApplyDiskLimit(p)
      BY <1>0, <3>2 DEF ApplyDiskLimit, ProcType, Moved
    <3>3. CASE Alloc(p)
      BY <1>0, <3>3 DEF Alloc, ProcType, Moved
    <3> QED
      BY <1>6, <3>1, <3>2, <3>3
  <2> QED
    BY <1>2, <2>1, <2>2
<1>7. ASSUME SetLimit(p)
      PROVE  Moved /\ Kept
  BY <1>0, <1>2, <1>7 DEF SetLimit, GotoIf, Goto, ProcType, Moved
<1>8. ASSUME OpenQuotaFile(p)
      PROVE  Moved /\ Kept
  <2>1. PICK i \in Id : i = proc[p].id
    BY <1>8, OpenStep
  <2>2. Moved
    BY <1>0, <1>8 DEF OpenQuotaFile, ProcType, Moved
  <2> DEFINE r == [image[i] EXCEPT !.quota = Torn]
  <2>3. (UNCHANGED image \/ image' = [image EXCEPT ![i] = r]) /\ r.maker = image[i].maker /\ r.proj = image[i].proj
    BY <1>0, <1>8, <2>1 DEF OpenQuotaFile, SetImage, ImageType
  <2> HIDE DEF r
  <2> QED
    BY <1>2, <1>3, <2>2, <2>3
<1>9. ASSUME WriteQuotaFile(p)
      PROVE  Moved /\ Kept
  <2>1. PICK i \in Id : i = proc[p].id
    BY <1>9, WriteStep
  <2>2. Moved
    BY <1>0, <1>9 DEF WriteQuotaFile, Goto, ProcType, Moved
  <2> DEFINE r == [image[i] EXCEPT !.quota = proc[p].lim]
  <2>3. (UNCHANGED image \/ image' = [image EXCEPT ![i] = r]) /\ r.maker = image[i].maker /\ r.proj = image[i].proj
    BY <1>0, <1>9, <2>1 DEF WriteQuotaFile, SetImage, ImageType
  <2> HIDE DEF r
  <2> QED
    BY <1>2, <1>3, <2>2, <2>3
<1>10. ASSUME CreateImageDirectories(p)
       PROVE  Moved /\ Kept
  <2>1. PICK i \in Id : i = proc[p].id
    BY <1>10, DirsStep
  <2>2. Moved
    BY <1>0, <1>10 DEF CreateImageDirectories, GotoIf, Goto, ProcType, Moved
  <2> DEFINE r == [image[i] EXCEPT !.diff = image[i].proj]
  <2>3. (UNCHANGED image \/ image' = [image EXCEPT ![i] = r]) /\ r.maker = image[i].maker /\ r.proj = image[i].proj
    BY <1>0, <1>10, <2>1 DEF CreateImageDirectories, SetImage, ImageType
  <2> HIDE DEF r
  <2> QED
    BY <1>2, <1>3, <2>2, <2>3
<1>11. ASSUME WriteImageInfo(p)
       PROVE  Moved /\ Kept
  <2>1. PICK i \in Id : i = proc[p].id
    BY <1>11, InfoStep
  <2>2. Moved
    BY <1>0, <1>11 DEF WriteImageInfo, IdleProc, ProcType, Moved
  <2> DEFINE r == [image[i] EXCEPT !.info = proc[p].size, !.done = TRUE]
  <2>3. (UNCHANGED image \/ image' = [image EXCEPT ![i] = r]) /\ r.maker = image[i].maker /\ r.proj = image[i].proj
    BY <1>0, <1>11, <2>1 DEF WriteImageInfo, SetImage, ImageType
  <2> HIDE DEF r
  <2> QED
    BY <1>2, <1>3, <2>2, <2>3
<1>12. Moved /\ Kept
  BY <1>4, <1>5, <1>6, <1>7, <1>8, <1>9, <1>10, <1>11
<1> QED
  BY <1>1, <1>12 DEF Moved, Kept

LEMMA NextLeaks ==
  ASSUME Types, ProjectInv, LeakInv, Next, ~raced', spent'.faults = 0, spent.faults = 0
  PROVE  LeakInv'
<1>0. ~Fault
  BY SpentStep
<1>1. ASSUME NEW p \in Creators,
             \/ \E i \in Id, s \in DiskSpec : StartCreate(p, i, s)
             \/ MkdirImage(p) \/ GetLowerDirs(p) \/ ApplyDiskLimit(p) \/ Alloc(p) \/ SetLimit(p)
             \/ OpenQuotaFile(p) \/ WriteQuotaFile(p) \/ CreateImageDirectories(p) \/ WriteImageInfo(p)
      PROVE  LeakInv'
  <2>1. /\ proc[p].pc \notin {"setid", "freeid"} /\ proc'[p].pc \notin {"freeid", "purge"}
        /\ \A q \in Process : q # p => proc'[q] = proc[q]
        /\ \A j \in Id : /\ image'[j].maker \in {image[j].maker, p}
                         /\ image'[j].proj = image[j].proj \/ image[j].proj = 0
        /\ UNCHANGED projectids
    BY <1>1, CreateEffect
  <2>2. p \in Process /\ Cleared(p)' /\ ~Claims(p)
    BY <2>1 DEF Process, Cleared, Claims
  <2> QED
    BY <2>1, <2>2, LeakFrame
<1>2. ASSUME NEW p \in Creators, UntilSucceeds(p)
      PROVE  LeakInv'
  <2>1. p \in Process /\ proc[p].pc = "mkid" /\ UNCHANGED image /\ proc[p] \in ProcType /\ proc[p].next \in ProjID
    BY <1>2, MkidStep DEF Process, UntilSucceeds, Types, ProcTypes
  <2>2. CASE proc[p].next \in projectids
    <3>1. UNCHANGED projectids
      BY <1>2, <2>2, MkidStep
    <3>2. /\ proc'[p] = [proc[p] EXCEPT !.next = proc[p].next + 1]
          /\ \A q \in Process : q # p => proc'[q] = proc[q]
      BY <1>2, <2>1, <2>2, MkidStep, SetsTypes
    <3>3. proc'[p].pc = "mkid"
      BY <2>1, <3>2 DEF ProcType
    <3>4. Cleared(p)' /\ ~Claims(p)
      BY <2>1, <3>3 DEF Cleared, Claims
    <3> QED
      BY <2>1, <3>1, <3>2, <3>4, LeakFrame
  <2>3. CASE proc[p].next \notin projectids
    <3>1. Moves(p, "setid") /\ projectids' = projectids \cup {proc[p].next}
      BY <1>2, <2>1, <2>3, MkidStep, SetsMoves
    <3>2. \A q \in Process : Cleared(q)'
      BY <2>1, <3>1 DEF LeakInv, Cleared, Moves
    <3>3. Claims(p)' /\ proc'[p].next = proc[p].next
      BY <2>1, <3>1 DEF Claims, Moves, ProjID
    <3>4. \A q \in Process : Claims(q) => Claims(q)' /\ proc'[q].next = proc[q].next
      BY <2>1, <3>1 DEF Claims, Moves
    <3>5. \A n \in projectids' : Accounted(n)'
      BY <2>1, <3>1, <3>3, <3>4 DEF LeakInv, Accounted
    <3> QED
      BY <3>2, <3>5 DEF LeakInv
  <2> QED
    BY <2>2, <2>3
<1>3. ASSUME NEW p \in Creators, SetProjectID(p)
      PROVE  LeakInv'
  <2>a. PICK i \in Id : i = proc[p].id
    BY <1>3, SetidStep
  <2>1. /\ p \in Process /\ proc[p].pc = "setid" /\ UNCHANGED projectids /\ image[i] \in ImageType /\ CommandInv(p)
    BY <1>3 DEF Process, SetProjectID, Types, ImageTypes, ProjectInv
  <2>2. image[i].maker = p /\ p # Missing /\ image[i].proj = 0
    BY <2>a, <2>1, QuotaAssumption DEF CommandInv, Stage, MakePC
  <2>3. Moves(p, "setlimit")
    BY <1>3, <2>a, <2>1, <2>2, SetidStep, SetsMoves
  <2>4. /\ image'[i] = [image[i] EXCEPT !.proj = proc[p].next, !.want = proc[p].lim]
        /\ \A j \in Id : j # i => image'[j] = image[j]
    BY <1>3, <2>a, <2>2, SetidStep, PutsTypes
  <2>5. image'[i].proj = proc[p].next /\ image'[i].maker = image[i].maker
    BY <2>1, <2>4 DEF ImageType
  <2>6. Cleared(p)'
    BY <2>3 DEF Cleared, Moves
  <2>7. \A q \in Process : q # p => proc'[q] = proc[q]
    BY <2>3 DEF Moves
  <2>8. \A j \in Id : /\ image'[j].maker \in {image[j].maker, p, Missing}
                      /\ image'[j].proj = image[j].proj \/ image[j].proj = 0
    BY <2>2, <2>4, <2>5
  <2> QED
    BY <2>1, <2>5, <2>6, <2>7, <2>8, LeakFrame
<1>4. ASSUME NEW p \in Creators, PurgeImage(p)
      PROVE  LeakInv'
  <2>a. PICK i \in Id : i = proc[p].id
    BY <1>4, PurgeStep
  <2>1. /\ p \in Process /\ proc[p].pc = "purge" /\ UNCHANGED projectids /\ ~Interferes(p)
    BY <1>4 DEF Process, PurgeImage
  <2>2. image[i] = NoImage
    BY <1>4, <2>a, <2>1 DEF LeakInv, Cleared, Interferes, Exists, List, Types, ImageTypes
  <2>3. proc'[p] = IdleProc /\ \A q \in Process : q # p => proc'[q] = proc[q]
    BY <1>4, <2>1, PurgeStep, SetsTypes
  <2>4. image'[i] = NoImage /\ \A j \in Id : j # i => image'[j] = image[j]
    BY <1>4, <2>a, PurgeStep, PutsTypes
  <2>5. proc'[p].pc = "idle"
    BY <2>3 DEF IdleProc
  <2>6. Cleared(p)' /\ ~Claims(p)
    BY <2>1, <2>5 DEF Cleared, Claims
  <2>7. \A j \in Id : image'[j] = image[j]
    BY <2>2, <2>4
  <2> QED
    BY <2>1, <2>3, <2>6, <2>7, LeakFrame
<1>5. ASSUME NEW p \in Deleters, NEW i \in Id, StartDelete(p, i)
      PROVE  LeakInv'
  <2>1. p \in Process /\ proc[p].pc = "idle" /\ UNCHANGED <<projectids, image>>
    BY <1>5 DEF Process, StartDelete
  <2>2. /\ proc'[p] = [IdleProc EXCEPT !.pc = "getid", !.id = i]
        /\ \A q \in Process : q # p => proc'[q] = proc[q]
    BY <1>5, <2>1, StartDeleteStep, SetsTypes
  <2>3. proc'[p].pc = "getid"
    BY <2>2 DEF IdleProc
  <2>4. Cleared(p)' /\ ~Claims(p)
    BY <2>1, <2>3 DEF Cleared, Claims
  <2> QED
    BY <2>1, <2>2, <2>4, LeakFrame
<1>6. ASSUME NEW p \in Process, GetProjectID(p)
      PROVE  LeakInv'
  <2>1. proc[p].pc = "getid" /\ UNCHANGED <<projectids, image>> /\ proc[p] \in ProcType
    BY <1>6 DEF GetProjectID, Types, ProcTypes
  <2>2. /\ proc'[p] = [proc[p] EXCEPT !.pc = "unlink", !.next = image[proc[p].id].proj]
        /\ \A q \in Process : q # p => proc'[q] = proc[q]
    BY <1>6, GetidStep, SetsTypes
  <2>3. proc'[p].pc = "unlink"
    BY <2>1, <2>2 DEF ProcType
  <2>4. Cleared(p)' /\ ~Claims(p)
    BY <2>1, <2>3 DEF Cleared, Claims
  <2> QED
    BY <2>1, <2>2, <2>4, LeakFrame
<1>7. ASSUME NEW p \in Process, RemoveImage(p)
      PROVE  LeakInv'
  <2>a. PICK i \in Id : i = proc[p].id
    BY <1>7, RemoveStep
  <2>1. proc[p].pc = "unlink" /\ UNCHANGED projectids /\ p # Missing /\ proc[p].next = image[i].proj
    BY <1>7, <2>a, QuotaAssumption DEF RemoveImage, ProjectInv, CommandInv
  <2>2. Moves(p, "freeid")
    BY <1>7, RemoveStep, SetsMoves
  <2>3. image'[i] = NoImage /\ \A j \in Id : j # i => image'[j] = image[j]
    BY <1>7, <2>a, RemoveStep, PutsTypes
  <2>4. image'[i].maker = Missing /\ image'[i].proj = 0
    BY <2>3 DEF NoImage
  <2>5. Cleared(p)' /\ ~Claims(p)
    BY <2>a, <2>1, <2>2, <2>4 DEF Cleared, Claims, Moves
  <2>6. image[i].proj # 0 => Claims(p)' /\ proc'[p].next = image[i].proj
    BY <2>1, <2>2 DEF Claims, Moves
  <2>7. \A q \in Process : q # p => proc'[q] = proc[q]
    BY <2>2 DEF Moves
  <2>8. \A j \in Id : /\ image'[j].maker \in {image[j].maker, p, Missing}
                      /\ \/ image'[j].proj = image[j].proj \/ image[j].proj = 0
                         \/ Claims(p)' /\ proc'[p].next = image[j].proj
    BY <2>3, <2>4, <2>6
  <2> QED
    BY <2>1, <2>5, <2>7, <2>8, LeakFrame
<1>8. ASSUME NEW p \in Process, FreeProjectID(p)
      PROVE  LeakInv'
  <2>1. proc[p].pc = "freeid" /\ UNCHANGED image /\ projectids' = projectids \ {proc[p].next}
    BY <1>8 DEF FreeProjectID
  <2>2. /\ proc'[p].pc \in {"idle", "purge"} /\ (proc'[p].pc = "purge" => proc'[p].id = proc[p].id)
        /\ \A q \in Process : q # p => proc'[q] = proc[q]
    <3>1. CASE Sets(p, IdleProc)
      BY <3>1, SetsTypes DEF IdleProc
    <3>2. CASE Sets(p, [proc[p] EXCEPT !.pc = "purge"])
      BY <3>2, SetsMoves DEF Moves
    <3> QED
      BY <1>8, <3>1, <3>2, EndDestroyStep
  <2>3. \A q \in Process : Cleared(q)'
    BY <2>1, <2>2 DEF LeakInv, Cleared
  <2>4. ASSUME NEW n \in projectids'
        PROVE  Accounted(n)'
    <3>1. n \in projectids /\ n # proc[p].next /\ Accounted(n)
      BY <2>1, <2>4 DEF LeakInv
    <3>2. \A q \in Process : q # p /\ Claims(q) => Claims(q)' /\ proc'[q].next = proc[q].next
      BY <2>2 DEF Claims
    <3> QED
      BY <2>1, <3>1, <3>2 DEF Accounted
  <2> QED
    BY <2>3, <2>4 DEF LeakInv
<1>9. ASSUME UNCHANGED <<projectids, proc>>,
             \A j \in Id : image'[j].maker = image[j].maker /\ image'[j].proj = image[j].proj
      PROVE  LeakInv'
  <2>1. \A q \in Process : Cleared(q)'
    <3>1. \A q \in Process : proc[q].pc # "idle" => proc[q].id \in Id
      BY DEF Types, ProcTypes, ProcOK
    <3> QED
      BY <1>9, <3>1 DEF LeakInv, Cleared
  <2>2. \A n \in projectids' : Accounted(n)'
    BY <1>9 DEF LeakInv, Accounted, Claims
  <2> QED
    BY <2>1, <2>2 DEF LeakInv
<1>10. CASE \E m \in Meters : EmitMetrics(m) \/ Stats(m) \/ GenerateMetadata(m)
  <2>1. UNCHANGED <<projectids, proc, image>>
    BY <1>10, ReadersStep DEF ReadersOnly
  <2> QED
    BY <1>9, <2>1
<1>11. CASE \E v \in Vol : PullVolume(v) \/ CollectVolume(v)
  BY <1>9, <1>11 DEF PullVolume, CollectVolume
<1>12. ASSUME NEW i \in Id, ContainerWrites(i)
       PROVE  LeakInv'
  <2>1. /\ image'[i] = [image[i] EXCEPT !.used = image[i].used + BlockSize]
        /\ \A j \in Id : j # i => image'[j] = image[j]
    BY <1>12, WritesStep, PutsTypes
  <2>2. \A j \in Id : image'[j].maker = image[j].maker /\ image'[j].proj = image[j].proj
    BY <2>1 DEF Types, ImageTypes, ImageType
  <2> QED
    BY <1>9, <1>12, <2>2 DEF ContainerWrites
<1>13. ASSUME NEW p \in Creators, CreateFails(p) \/ RunTardisFails(p) \/ TardisFails(p)
       PROVE  FALSE
  BY <1>0, <1>13 DEF CreateFails, RunTardisFails, TardisFails
<1>14. ASSUME NEW p \in Process, Kill(p) \/ RemoveImageFails(p) \/ Restart
       PROVE  FALSE
  BY <1>0, <1>14 DEF Kill, RemoveImageFails, Restart
<1>15. ~Restart
  BY <1>0 DEF Restart
<1>16. CASE \E p \in Creators : Create(p)
  BY <1>1, <1>2, <1>3, <1>4, <1>13, <1>16 DEF Create, CreateImage, Limit
<1>17. CASE \E p \in Process : DestroyImage(p) \/ Kill(p)
  BY <1>6, <1>7, <1>8, <1>14, <1>17 DEF DestroyImage
<1> QED
  BY <1>5, <1>10, <1>11, <1>12, <1>15, <1>16, <1>17 DEF Next

\* Failures are never taken back.
LEMMA FaultsStay ==
  ASSUME Types, Next, spent'.faults = 0
  PROVE  spent.faults = 0
<1>1. StartCommand \/ Fault \/ UNCHANGED spent
  <2>1. CASE \E p \in Creators : Create(p)
    BY <2>1 DEF Create, CreateImage, Limit, StartCreate, MkdirImage, GetLowerDirs, ApplyDiskLimit, Alloc,
       UntilSucceeds, SetProjectID, SetLimit, OpenQuotaFile, WriteQuotaFile, CreateImageDirectories,
       WriteImageInfo, CreateFails, RunTardisFails, TardisFails, PurgeImage
  <2>2. CASE \E p \in Deleters, i \in Id : StartDelete(p, i)
    BY <2>2 DEF StartDelete
  <2>3. CASE \E p \in Process : DestroyImage(p) \/ Kill(p)
    BY <2>3 DEF DestroyImage, Kill, GetProjectID, RemoveImage, RemoveImageFails, FreeProjectID
  <2>4. CASE \E m \in Meters : EmitMetrics(m) \/ Stats(m) \/ GenerateMetadata(m)
    BY <2>4, ReadersStep
  <2>5. CASE (\E i \in Id : ContainerWrites(i)) \/ (\E v \in Vol : PullVolume(v) \/ CollectVolume(v)) \/ Restart
    BY <2>5 DEF ContainerWrites, PullVolume, CollectVolume, Restart
  <2> QED
    BY <2>1, <2>2, <2>3, <2>4, <2>5 DEF Next
<1> QED
  BY <1>1, SpentStep

LEMMA AlwaysLeaks ==
  Spec => [](Types /\ (~raced => ProjectInv) /\ (~raced /\ spent.faults = 0 => LeakInv))
<1> DEFINE All == Types /\ (~raced => ProjectInv) /\ (~raced /\ spent.faults = 0 => LeakInv)
<1>1. Init => All
  <2>1. Init => LeakInv
    BY DEF Init, LeakInv, Cleared, IdleProc
  <2> QED
    BY <2>1, InitTypes, InitProjects
<1>2. All /\ [Next]_vars => All'
  <2> SUFFICES ASSUME All, [Next]_vars
               PROVE  All'
    OBVIOUS
  <2>1. Types' /\ (~raced => ProjectInv)'
    BY NextTypes, NextProjects
  <2>2. ASSUME ~raced', spent'.faults = 0
        PROVE  LeakInv'
    <3>1. CASE UNCHANGED vars
      BY <2>2, <3>1 DEF vars, LeakInv, Cleared, Accounted, Claims
    <3>2. CASE Next
      BY <2>2, <3>2, RacedStays, FaultsStay, NextLeaks
    <3> QED
      BY <3>1, <3>2
  <2> QED
    BY <2>1, <2>2
<1> QED
  BY <1>1, <1>2, PTL DEF Spec

\* Where nothing failed, was killed or raced, no project id leaks
\* (driver.go:547, discoverer.go): with every command ended the id
\* directories are exactly those of the images.
THEOREM NoIdsLeaked == Spec => []NoIdLeaked
<1>1. Types /\ (~raced => ProjectInv) /\ (~raced /\ spent.faults = 0 => LeakInv) => NoIdLeaked
  <2> SUFFICES ASSUME Types, ProjectInv, LeakInv, \A p \in Process : proc[p].pc = "idle"
               PROVE  projectids = {image[i].proj : i \in List} \ {0}
    BY DEF NoIdLeaked
  <2>1. \A n \in projectids : n # 0 /\ \E i \in Id : image[i].proj = n
    <3>1. \A p \in Process : ~Claims(p)
      BY DEF Claims
    <3>2. \A n \in projectids : \E i \in Id : image[i].proj = n
      BY <3>1 DEF LeakInv, Accounted
    <3>3. projectids \subseteq ProjID
      BY DEF Types, StoreTypes
    <3>4. 0 \notin ProjID
      BY DEF ProjID
    <3> QED
      BY <3>2, <3>3, <3>4
  <2>2. \A i \in Id : image[i].proj # 0 => i \in List /\ image[i].proj \in projectids
    BY DEF ProjectInv, ImageInv, Types, ImageTypes, NoImage, List
  <2>3. \A n \in projectids : n \in {image[i].proj : i \in List} \ {0}
    BY <2>1, <2>2
  <2>4. \A n \in {image[i].proj : i \in List} \ {0} : n \in projectids
    BY <2>2 DEF List
  <2> QED
    BY <2>3, <2>4
<1> QED
  BY <1>1, AlwaysLeaks, PTL

------------------------------------------------------------------------------
(* Volumes: what the sum of the unused volumes may exceed the earlier sum   *)
(* of all of them by                                                        *)

\* The least a volume can count for as long as it stays.
Low(v) == IF meta[v] = TarSize[v] \/ TarSize[v] < DuSize[v] THEN TarSize[v] ELSE DuSize[v]

\* What the volumes still there that were counted weigh at least, and what
\* those that are not yet counted may weigh at most.
Counted(todo) == [v \in Vol |-> IF meta[v] # Missing /\ v \notin todo THEN Low(v) ELSE 0]
ToCount(todo) ==
  [v \in Vol |-> IF v \notin todo THEN 0 ELSE IF meta[v] = Missing THEN Growth[v] ELSE Low(v) + Growth[v]]

MeasureInv(m) ==
  /\ meter[m].pc = "total" /\ ~meter[m].failed =>
       meter[m].sum + meter[m].pulled >= SumFunctionOnSet(Counted(meter[m].todo), Vol)
  /\ meter[m].pc = "unused" /\ ~meter[m].failed =>
       meter[m].total + meter[m].pulled + SumFunctionOnSet(Growth, Vol)
         >= meter[m].sum + SumFunctionOnSet(ToCount(meter[m].todo), Vol)
  /\ meter[m].pc = "quota" => meter[m].used + meter[m].pulled + SumFunctionOnSet(Growth, Vol) >= 0

LEMMA Lows ==
  ASSUME Types, NEW v \in Vol
  PROVE  /\ Low(v) \in Nat /\ Growth[v] \in Nat /\ Low(v) =< TarSize[v] /\ meta[v] \in Int
         /\ meta[v] \notin {Missing, Torn} => Low(v) =< meta[v] /\ meta[v] =< Low(v) + Growth[v]
         /\ meta[v] = TarSize[v] => Low(v) = TarSize[v]
<1>1. TarSize[v] \in Nat /\ DuSize[v] \in Nat
  BY QuotaAssumption
<1>2. meta[v] \in {Missing, Torn, TarSize[v], DuSize[v]}
  BY DEF Types, StoreTypes
<1>3. Growth[v] = IF DuSize[v] > TarSize[v] THEN DuSize[v] - TarSize[v] ELSE 0
  BY DEF Growth
<1> QED
  BY <1>1, <1>2, <1>3 DEF Low, Missing, Torn

LEMMA MeasureTypes ==
  ASSUME Types, NEW todo
  PROVE  /\ IsFiniteSet(Vol)
         /\ \A v \in Vol : /\ Counted(todo)[v] \in Nat /\ Counted(todo)[v] \in Int
                           /\ ToCount(todo)[v] \in Nat /\ ToCount(todo)[v] \in Int
                           /\ Growth[v] \in Nat /\ Growth[v] \in Int
         /\ SumFunctionOnSet(Counted(todo), Vol) \in Nat
         /\ SumFunctionOnSet(ToCount(todo), Vol) \in Nat
         /\ SumFunctionOnSet(Growth, Vol) \in Nat
<1>1. IsFiniteSet(Vol)
  BY QuotaAssumption
<1>2. \A v \in Vol : Low(v) \in Nat /\ Growth[v] \in Nat
  BY Lows
<1>3. \A v \in Vol : Counted(todo)[v] \in Nat
  BY <1>2 DEF Counted
<1>4. \A v \in Vol : ToCount(todo)[v] \in Nat
  BY <1>2 DEF ToCount
<1>5. /\ SumFunctionOnSet(Counted(todo), Vol) \in Nat
      /\ SumFunctionOnSet(ToCount(todo), Vol) \in Nat
      /\ SumFunctionOnSet(Growth, Vol) \in Nat
  BY <1>1, <1>2, <1>3, <1>4, SumPositive
<1> QED
  BY <1>1, <1>2, <1>3, <1>4, <1>5

\* A reader whose numbers stay, while volumes go or are measured again.
LEMMA MeasureFrame ==
  ASSUME Types, Types', NEW m \in Meters, MeasureInv(m),
         meter'[m].pc = meter[m].pc, meter'[m].failed = meter[m].failed, meter'[m].sum = meter[m].sum,
         meter'[m].total = meter[m].total, meter'[m].used = meter[m].used,
         meter'[m].pulled = meter[m].pulled, meter'[m].todo = meter[m].todo,
         \A v \in Vol : \/ meta'[v] \in {meta[v], Missing}
                        \/ meta[v] # Missing /\ meta'[v] \in {Torn, DuSize[v]}
  PROVE  MeasureInv(m)'
<1>a. PICK todo : todo = meter[m].todo
  OBVIOUS
<1>0. /\ meter[m].sum \in Int /\ meter[m].total \in Int /\ meter[m].used \in Int /\ meter[m].pulled \in Nat
  BY DEF Types, MeterTypes, MeterType
<1>1. ASSUME NEW v \in Vol, meta'[v] # Missing
      PROVE  Low(v)' =< Low(v) /\ meta[v] # Missing
  <2>1. TarSize[v] \in Nat /\ DuSize[v] \in Nat
    BY QuotaAssumption
  <2>2. meta[v] \in {Missing, Torn, TarSize[v], DuSize[v]}
    BY DEF Types, StoreTypes
  <2> QED
    BY <1>1, <2>1, <2>2 DEF Low, Missing, Torn
<1>2. \A v \in Vol : Low(v) \in Nat /\ Low(v)' \in Nat /\ Growth[v] \in Nat
  <2>1. \A v \in Vol : Low(v) \in Nat /\ Growth[v] \in Nat
    BY Lows
  <2>2. \A v \in Vol : Low(v)' \in Nat
    BY Lows, QuotaAssumption DEF Low
  <2> QED
    BY <2>1, <2>2
<1>3. PICK f, g, h, k : /\ f = Counted(todo) /\ g = Counted(todo)'
                        /\ h = ToCount(todo) /\ k = ToCount(todo)'
  OBVIOUS
<1>4. \A v \in Vol : /\ f[v] \in Int /\ g[v] \in Int /\ g[v] =< f[v]
                     /\ h[v] \in Int /\ k[v] \in Int /\ k[v] =< h[v]
  BY <1>1, <1>2, <1>3 DEF Counted, ToCount
<1>5. IsFiniteSet(Vol) /\ SumFunctionOnSet(Growth, Vol) \in Nat
  BY MeasureTypes
<1>6. /\ SumFunctionOnSet(g, Vol) =< SumFunctionOnSet(f, Vol)
      /\ SumFunctionOnSet(k, Vol) =< SumFunctionOnSet(h, Vol)
      /\ SumFunctionOnSet(f, Vol) \in Int /\ SumFunctionOnSet(g, Vol) \in Int
      /\ SumFunctionOnSet(h, Vol) \in Int /\ SumFunctionOnSet(k, Vol) \in Int
  BY <1>4, <1>5, SumMonotone
<1>7. /\ SumFunctionOnSet(Counted(meter[m].todo), Vol) = SumFunctionOnSet(f, Vol)
      /\ SumFunctionOnSet(ToCount(meter[m].todo), Vol) = SumFunctionOnSet(h, Vol)
  BY <1>a, <1>3
<1>8. /\ SumFunctionOnSet(Counted(meter[m].todo), Vol)' = SumFunctionOnSet(g, Vol)
      /\ SumFunctionOnSet(ToCount(meter[m].todo), Vol)' = SumFunctionOnSet(k, Vol)
  BY <1>a, <1>3
<1>9. SumFunctionOnSet(Growth, Vol)' = SumFunctionOnSet(Growth, Vol)
  BY DEF Growth
<1> QED
  BY <1>0, <1>5, <1>6, <1>7, <1>8, <1>9 DEF MeasureInv

\* A volume pulled meanwhile adds at most its size.
LEMMA PullMeasure ==
  ASSUME Types, NEW v \in Vol, PullVolume(v), NEW m \in Meters, MeasureInv(m)
  PROVE  MeasureInv(m)'
<1>a. PICK todo : todo = meter[m].todo
  OBVIOUS
<1>b. PICK n \in Nat : /\ n = IF meter[m].pc = "idle" THEN 0 ELSE meter[m].pulled + TarSize[v]
                       /\ meter'[m] = [meter[m] EXCEPT !.pulled = n]
  BY PullMeters
<1>0. /\ meter[m].sum \in Int /\ meter[m].total \in Int /\ meter[m].used \in Int /\ meter[m].pulled \in Nat
      /\ meter[m] \in MeterType /\ TarSize[v] \in Nat
  BY QuotaAssumption DEF Types, MeterTypes, MeterType
<1>1. /\ meter'[m].pc = meter[m].pc /\ meter'[m].failed = meter[m].failed /\ meter'[m].sum = meter[m].sum
      /\ meter'[m].total = meter[m].total /\ meter'[m].used = meter[m].used
      /\ meter'[m].todo = meter[m].todo
      /\ meter[m].pc # "idle" => meter'[m].pulled = meter[m].pulled + TarSize[v]
  BY <1>b, <1>0 DEF MeterType
<1>2. meta[v] = Missing /\ meta'[v] = TarSize[v] /\ \A w \in Vol : w # v => meta'[w] = meta[w]
  BY MetaStep DEF PullVolume
<1>3. \A w \in Vol : Low(w) \in Nat /\ Growth[w] \in Nat
  BY Lows
<1>4. Low(v)' = TarSize[v] /\ \A w \in Vol : w # v => Low(w)' = Low(w)
  BY <1>2 DEF Low
<1>5. PICK f, g, h, k : /\ f = Counted(todo) /\ g = Counted(todo)'
                        /\ h = ToCount(todo) /\ k = ToCount(todo)'
  OBVIOUS
<1>6. \A w \in Vol : /\ f[w] \in Int /\ g[w] \in Int /\ h[w] \in Int /\ k[w] \in Int
                     /\ w # v => f[w] = g[w] /\ h[w] = k[w]
  BY <1>0, <1>2, <1>3, <1>4, <1>5 DEF Counted, ToCount
<1>7. g[v] - f[v] =< TarSize[v] /\ k[v] - h[v] =< TarSize[v]
  BY <1>0, <1>2, <1>3, <1>4, <1>5 DEF Counted, ToCount
<1>8. IsFiniteSet(Vol) /\ SumFunctionOnSet(Growth, Vol) \in Nat
  BY MeasureTypes
<1>9. Differ(f, g, Vol, v)
  <2>1. v \in Vol /\ IsFiniteSet(Vol)
    BY <1>8
  <2>2. Agree(f, g, Vol, v)
    BY <1>6 DEF Agree
  <2> QED
    BY <2>1, <2>2, SumChange, Zenon
<1>10. Differ(h, k, Vol, v)
  <2>1. v \in Vol /\ IsFiniteSet(Vol)
    BY <1>8
  <2>2. Agree(h, k, Vol, v)
    BY <1>6 DEF Agree
  <2> QED
    BY <2>1, <2>2, SumChange, Zenon
<1>11. /\ SumFunctionOnSet(Counted(meter[m].todo), Vol) = SumFunctionOnSet(f, Vol)
       /\ SumFunctionOnSet(ToCount(meter[m].todo), Vol) = SumFunctionOnSet(h, Vol)
  BY <1>a, <1>5
<1>12. /\ SumFunctionOnSet(Counted(meter[m].todo), Vol)' = SumFunctionOnSet(g, Vol)
       /\ SumFunctionOnSet(ToCount(meter[m].todo), Vol)' = SumFunctionOnSet(k, Vol)
  BY <1>a, <1>1, <1>5
<1>13. SumFunctionOnSet(Growth, Vol)' = SumFunctionOnSet(Growth, Vol)
  BY DEF Growth
<1>14. f[v] \in Int /\ g[v] \in Int /\ h[v] \in Int /\ k[v] \in Int
  BY <1>6
<1> QED
  BY <1>0, <1>1, <1>7, <1>8, <1>9, <1>10, <1>11, <1>12, <1>13, <1>14 DEF MeasureInv, Differ

\* The sizes a reader adds up.
LEMMA CountMeasure ==
  ASSUME Types, NEW m \in Meters, CountVolume(m), MeasureInv(m)
  PROVE  MeasureInv(m)'
<1>0. /\ meter[m].sum \in Int /\ meter[m].total \in Int /\ meter[m].used \in Int /\ meter[m].pulled \in Nat
      /\ meter[m] \in MeterType /\ meter[m].pc \in {"total", "unused"} /\ UNCHANGED meta
  BY DEF Types, MeterTypes, MeterType, CountVolume
<1>1. PICK v \in meter[m].todo :
           /\ v \in Vol
           /\ meta[v] = Torn => Reads(m, [meter[m] EXCEPT !.todo = {}, !.failed = TRUE])
           /\ meta[v] # Torn =>
                Reads(m, [meter[m] EXCEPT !.todo = meter[m].todo \ {v},
                                          !.sum = meter[m].sum + IF meta[v] = Missing THEN 0 ELSE meta[v]])
  BY CountStep
<1>2. CASE meta[v] = Torn
  <2>1. meter'[m] = [meter[m] EXCEPT !.todo = {}, !.failed = TRUE]
    BY <1>1, <1>2, ReadsTypes
  <2>2. meter'[m].failed = TRUE /\ meter'[m].pc = meter[m].pc
    BY <1>0, <2>1 DEF MeterType
  <2> QED
    BY <1>0, <2>2 DEF MeasureInv
<1>3. CASE meta[v] # Torn
  <2>a. PICK n : n = IF meta[v] = Missing THEN 0 ELSE meta[v]
    OBVIOUS
  <2>b. PICK todo, rest : todo = meter[m].todo /\ rest = meter[m].todo \ {v}
    OBVIOUS
  <2>c. PICK s : s = meter[m].sum + n
    OBVIOUS
  <2>1. meter'[m] = [meter[m] EXCEPT !.todo = rest, !.sum = s]
    <3>1. Reads(m, [meter[m] EXCEPT !.todo = rest, !.sum = s])
      BY <1>1, <1>3, <2>a, <2>b, <2>c
    <3> QED
      BY <3>1, ReadsTypes
  <2>2. /\ meter'[m].pc = meter[m].pc /\ meter'[m].failed = meter[m].failed /\ meter'[m].sum = s
        /\ meter'[m].total = meter[m].total /\ meter'[m].used = meter[m].used
        /\ meter'[m].pulled = meter[m].pulled /\ meter'[m].todo = rest
    BY <1>0, <2>1 DEF MeterType
  <2>3. \A w \in Vol : Low(w) \in Nat /\ Growth[w] \in Nat /\ Low(w)' = Low(w)
    BY <1>0, Lows DEF Low
  <2>4. n \in Int /\ (meta[v] # Missing => Low(v) =< n /\ n =< Low(v) + Growth[v])
    BY <1>1, <1>3, <2>a, Lows DEF Missing
  <2>5. PICK f, g, h, k : /\ f = Counted(todo) /\ g = Counted(rest)
                          /\ h = ToCount(todo) /\ k = ToCount(rest)
    OBVIOUS
  <2>6. \A w \in Vol : /\ f[w] \in Int /\ g[w] \in Int /\ h[w] \in Int /\ k[w] \in Int
                       /\ w # v => f[w] = g[w] /\ h[w] = k[w]
    BY <2>b, <2>3, <2>5 DEF Counted, ToCount
  <2>7. g[v] - f[v] =< n /\ n =< h[v] - k[v]
    BY <1>1, <2>a, <2>b, <2>3, <2>4, <2>5 DEF Counted, ToCount
  <2>8. IsFiniteSet(Vol) /\ SumFunctionOnSet(Growth, Vol) \in Nat
    BY MeasureTypes
  <2>9. Differ(f, g, Vol, v)
    <3>1. v \in Vol /\ IsFiniteSet(Vol)
      BY <1>1, <2>8
    <3>2. Agree(f, g, Vol, v)
      BY <2>6 DEF Agree
    <3> QED
      BY <3>1, <3>2, SumChange, Zenon
  <2>10. Differ(h, k, Vol, v)
    <3>1. v \in Vol /\ IsFiniteSet(Vol)
      BY <1>1, <2>8
    <3>2. Agree(h, k, Vol, v)
      BY <2>6 DEF Agree
    <3> QED
      BY <3>1, <3>2, SumChange, Zenon
  <2>11. /\ SumFunctionOnSet(Counted(meter[m].todo), Vol) = SumFunctionOnSet(f, Vol)
         /\ SumFunctionOnSet(ToCount(meter[m].todo), Vol) = SumFunctionOnSet(h, Vol)
    BY <2>b, <2>5
  <2>12. Counted(rest)' = Counted(rest) /\ ToCount(rest)' = ToCount(rest)
    BY <1>0, <2>3 DEF Counted, ToCount
  <2>13. /\ SumFunctionOnSet(Counted(meter[m].todo), Vol)' = SumFunctionOnSet(g, Vol)
         /\ SumFunctionOnSet(ToCount(meter[m].todo), Vol)' = SumFunctionOnSet(k, Vol)
    BY <2>2, <2>5, <2>12
  <2>14. SumFunctionOnSet(Growth, Vol)' = SumFunctionOnSet(Growth, Vol)
    BY DEF Growth
  <2>15. f[v] \in Int /\ g[v] \in Int /\ h[v] \in Int /\ k[v] \in Int
    BY <1>1, <2>6
  <2> QED
    BY <1>0, <2>c, <2>2, <2>4, <2>7, <2>8, <2>9, <2>10, <2>11, <2>13, <2>14, <2>15 DEF MeasureInv, Differ
<1> QED
  BY <1>2, <1>3

\* The total is done, and the unused volumes are listed.
LEMMA UnusedMeasure ==
  ASSUME Types, NEW m \in Meters, ListUnused(m), MeasureInv(m)
  PROVE  MeasureInv(m)'
<1>0. /\ meter[m].sum \in Int /\ meter[m].pulled \in Nat /\ meter[m] \in MeterType
      /\ meter[m].pc = "total" /\ meter[m].todo = {} /\ ~meter[m].failed /\ UNCHANGED meta
  BY DEF Types, MeterTypes, MeterType, ListUnused
<1>a. PICK rest : rest = UnusedVolumes
  OBVIOUS
<1>1. meter'[m] = [meter[m] EXCEPT !.pc = "unused", !.total = meter[m].sum, !.sum = 0, !.todo = rest]
  <2>1. Reads(m, [meter[m] EXCEPT !.pc = "unused", !.total = meter[m].sum, !.sum = 0, !.todo = rest])
    BY <1>a, UnusedStep
  <2> QED
    BY <2>1, ReadsTypes
<1>2. /\ meter'[m].pc = "unused" /\ meter'[m].total = meter[m].sum /\ meter'[m].sum = 0
      /\ meter'[m].pulled = meter[m].pulled /\ meter'[m].todo = rest
  BY <1>0, <1>1 DEF MeterType
<1>3. PICK f, k : f = Counted({}) /\ k = ToCount(rest)
  OBVIOUS
<1>4. \A v \in Vol : Low(v) \in Nat /\ Growth[v] \in Nat /\ Low(v)' = Low(v)
  BY <1>0, Lows DEF Low
<1> DEFINE g == [v \in Vol |-> f[v] + Growth[v]]
<1>5. \A v \in rest : meta[v] # Missing
  BY <1>a DEF UnusedVolumes, Vols
<1>6. \A v \in Vol : f[v] \in Int /\ k[v] \in Int /\ g[v] \in Int /\ Growth[v] \in Int
                     /\ g[v] = f[v] + Growth[v] /\ k[v] =< g[v]
  BY <1>3, <1>4, <1>5 DEF Counted, ToCount
<1>7. IsFiniteSet(Vol) /\ SumFunctionOnSet(Growth, Vol) \in Nat
  BY MeasureTypes
<1> HIDE DEF g
<1>8. SumFunctionOnSet(k, Vol) =< SumFunctionOnSet(g, Vol) /\ SumFunctionOnSet(k, Vol) \in Int
  BY <1>6, <1>7, SumMonotone
<1>9. SumFunctionOnSet(g, Vol) = SumFunctionOnSet(f, Vol) + SumFunctionOnSet(Growth, Vol)
  BY <1>6, <1>7, SumPlus
<1>10. SumFunctionOnSet(f, Vol) \in Int
  BY <1>6, <1>7, SumUnfold
<1>11. meter[m].sum + meter[m].pulled >= SumFunctionOnSet(f, Vol)
  BY <1>0, <1>3 DEF MeasureInv
<1>12. ToCount(rest)' = ToCount(rest)
  BY <1>0, <1>4 DEF ToCount
<1>13. SumFunctionOnSet(ToCount(meter[m].todo), Vol)' = SumFunctionOnSet(k, Vol)
  BY <1>2, <1>3, <1>12
<1>14. SumFunctionOnSet(Growth, Vol)' = SumFunctionOnSet(Growth, Vol)
  BY DEF Growth
<1> QED
  BY <1>0, <1>2, <1>7, <1>8, <1>9, <1>10, <1>11, <1>13, <1>14 DEF MeasureInv

\* Both sums are done.
LEMMA ListMeasure ==
  ASSUME Types, NEW m \in Meters, ListImages(m), MeasureInv(m)
  PROVE  MeasureInv(m)'
<1>0. /\ meter[m].sum \in Int /\ meter[m].total \in Int /\ meter[m].pulled \in Nat /\ meter[m] \in MeterType
      /\ meter[m].pc \in {"total", "unused"} /\ (meter[m].pc = "unused" \/ meter[m].failed)
  BY DEF Types, MeterTypes, MeterType, ListImages
<1>1. PICK used \in Int :
         /\ used = IF meter[m].failed THEN 0 ELSE meter[m].total - meter[m].sum
         /\ Reads(m, [meter[m] EXCEPT !.pc = "quota", !.sum = 0, !.failed = FALSE, !.todo = List,
                                      !.used = used, !.stable = {i \in List : image[i].done}])
  BY ListStep
<1>2. meter'[m] = [meter[m] EXCEPT !.pc = "quota", !.sum = 0, !.failed = FALSE, !.todo = List,
                                   !.used = used, !.stable = {i \in List : image[i].done}]
  BY <1>1, ReadsTypes
<1>3. meter'[m].pc = "quota" /\ meter'[m].used = used /\ meter'[m].pulled = meter[m].pulled
  BY <1>0, <1>2 DEF MeterType
<1>4. /\ SumFunctionOnSet(ToCount(meter[m].todo), Vol) \in Nat
      /\ SumFunctionOnSet(Growth, Vol) \in Nat
  BY MeasureTypes
<1>5. SumFunctionOnSet(Growth, Vol)' = SumFunctionOnSet(Growth, Vol)
  BY DEF Growth
<1>6. used + meter[m].pulled + SumFunctionOnSet(Growth, Vol) >= 0
  BY <1>0, <1>1, <1>4 DEF MeasureInv
<1> QED
  BY <1>3, <1>5, <1>6 DEF MeasureInv

\* A reader that starts adding up.
LEMMA StartMeasure ==
  ASSUME Types, NEW m \in Meters, StartMetrics(m)
  PROVE  MeasureInv(m)'
<1>a. PICK todo : todo = Vols
  OBVIOUS
<1>1. meter'[m] = [IdleMeter EXCEPT !.pc = "total", !.todo = todo] /\ UNCHANGED meta
  BY <1>a, StartReadStep, ReadsTypes DEF StartMetrics
<1>2. meter'[m].pc = "total" /\ meter'[m].sum = 0 /\ meter'[m].pulled = 0 /\ meter'[m].todo = todo
  BY <1>1 DEF IdleMeter
<1>3. PICK f : f = Counted(todo)
  OBVIOUS
<1>4. \A v \in Vol : f[v] = 0
  BY <1>a, <1>3 DEF Counted, Vols
<1>5. SumFunctionOnSet(f, Vol) = 0
  <2>1. IsFiniteSet(Vol) /\ \A v \in Vol : f[v] \in Int /\ f[v] = f[v] + f[v]
    BY <1>4, QuotaAssumption
  <2>2. SumFunctionOnSet(f, Vol) = SumFunctionOnSet(f, Vol) + SumFunctionOnSet(f, Vol)
    BY <2>1, SumPlus
  <2>3. SumFunctionOnSet(f, Vol) \in Int
    BY <2>1, SumUnfold
  <2>4. PICK x \in Int : x = SumFunctionOnSet(f, Vol)
    BY <2>3
  <2>5. x = x + x
    BY <2>2, <2>4
  <2>6. x = 0
    BY <2>5
  <2> QED
    BY <2>4, <2>6
<1>6. Counted(todo)' = Counted(todo)
  BY <1>1 DEF Counted, Low
<1>7. SumFunctionOnSet(Counted(meter[m].todo), Vol)' = 0
  BY <1>2, <1>3, <1>5, <1>6
<1> QED
  BY <1>2, <1>7 DEF MeasureInv

\* The reader that takes a step, and the others.
LEMMA ReadersMeasure ==
  ASSUME Types, Types', NEW m \in Meters, EmitMetrics(m) \/ Stats(m) \/ GenerateMetadata(m),
         \A n \in Meters : MeasureInv(n)
  PROVE  \A n \in Meters : MeasureInv(n)'
<1>1. \A v \in Vol : \/ meta'[v] \in {meta[v], Missing}
                     \/ meta[v] # Missing /\ meta'[v] \in {Torn, DuSize[v]}
  <2>1. CASE UNCHANGED meta
    BY <2>1
  <2>2. ASSUME NEW v \in Vol, meta' = [meta EXCEPT ![v] = Torn], meta[v] # Missing
        PROVE  <1>1
    <3>1. meta'[v] = Torn /\ \A w \in Vol : w # v => meta'[w] = meta[w]
      BY <2>2, MetaStep
    <3> QED
      BY <2>2, <3>1
  <2>3. ASSUME NEW v \in Vol, meta' = [meta EXCEPT ![v] = IF meta[v] = Missing THEN Missing ELSE DuSize[v]]
        PROVE  <1>1
    <3>1. /\ meta'[v] = IF meta[v] = Missing THEN Missing ELSE DuSize[v]
          /\ \A w \in Vol : w # v => meta'[w] = meta[w]
      BY <2>3, MetaStep
    <3> QED
      BY <3>1
  <2> QED
    BY <2>1, <2>2, <2>3, ReadersStep
<1>2. \E r : Reads(m, r)
  BY ReadersStep
<1>3. \A n \in Meters : n # m => meter'[n] = meter[n]
  BY <1>2, ReadsTypes
<1>4. \A n \in Meters : n # m => MeasureInv(n)'
  BY <1>1, <1>3, MeasureFrame
<1>5. MeasureInv(m)'
  <2>0. meter[m] \in MeterType
    BY DEF Types, MeterTypes
  <2>1. CASE StartMetrics(m)
    BY <2>1, StartMeasure
  <2>2. CASE CountVolume(m)
    BY <2>2, CountMeasure
  <2>3. CASE ListUnused(m)
    BY <2>3, UnusedMeasure
  <2>4. CASE ListImages(m)
    BY <2>4, ListMeasure
  <2>5. CASE ReadImageQuota(m)
    <3>1. PICK i \in meter[m].todo :
            Reads(m, [meter[m] EXCEPT !.todo = meter[m].todo \ {i},
                          !.sum = meter[m].sum + IF image[i].quota < 0 THEN 0 ELSE image[i].quota])
      BY <2>5, QuotaStep
    <3>a. PICK todo, s : /\ todo = meter[m].todo \ {i}
                         /\ s = meter[m].sum + IF image[i].quota < 0 THEN 0 ELSE image[i].quota
      OBVIOUS
    <3>b. Reads(m, [meter[m] EXCEPT !.todo = todo, !.sum = s])
      BY <3>1, <3>a
    <3>2. meter'[m] = [meter[m] EXCEPT !.todo = todo, !.sum = s]
      BY <3>b, ReadsTypes
    <3>3. /\ meter'[m].pc = "quota" /\ meter[m].pc = "quota" /\ meter'[m].used = meter[m].used
          /\ meter'[m].pulled = meter[m].pulled
      BY <2>0, <2>5, <3>2 DEF ReadImageQuota, MeterType
    <3>4. SumFunctionOnSet(Growth, Vol)' = SumFunctionOnSet(Growth, Vol)
      BY DEF Growth
    <3> QED
      BY <3>3, <3>4 DEF MeasureInv
  <2>6. ASSUME meter'[m].pc \notin {"total", "unused", "quota"}
        PROVE  MeasureInv(m)'
    BY <2>6 DEF MeasureInv
  <2>7. CASE Stats(m) \/ GenerateMetadata(m) \/ TryEmitUsage(m)
    <3>1. meter'[m].pc \notin {"total", "unused", "quota"}
      <4>1. ASSUME Reads(m, IdleMeter)
            PROVE  meter'[m].pc \notin {"total", "unused", "quota"}
        <5>1. meter'[m] = IdleMeter
          BY <4>1, ReadsTypes
        <5> QED
          BY <5>1 DEF IdleMeter
      <4>2. ASSUME NEW i \in Id, StartStats(m, i)
            PROVE  meter'[m].pc \notin {"total", "unused", "quota"}
        <5>1. Reads(m, [IdleMeter EXCEPT !.pc = "stats", !.id = i])
          BY <4>2, StartReadStep
        <5>2. meter'[m] = [IdleMeter EXCEPT !.pc = "stats", !.id = i]
          BY <5>1, ReadsTypes
        <5> QED
          BY <5>2 DEF IdleMeter
      <4>3. CASE StartGenerate(m)
        <5>a. PICK todo : todo = Vols
          OBVIOUS
        <5>1. Reads(m, [IdleMeter EXCEPT !.pc = "generate", !.todo = todo])
          BY <4>3, <5>a, StartReadStep
        <5>2. meter'[m] = [IdleMeter EXCEPT !.pc = "generate", !.todo = todo]
          BY <5>1, ReadsTypes
        <5> QED
          BY <5>2 DEF IdleMeter
      <4>4. CASE ListQuota(m)
        <5>1. ASSUME NEW a, NEW b, NEW c, Reads(m, [meter[m] EXCEPT !.pc = "info", !.stable = a, !.used = b, !.sum = c])
              PROVE  meter'[m].pc \notin {"total", "unused", "quota"}
          <6>1. meter'[m] = [meter[m] EXCEPT !.pc = "info", !.stable = a, !.used = b, !.sum = c]
            BY <5>1, ReadsTypes
          <6> QED
            BY <2>0, <6>1 DEF MeterType
        <5> QED
          BY <4>1, <4>4, <5>1, StatsStep
      <4>5. CASE ReadImageInfo(m)
        <5>1. ASSUME NEW a, Reads(m, [meter[m] EXCEPT !.pc = "stated", !.total = a])
              PROVE  meter'[m].pc \notin {"total", "unused", "quota"}
          <6>1. meter'[m] = [meter[m] EXCEPT !.pc = "stated", !.total = a]
            BY <5>1, ReadsTypes
          <6> QED
            BY <2>0, <6>1 DEF MeterType
        <5> QED
          BY <4>1, <4>5, <5>1, InfoReadStep
      <4>6. CASE EndStats(m) \/ TryEmitUsage(m) \/ EndGenerate(m)
        BY <4>1, <4>6, GenerateStep
      <4>7. ASSUME NEW v \in Vol, CreateMetaFile(m, v)
            PROVE  meter'[m].pc \notin {"total", "unused", "quota"}
        <5>1. ASSUME NEW a, Reads(m, [meter[m] EXCEPT !.pc = "encode", !.id = v, !.todo = a])
              PROVE  meter'[m].pc \notin {"total", "unused", "quota"}
          <6>1. meter'[m] = [meter[m] EXCEPT !.pc = "encode", !.id = v, !.todo = a]
            BY <5>1, ReadsTypes
          <6> QED
            BY <2>0, <6>1 DEF MeterType
        <5> QED
          BY <4>7, <5>1, GenerateStep
      <4>8. CASE EncodeMeta(m)
        <5>1. meter'[m] = [meter[m] EXCEPT !.pc = "generate", !.id = Missing]
          BY <4>8, GenerateStep, ReadsTypes
        <5> QED
          BY <2>0, <5>1 DEF MeterType
      <4> QED
        BY <2>7, <4>2, <4>3, <4>4, <4>5, <4>6, <4>7, <4>8 DEF Stats, FetchStats, VolumeStats, GenerateMetadata
    <3> QED
      BY <2>6, <3>1
  <2> QED
    BY <2>1, <2>2, <2>3, <2>4, <2>5, <2>7 DEF EmitMetrics
<1> QED
  BY <1>4, <1>5

\* What a step that is none of a reader's does to the readers.
ReaderKept(m) ==
  /\ meter'[m].pc = meter[m].pc /\ meter'[m].failed = meter[m].failed /\ meter'[m].sum = meter[m].sum
  /\ meter'[m].total = meter[m].total /\ meter'[m].used = meter[m].used /\ meter'[m].id = meter[m].id
  /\ meter'[m].pulled = meter[m].pulled /\ meter'[m].todo = meter[m].todo

LEMMA OthersReaders ==
  ASSUME Types, Next,
         ~ \E m \in Meters : EmitMetrics(m) \/ Stats(m) \/ GenerateMetadata(m),
         ~ \E v \in Vol : PullVolume(v) \/ CollectVolume(v),
         ~ Restart
  PROVE  /\ UNCHANGED meta
         /\ UNCHANGED meter \/ \E i \in Id : Forget(i)
<1>1. CASE \E p \in Creators : Create(p)
  <2>1. PICK p \in Creators : Create(p)
    BY <1>1
  <2>2. CASE PurgeImage(p)
    BY <2>2, PurgeStep DEF PurgeImage
  <2>3. CASE ~PurgeImage(p)
    BY <2>1, <2>3 DEF Create, CreateImage, Limit, StartCreate, MkdirImage, GetLowerDirs, ApplyDiskLimit, Alloc,
       UntilSucceeds, SetProjectID, SetLimit, OpenQuotaFile, WriteQuotaFile, CreateImageDirectories,
       WriteImageInfo, CreateFails, RunTardisFails, TardisFails
  <2> QED
    BY <2>2, <2>3
<1>2. CASE \E p \in Deleters, i \in Id : StartDelete(p, i)
  BY <1>2 DEF StartDelete
<1>3. CASE \E p \in Process : DestroyImage(p) \/ Kill(p)
  <2>1. PICK p \in Process : DestroyImage(p) \/ Kill(p)
    BY <1>3
  <2>2. CASE RemoveImage(p)
    BY <2>2, RemoveStep DEF RemoveImage
  <2>3. CASE ~RemoveImage(p)
    BY <2>1, <2>3 DEF DestroyImage, Kill, GetProjectID, RemoveImageFails, FreeProjectID
  <2> QED
    BY <2>2, <2>3
<1>4. CASE \E i \in Id : ContainerWrites(i)
  BY <1>4 DEF ContainerWrites
<1> QED
  BY <1>1, <1>2, <1>3, <1>4 DEF Next

LEMMA ForgetKeeps ==
  ASSUME Types, UNCHANGED meter \/ \E i \in Id : Forget(i)
  PROVE  \A m \in Meters : ReaderKept(m)
<1>1. CASE UNCHANGED meter
  BY <1>1 DEF ReaderKept
<1>2. ASSUME NEW i \in Id, Forget(i)
      PROVE  \A m \in Meters : ReaderKept(m)
  <2>1. \A m \in Meters : meter'[m] = [meter[m] EXCEPT !.stable = meter[m].stable \ {i}] /\ meter[m] \in MeterType
    BY <1>2 DEF Forget, Types, MeterTypes
  <2> QED
    BY <2>1 DEF ReaderKept, MeterType
<1> QED
  BY <1>1, <1>2

LEMMA NextMeasure ==
  Types /\ (\A m \in Meters : MeasureInv(m)) /\ [Next]_vars => (\A m \in Meters : MeasureInv(m))'
<1> SUFFICES ASSUME Types, \A m \in Meters : MeasureInv(m), [Next]_vars
             PROVE  \A m \in Meters : MeasureInv(m)'
  OBVIOUS
<1>0. Types'
  BY NextTypes
<1>1. ASSUME \A m \in Meters : ReaderKept(m),
             \A v \in Vol : meta'[v] \in {meta[v], Missing}
      PROVE  \A m \in Meters : MeasureInv(m)'
  <2> SUFFICES ASSUME NEW m \in Meters
               PROVE  MeasureInv(m)'
    OBVIOUS
  <2>1. ReaderKept(m) /\ MeasureInv(m)
    BY <1>1
  <2> QED
    BY <1>0, <1>1, <2>1, MeasureFrame DEF ReaderKept
<1>2. CASE UNCHANGED vars
  <2>1. UNCHANGED <<meta, meter>>
    BY <1>2 DEF vars
  <2> QED
    BY <1>1, <2>1, ForgetKeeps
<1>3. CASE \E m \in Meters : EmitMetrics(m) \/ Stats(m) \/ GenerateMetadata(m)
  BY <1>0, <1>3, ReadersMeasure
<1>4. CASE \E v \in Vol : PullVolume(v)
  BY <1>4, PullMeasure
<1>5. CASE \E v \in Vol : CollectVolume(v)
  <2>1. PICK v \in Vol : CollectVolume(v)
    BY <1>5
  <2>2. meta'[v] = Missing /\ (\A w \in Vol : w # v => meta'[w] = meta[w]) /\ UNCHANGED meter
    BY <2>1, MetaStep DEF CollectVolume
  <2> QED
    BY <1>1, <2>2, ForgetKeeps
<1>6. CASE Restart
  <2>1. \A m \in Meters : meter'[m].pc = "idle"
    BY <1>6 DEF Restart, IdleMeter
  <2> QED
    BY <2>1 DEF MeasureInv
<1>7. CASE /\ Next
           /\ ~ \E m \in Meters : EmitMetrics(m) \/ Stats(m) \/ GenerateMetadata(m)
           /\ ~ \E v \in Vol : PullVolume(v) \/ CollectVolume(v)
           /\ ~ Restart
  <2>1. UNCHANGED meta /\ (UNCHANGED meter \/ \E i \in Id : Forget(i))
    BY <1>7, OthersReaders
  <2> QED
    BY <1>1, <2>1, ForgetKeeps
<1> QED
  BY <1>2, <1>3, <1>4, <1>5, <1>6, <1>7

\* The size of the volumes in use that a create reports (store_measurer.go,
\* metrics) is a difference of two sums taken without a lock: it is never
\* below zero by more than was pulled since it began, or than regenerating
\* the metadata can add, whatever is pulled, collected, regenerated or torn
\* in between.
THEOREM UsedNotFarBelow == Spec => []UsedBounded
<1>1. Init => Types /\ \A m \in Meters : MeasureInv(m)
  <2>1. Init => \A m \in Meters : MeasureInv(m)
    <3>1. Init => \A m \in Meters : meter[m].pc = "idle"
      BY DEF Init, IdleMeter
    <3> QED
      BY <3>1 DEF MeasureInv
  <2> QED
    BY <2>1, InitTypes
<1>2. (Types /\ \A m \in Meters : MeasureInv(m)) /\ [Next]_vars => (Types /\ \A m \in Meters : MeasureInv(m))'
  BY NextTypes, NextMeasure
<1>3. (\A m \in Meters : MeasureInv(m)) => UsedBounded
  BY DEF MeasureInv, UsedBounded
<1> QED
  BY <1>1, <1>2, <1>3, PTL DEF Spec

------------------------------------------------------------------------------
(* Images that stay *)

LEMMA SumSubset ==
  ASSUME NEW S, IsFiniteSet(S), NEW f, \A x \in S : f[x] \in Nat, NEW T, T \subseteq S
  PROVE  SumFunctionOnSet(f, T) =< SumFunctionOnSet(f, S)
<1> DEFINE Right(U) == SumFunctionOnSet(f, T) =< SumFunctionOnSet(f, U)
           Bad == {U \in SUBSET S : T \subseteq U /\ ~Right(U)}
<1>1. \A U \in SUBSET S : IsFiniteSet(U) /\ SumFunctionOnSet(f, U) \in Nat
  BY FS_Subset, SumPositive
<1>2. ASSUME NEW U \in SUBSET S, T \subseteq U, NEW x \in U \ T, Right(U \ {x})
      PROVE  Right(U)
  <2>1. IsFiniteSet(U) /\ x \in U /\ f[x] \in Nat /\ \A y \in U : f[y] \in Int
    BY <1>1
  <2>2. SumFunctionOnSet(f, U) = f[x] + SumFunctionOnSet(f, U \ {x})
    BY <2>1, SumRemove
  <2>3. SumFunctionOnSet(f, U \ {x}) \in Nat /\ SumFunctionOnSet(f, T) \in Nat
    BY <1>1
  <2> QED
    BY <1>2, <2>1, <2>2, <2>3
<1>3. Right(T)
  BY <1>1
<1> HIDE DEF Right
<1>4. Bad = {}
  <2> SUFFICES ASSUME Bad # {} PROVE FALSE
    OBVIOUS
  <2>1. PICK U \in Bad : \A z \in U : U \ {z} \notin Bad
    BY Smallest
  <2>2. PICK x \in U \ T : TRUE
    BY <1>3, <2>1
  <2>3. Right(U \ {x})
    BY <2>1, <2>2
  <2> QED
    BY <1>2, <2>1, <2>2, <2>3
<1>5. Right(S)
  BY <1>4
<1> QED
  BY <1>5 DEF Right

\* What a step leaves of an image that is done.
Stays(i) == image[i].done => image'[i].done /\ image'[i].want = image[i].want

\* Commands that make images work on images that are not done; the ones that
\* remove an image take it off the lists of the readers.
LEMMA DoneStays ==
  ASSUME Types, ProjectInv, Next
  PROVE  \/ \A i \in Id : Stays(i)
         \/ \E j \in Id : Forget(j) /\ \A i \in Id : i # j => Stays(i)
<1>0. image \in [Id -> ImageType]
  BY DEF Types, ImageTypes
<1>1. ASSUME UNCHANGED image PROVE \A i \in Id : Stays(i)
  BY <1>1 DEF Stays
<1>2. ASSUME NEW j \in Id, ~image[j].done, NEW r, image' = [image EXCEPT ![j] = r]
      PROVE  \A i \in Id : Stays(i)
  BY <1>0, <1>2 DEF Stays
<1>3. CASE \E p \in Creators : Create(p)
  <2>1. PICK p \in Creators : Create(p)
    BY <1>3
  <2>a. PICK j : j = proc[p].id
    OBVIOUS
  <2>2. CASE PurgeImage(p)
    <3>1. j \in Id /\ Puts(j, NoImage) /\ Forget(j)
      BY <2>a, <2>2, PurgeStep DEF PurgeImage
    <3>2. \A i \in Id : i # j => image'[i] = image[i]
      BY <3>1, PutsTypes
    <3> QED
      BY <3>1, <3>2 DEF Stays
  <2>3. CASE MkdirImage(p)
    <3>1. /\ j \in Id /\ (UNCHANGED image \/ (image[j].maker = Missing /\ \E r : image' = [image EXCEPT ![j] = r]))
      BY <2>a, <2>3, MkdirStep DEF Puts
    <3>2. image[j].maker = Missing => ~image[j].done
      BY <3>1 DEF Types, ImageTypes, NoImage
    <3> QED
      BY <1>1, <1>2, <3>1, <3>2
  <2>4. CASE proc[p].pc \in MakePC /\ \E r : image' = [image EXCEPT ![j] = r]
    <3>1. j \in Id /\ ~image[j].done
      BY <2>a, <2>4, AloneAtWork DEF Process
    <3> QED
      BY <1>2, <2>4, <3>1
  <2>5. CASE SetProjectID(p) \/ OpenQuotaFile(p) \/ WriteQuotaFile(p) \/ CreateImageDirectories(p) \/ WriteImageInfo(p)
    <3>1. proc[p].pc \in MakePC
      BY <2>5 DEF MakePC, SetProjectID, OpenQuotaFile, WriteQuotaFile, CreateImageDirectories, WriteImageInfo
    <3>2. UNCHANGED image \/ \E r : image' = [image EXCEPT ![j] = r]
      BY <2>a, <2>5 DEF SetProjectID, OpenQuotaFile, WriteQuotaFile, CreateImageDirectories, WriteImageInfo, SetImage
    <3> QED
      BY <1>1, <2>4, <3>1, <3>2
  <2>6. CASE \/ \E i \in Id, s \in DiskSpec : StartCreate(p, i, s)
             \/ GetLowerDirs(p) \/ ApplyDiskLimit(p) \/ Alloc(p) \/ UntilSucceeds(p) \/ SetLimit(p)
             \/ CreateFails(p) \/ RunTardisFails(p) \/ TardisFails(p)
    <3>1. UNCHANGED image
      BY <2>6 DEF StartCreate, GetLowerDirs, ApplyDiskLimit, Alloc, UntilSucceeds, SetLimit, CreateFails,
         RunTardisFails, TardisFails
    <3> QED
      BY <1>1, <3>1
  <2> QED
    BY <2>1, <2>2, <2>3, <2>5, <2>6 DEF Create, CreateImage, Limit
<1>4. CASE \E p \in Deleters, i \in Id : StartDelete(p, i)
  BY <1>1, <1>4 DEF StartDelete
<1>5. CASE \E p \in Process : DestroyImage(p) \/ Kill(p)
  <2>1. PICK p \in Process : DestroyImage(p) \/ Kill(p)
    BY <1>5
  <2>2. CASE RemoveImage(p)
    <3>a. PICK j : j = proc[p].id
      OBVIOUS
    <3>1. j \in Id /\ Puts(j, NoImage) /\ Forget(j)
      BY <2>2, <3>a, RemoveStep DEF RemoveImage
    <3>2. \A i \in Id : i # j => image'[i] = image[i]
      BY <3>1, PutsTypes
    <3> QED
      BY <3>1, <3>2 DEF Stays
  <2>3. CASE ~RemoveImage(p)
    <3>1. UNCHANGED image
      BY <2>1, <2>3 DEF DestroyImage, Kill, GetProjectID, RemoveImageFails, FreeProjectID
    <3> QED
      BY <1>1, <3>1
  <2> QED
    BY <2>2, <2>3
<1>6. CASE \E m \in Meters : EmitMetrics(m) \/ Stats(m) \/ GenerateMetadata(m)
  <2>1. UNCHANGED image
    BY <1>6, ReadersStep DEF ReadersOnly
  <2> QED
    BY <1>1, <2>1
<1>7. ASSUME NEW j \in Id, ContainerWrites(j)
      PROVE  \A i \in Id : Stays(i)
  <2>1. PICK n : n = image[j].used + BlockSize
    OBVIOUS
  <2>2. Puts(j, [image[j] EXCEPT !.used = n])
    BY <1>7, <2>1, WritesStep
  <2>3. image'[j] = [image[j] EXCEPT !.used = n] /\ \A i \in Id : i # j => image'[i] = image[i]
    BY <2>2, PutsTypes
  <2>4. image[j] \in ImageType
    BY <1>0
  <2>5. image'[j].done = image[j].done /\ image'[j].want = image[j].want
    BY <2>3, <2>4 DEF ImageType
  <2> QED
    BY <2>3, <2>5 DEF Stays
<1>8. CASE (\E v \in Vol : PullVolume(v) \/ CollectVolume(v)) \/ Restart
  BY <1>1, <1>8 DEF PullVolume, CollectVolume, Restart
<1> QED
  BY <1>3, <1>4, <1>5, <1>6, <1>7, <1>8 DEF Next

\* What a reader holds of the images that were done when it began and are
\* still there.
Wants == [i \in Id |-> image[i].want]

StableInv(m) ==
  LET r == meter[m] IN
  /\ \A i \in r.stable : image[i].done
  /\ r.pc = "quota" => r.sum >= SumFunctionOnSet(Wants, r.stable \ r.todo)
  /\ r.pc \in {"info", "stated"} /\ r.id \in r.stable /\ image[r.id].want # 0 =>
       r.sum = Rounded(image[r.id].want) /\ r.used =< r.sum
  /\ r.pc = "stated" => r.total >= r.used

LEMMA WantsTypes ==
  ASSUME Types, NEW S, S \subseteq Id
  PROVE  /\ IsFiniteSet(S) /\ \A i \in S : Wants[i] \in Nat /\ Wants[i] \in Int /\ Wants[i] = image[i].want
         /\ SumFunctionOnSet(Wants, S) \in Nat
<1>1. IsFiniteSet(S)
  BY QuotaAssumption, FS_Subset
<1>2. \A i \in S : Wants[i] \in Nat /\ Wants[i] \in Int /\ Wants[i] = image[i].want
  BY DEF Wants, Types, ImageTypes, ImageType
<1>3. SumFunctionOnSet(Wants, S) \in Nat
  BY <1>1, <1>2, SumPositive
<1> QED
  BY <1>1, <1>2, <1>3

\* A reader whose numbers stay, while images that are not on its list change.
LEMMA StableFrame ==
  ASSUME Types, Types', NEW m \in Meters, StableInv(m),
         meter'[m].pc = meter[m].pc, meter'[m].sum = meter[m].sum, meter'[m].id = meter[m].id,
         meter'[m].total = meter[m].total, meter'[m].used = meter[m].used, meter'[m].todo = meter[m].todo,
         meter'[m].stable \subseteq meter[m].stable,
         \A i \in meter'[m].stable : Stays(i)
  PROVE  StableInv(m)'
<1>a. PICK S, T, todo : S = meter[m].stable /\ T = meter'[m].stable /\ todo = meter[m].todo
  OBVIOUS
<1>1. S \subseteq Id /\ T \subseteq S /\ meter[m].sum \in Int
  BY <1>a DEF Types, MeterTypes, MeterType
<1>2. \A i \in T : image[i].done /\ image'[i].done /\ image'[i].want = image[i].want
  BY <1>a, <1>1 DEF StableInv, Stays
<1>3. PICK f, g : f = Wants /\ g = Wants'
  OBVIOUS
<1>4. \A i \in S \ todo : f[i] \in Nat /\ f[i] \in Int
  BY <1>1, <1>3, WantsTypes
<1>5. IsFiniteSet(S \ todo) /\ IsFiniteSet(T \ todo) /\ SumFunctionOnSet(f, S \ todo) \in Nat
  BY <1>1, <1>3, WantsTypes
<1>6. \A i \in T \ todo : f[i] \in Int /\ g[i] \in Int /\ f[i] = g[i]
  BY <1>1, <1>2, <1>3 DEF Wants, Types, ImageTypes, ImageType
<1>7. /\ SumFunctionOnSet(g, T \ todo) =< SumFunctionOnSet(f, T \ todo)
      /\ SumFunctionOnSet(g, T \ todo) \in Int /\ SumFunctionOnSet(f, T \ todo) \in Int
  <2>1. \A i \in T \ todo : g[i] \in Int /\ f[i] \in Int /\ g[i] =< f[i]
    BY <1>6
  <2> QED
    BY <1>5, <2>1, SumMonotone
<1>8. SumFunctionOnSet(f, T \ todo) =< SumFunctionOnSet(f, S \ todo)
  <2>1. T \ todo \subseteq S \ todo
    BY <1>1
  <2> QED
    BY <1>4, <1>5, <2>1, SumSubset
<1>9. SumFunctionOnSet(Wants, meter[m].stable \ meter[m].todo) = SumFunctionOnSet(f, S \ todo)
  BY <1>a, <1>3
<1>10. SumFunctionOnSet(Wants, meter[m].stable \ meter[m].todo)' = SumFunctionOnSet(g, T \ todo)
  BY <1>a, <1>3
<1>11. meter[m].pc = "quota" => meter[m].sum >= SumFunctionOnSet(g, T \ todo)
  BY <1>1, <1>5, <1>7, <1>8, <1>9 DEF StableInv
<1>12. (\A i \in meter[m].stable : image[i].done)'
  BY <1>a, <1>2
<1>13. (meter[m].pc = "quota" => meter[m].sum >= SumFunctionOnSet(Wants, meter[m].stable \ meter[m].todo))'
  BY <1>10, <1>11
<1>14. (/\ meter[m].pc \in {"info", "stated"} /\ meter[m].id \in meter[m].stable /\ image[meter[m].id].want # 0
        => meter[m].sum = Rounded(image[meter[m].id].want) /\ meter[m].used =< meter[m].sum)'
  <2>a. PICK i : i = meter[m].id
    OBVIOUS
  <2>1. meter'[m].id \in meter'[m].stable => /\ i \in T /\ i \in S /\ i = meter[m].id /\ i = meter'[m].id
                                             /\ image'[i].want = image[i].want
    BY <2>a, <1>a, <1>1, <1>2
  <2> QED
    BY <1>a, <2>a, <2>1 DEF StableInv, Rounded
<1>15. (meter[m].pc = "stated" => meter[m].total >= meter[m].used)'
  BY DEF StableInv
<1> QED
  BY <1>12, <1>13, <1>14, <1>15 DEF StableInv

\* A reader that is not looking at images.
LEMMA StableQuiet ==
  ASSUME NEW m \in Meters, UNCHANGED image, meter'[m].pc \notin {"quota", "info", "stated"},
         \A i \in meter'[m].stable : image[i].done
  PROVE  StableInv(m)'
BY DEF StableInv

\* CommittedQuota begins: every image that is done is still to be counted.
LEMMA ListStable ==
  ASSUME Types, NEW m \in Meters, ListImages(m)
  PROVE  StableInv(m)'
<1>0. meter[m] \in MeterType /\ UNCHANGED image
  BY DEF Types, MeterTypes, ListImages, StoreUnchanged
<1>a. PICK S, todo : S = {i \in List : image[i].done} /\ todo = List
  OBVIOUS
<1>1. PICK used \in Int :
         Reads(m, [meter[m] EXCEPT !.pc = "quota", !.sum = 0, !.failed = FALSE, !.todo = todo,
                                   !.used = used, !.stable = S])
  BY <1>a, ListStep
<1>2. meter'[m] = [meter[m] EXCEPT !.pc = "quota", !.sum = 0, !.failed = FALSE, !.todo = todo,
                                   !.used = used, !.stable = S]
  BY <1>1, ReadsTypes
<1>3. meter'[m].pc = "quota" /\ meter'[m].sum = 0 /\ meter'[m].todo = todo /\ meter'[m].stable = S
  BY <1>0, <1>2 DEF MeterType
<1>4. PICK g : g = Wants'
  OBVIOUS
<1>5. SumFunctionOnSet(g, {}) = 0
  BY FS_EmptySet, SumUnfold
<1>6. S \ todo = {} /\ \A i \in S : image[i].done
  BY <1>a
<1>7. SumFunctionOnSet(Wants, meter[m].stable \ meter[m].todo)' = SumFunctionOnSet(g, S \ todo)
  BY <1>3, <1>4
<1>8. SumFunctionOnSet(Wants, meter[m].stable \ meter[m].todo)' = 0
  BY <1>5, <1>6, <1>7
<1> QED
  BY <1>0, <1>3, <1>6, <1>8 DEF StableInv

\* One image_quota file is read: that of an image that is done holds what was
\* asked for.
LEMMA QuotaStable ==
  ASSUME Types, ProjectInv, NEW m \in Meters, ReadImageQuota(m), StableInv(m)
  PROVE  StableInv(m)'
<1>0. /\ meter[m] \in MeterType /\ UNCHANGED image /\ meter[m].pc = "quota" /\ meter[m].sum \in Int
      /\ meter[m].stable \subseteq Id
  BY DEF Types, MeterTypes, MeterType, ReadImageQuota, StoreUnchanged
<1>1. PICK i \in meter[m].todo :
         /\ i \in Id
         /\ Reads(m, [meter[m] EXCEPT !.todo = meter[m].todo \ {i},
                       !.sum = meter[m].sum + IF image[i].quota < 0 THEN 0 ELSE image[i].quota])
  BY QuotaStep
<1>a. PICK S, todo, rest : S = meter[m].stable /\ todo = meter[m].todo /\ rest = meter[m].todo \ {i}
  OBVIOUS
<1>b. PICK n : n = IF image[i].quota < 0 THEN 0 ELSE image[i].quota
  OBVIOUS
<1>c. PICK s : s = meter[m].sum + n
  OBVIOUS
<1>2. Reads(m, [meter[m] EXCEPT !.todo = rest, !.sum = s])
  BY <1>1, <1>a, <1>b, <1>c
<1>3. meter'[m] = [meter[m] EXCEPT !.todo = rest, !.sum = s]
  BY <1>2, ReadsTypes
<1>4. meter'[m].pc = "quota" /\ meter'[m].sum = s /\ meter'[m].todo = rest /\ meter'[m].stable = S
  BY <1>0, <1>a, <1>3 DEF MeterType
<1>5. PICK f : f = Wants
  OBVIOUS
<1>6. SumFunctionOnSet(Wants, meter[m].stable \ meter[m].todo)' = SumFunctionOnSet(f, S \ rest)
  <2>1. Wants' = Wants
    BY <1>0 DEF Wants
  <2> QED
    BY <1>4, <1>5, <2>1
<1>7. SumFunctionOnSet(Wants, meter[m].stable \ meter[m].todo) = SumFunctionOnSet(f, S \ todo)
  BY <1>a, <1>5
<1>8. meter[m].sum >= SumFunctionOnSet(f, S \ todo)
  BY <1>0, <1>7 DEF StableInv
<1>9. n \in Nat /\ (image[i].done => n >= image[i].want) /\ image[i].want \in Nat
  <2>1. image[i] \in ImageType /\ ImageInv(i)
    BY <1>1 DEF Types, ImageTypes, ProjectInv
  <2>2. image[i].want \in Nat /\ image[i].quota \in Nat \cup {Missing, Torn}
    BY <2>1 DEF ImageType
  <2>3. image[i].done /\ image[i].want # 0 => image[i].quota = image[i].want
    BY <2>1 DEF ImageInv
  <2> QED
    BY <1>b, <2>2, <2>3 DEF Missing, Torn
<1>10. /\ IsFiniteSet(S \ todo) /\ SumFunctionOnSet(f, S \ todo) \in Nat
       /\ \A j \in S \ todo : f[j] \in Int
       /\ f[i] = image[i].want /\ f[i] \in Int
  BY <1>0, <1>1, <1>9, <1>a, <1>5, WantsTypes DEF Wants
<1>11. s >= SumFunctionOnSet(f, S \ rest)
  <2>1. CASE i \in S
    <3>1. S \ rest = (S \ todo) \cup {i} /\ i \notin S \ todo
      BY <1>1, <1>a, <2>1
    <3>2. SumFunctionOnSet(f, (S \ todo) \cup {i}) = f[i] + SumFunctionOnSet(f, S \ todo)
      BY <1>10, <3>1, SumAdd
    <3>3. image[i].done
      BY <1>a, <2>1 DEF StableInv
    <3> QED
      BY <1>0, <1>c, <1>8, <1>9, <1>10, <3>1, <3>2, <3>3
  <2>2. CASE i \notin S
    <3>1. S \ rest = S \ todo
      BY <1>a, <2>2
    <3>2. SumFunctionOnSet(f, S \ rest) = SumFunctionOnSet(f, S \ todo)
      BY <3>1, Zenon
    <3> QED
      BY <1>0, <1>c, <1>8, <1>9, <1>10, <3>2
  <2> QED
    BY <2>1, <2>2
<1>12. \A j \in S : image[j].done
  BY <1>a DEF StableInv
<1> QED
  BY <1>0, <1>4, <1>6, <1>11, <1>12 DEF StableInv

\* stats reads usage and limit of the image's project.
LEMMA StatsStable ==
  ASSUME Types, ProjectInv, NEW m \in Meters, ListQuota(m)
  PROVE  StableInv(m)'
<1>0. meter[m] \in MeterType /\ UNCHANGED image /\ meter[m].pc = "stats"
  BY DEF Types, MeterTypes, ListQuota
<1>a. PICK i \in Id : i = meter[m].id
  BY StatsStep
<1>b. PICK n : n = image[i].proj
  OBVIOUS
<1>c. PICK used, sum, S : /\ used = IF n = 0 THEN 0 ELSE Usage(n)
                          /\ sum = IF n = 0 THEN 0 ELSE limit[n]
                          /\ S = IF image[i].done THEN {i} ELSE {}
  OBVIOUS
<1>1. CASE Reads(m, IdleMeter)
  <2>1. meter'[m] = IdleMeter
    BY <1>1, ReadsTypes
  <2>2. meter'[m].pc = "idle" /\ meter'[m].stable = {}
    BY <2>1 DEF IdleMeter
  <2> QED
    BY <1>0, <2>2, StableQuiet
<1>2. CASE Reads(m, [meter[m] EXCEPT !.pc = "info", !.stable = S, !.used = used, !.sum = sum])
  <2>1. meter'[m] = [meter[m] EXCEPT !.pc = "info", !.stable = S, !.used = used, !.sum = sum]
    BY <1>2, ReadsTypes
  <2>2. meter'[m].pc = "info" /\ meter'[m].stable = S /\ meter'[m].used = used /\ meter'[m].sum = sum /\ meter'[m].id = i
    BY <1>0, <1>a, <2>1 DEF MeterType
  <2>3. ASSUME i \in S, image[i].want # 0
        PROVE  sum = Rounded(image[i].want) /\ used =< sum
    <3>1. Limited(i)
      BY <1>c, <2>3 DEF Limited
    <3>2. /\ n # 0 /\ limit[n] = Rounded(image[i].want) /\ image[i].used =< limit[n]
          /\ Usage(n) = image[i].used
      BY <1>b, <3>1, OwnLimit
    <3>3. sum = limit[n] /\ used = image[i].used
      BY <1>c, <3>2, Zenon
    <3> QED
      BY <3>2, <3>3
  <2>4. \A j \in S : image[j].done
    BY <1>c
  <2>5. (/\ meter[m].pc \in {"info", "stated"} /\ meter[m].id \in meter[m].stable /\ image[meter[m].id].want # 0
         => meter[m].sum = Rounded(image[meter[m].id].want) /\ meter[m].used =< meter[m].sum)'
    BY <1>0, <2>2, <2>3 DEF Rounded
  <2> QED
    BY <1>0, <2>2, <2>4, <2>5 DEF StableInv
<1> QED
  BY <1>1, <1>2, <1>a, <1>b, <1>c, StatsStep

\* stats adds the size of the volumes.
LEMMA InfoStable ==
  ASSUME Types, NEW m \in Meters, ReadImageInfo(m), StableInv(m)
  PROVE  StableInv(m)'
<1>0. meter[m] \in MeterType /\ UNCHANGED image /\ meter[m].pc = "info" /\ meter[m].used \in Int
  BY DEF Types, MeterTypes, MeterType, ReadImageInfo, StoreUnchanged
<1>a. PICK i \in Id : i = meter[m].id
  BY InfoReadStep
<1>b. PICK total : total = meter[m].used + image[i].info
  OBVIOUS
<1>1. CASE Reads(m, IdleMeter)
  <2>1. meter'[m] = IdleMeter
    BY <1>1, ReadsTypes
  <2>2. meter'[m].pc = "idle" /\ meter'[m].stable = {}
    BY <2>1 DEF IdleMeter
  <2> QED
    BY <1>0, <2>2, StableQuiet
<1>2. CASE image[i].info \in Nat /\ Reads(m, [meter[m] EXCEPT !.pc = "stated", !.total = total])
  <2>1. meter'[m] = [meter[m] EXCEPT !.pc = "stated", !.total = total]
    BY <1>2, ReadsTypes
  <2>2. /\ meter'[m].pc = "stated" /\ meter'[m].stable = meter[m].stable /\ meter'[m].used = meter[m].used
        /\ meter'[m].sum = meter[m].sum /\ meter'[m].id = meter[m].id /\ meter'[m].total = total
    BY <1>0, <2>1 DEF MeterType
  <2>3. total >= meter[m].used
    BY <1>0, <1>b, <1>2
  <2>4. (/\ meter[m].pc \in {"info", "stated"} /\ meter[m].id \in meter[m].stable /\ image[meter[m].id].want # 0
         => meter[m].sum = Rounded(image[meter[m].id].want) /\ meter[m].used =< meter[m].sum)'
    BY <1>0, <2>2 DEF StableInv, Rounded
  <2>5. (\A j \in meter[m].stable : image[j].done)'
    BY <1>0, <2>2 DEF StableInv
  <2> QED
    BY <2>2, <2>3, <2>4, <2>5 DEF StableInv
<1> QED
  BY <1>1, <1>2, <1>a, <1>b, InfoReadStep

LEMMA ReadersStable ==
  ASSUME Types, Types', ProjectInv, NEW m \in Meters, EmitMetrics(m) \/ Stats(m) \/ GenerateMetadata(m),
         \A n \in Meters : StableInv(n)
  PROVE  \A n \in Meters : StableInv(n)'
<1>0. UNCHANGED image /\ meter[m] \in MeterType /\ StableInv(m) /\ \E r : Reads(m, r)
  BY ReadersStep DEF ReadersOnly, Types, MeterTypes
<1>1. \A n \in Meters : n # m => StableInv(n)'
  <2> SUFFICES ASSUME NEW n \in Meters, n # m
               PROVE  StableInv(n)'
    OBVIOUS
  <2>1. meter'[n] = meter[n] /\ \A i \in Id : Stays(i)
    BY <1>0, ReadsTypes DEF Stays
  <2>2. meter[n].stable \subseteq Id
    BY DEF Types, MeterTypes, MeterType
  <2> QED
    BY <2>1, <2>2, StableFrame
<1> SUFFICES StableInv(m)'
  BY <1>1
<1>2. \A i \in meter[m].stable : image[i].done
  BY <1>0 DEF StableInv
<1>3. ASSUME meter'[m].pc \notin {"quota", "info", "stated"},
             meter'[m].stable = {} \/ meter'[m].stable = meter[m].stable
      PROVE  StableInv(m)'
  <2>1. \A i \in meter'[m].stable : image[i].done
    BY <1>2, <1>3
  <2> QED
    BY <1>0, <1>3, <2>1, StableQuiet
<1>4. CASE ListImages(m) \/ ReadImageQuota(m) \/ ListQuota(m) \/ ReadImageInfo(m)
  <2>1. CASE ListImages(m)
    BY <2>1, ListStable
  <2>2. CASE ReadImageQuota(m)
    BY <1>0, <2>2, QuotaStable
  <2>3. CASE ListQuota(m)
    BY <2>3, StatsStable
  <2>4. CASE ReadImageInfo(m)
    BY <1>0, <2>4, InfoStable
  <2> QED
    BY <1>4, <2>1, <2>2, <2>3, <2>4
<1>5. CASE EndStats(m) \/ TryEmitUsage(m) \/ EndGenerate(m)
  <2>1. meter'[m] = IdleMeter
    BY <1>5, GenerateStep, ReadsTypes
  <2>2. meter'[m].pc = "idle" /\ meter'[m].stable = {}
    BY <2>1 DEF IdleMeter
  <2> QED
    BY <1>3, <2>2
<1>6. CASE StartMetrics(m) \/ StartGenerate(m)
  <2>a. PICK todo : todo = Vols
    OBVIOUS
  <2>1. PICK pc \in {"total", "generate"} : Reads(m, [IdleMeter EXCEPT !.pc = pc, !.todo = todo])
    BY <1>6, <2>a, StartReadStep
  <2>2. meter'[m] = [IdleMeter EXCEPT !.pc = pc, !.todo = todo]
    BY <2>1, ReadsTypes
  <2>3. meter'[m].pc = pc /\ meter'[m].stable = {}
    BY <2>2 DEF IdleMeter
  <2> QED
    BY <1>3, <2>1, <2>3
<1>7. ASSUME NEW i \in Id, StartStats(m, i)
      PROVE  StableInv(m)'
  <2>1. Reads(m, [IdleMeter EXCEPT !.pc = "stats", !.id = i])
    BY <1>7, StartReadStep
  <2>2. meter'[m] = [IdleMeter EXCEPT !.pc = "stats", !.id = i]
    BY <2>1, ReadsTypes
  <2>3. meter'[m].pc = "stats" /\ meter'[m].stable = {}
    BY <2>2 DEF IdleMeter
  <2> QED
    BY <1>3, <2>3
<1>8. CASE CountVolume(m)
  <2>0. meter[m].pc \in {"total", "unused"}
    BY <1>8 DEF CountVolume
  <2>1. PICK v \in meter[m].todo :
           /\ v \in Vol
           /\ meta[v] = Torn => Reads(m, [meter[m] EXCEPT !.todo = {}, !.failed = TRUE])
           /\ meta[v] # Torn =>
                Reads(m, [meter[m] EXCEPT !.todo = meter[m].todo \ {v},
                                          !.sum = meter[m].sum + IF meta[v] = Missing THEN 0 ELSE meta[v]])
    BY <1>8, CountStep
  <2>2. CASE meta[v] = Torn
    <3>1. meter'[m] = [meter[m] EXCEPT !.todo = {}, !.failed = TRUE]
      BY <2>1, <2>2, ReadsTypes
    <3>2. meter'[m].pc = meter[m].pc /\ meter'[m].stable = meter[m].stable
      BY <1>0, <3>1 DEF MeterType
    <3> QED
      BY <1>3, <2>0, <3>2
  <2>3. CASE meta[v] # Torn
    <3>a. PICK rest, s : /\ rest = meter[m].todo \ {v}
                         /\ s = meter[m].sum + IF meta[v] = Missing THEN 0 ELSE meta[v]
      OBVIOUS
    <3>1. Reads(m, [meter[m] EXCEPT !.todo = rest, !.sum = s])
      BY <2>1, <2>3, <3>a
    <3>2. meter'[m] = [meter[m] EXCEPT !.todo = rest, !.sum = s]
      BY <3>1, ReadsTypes
    <3>3. meter'[m].pc = meter[m].pc /\ meter'[m].stable = meter[m].stable
      BY <1>0, <3>2 DEF MeterType
    <3> QED
      BY <1>3, <2>0, <3>3
  <2> QED
    BY <2>2, <2>3
<1>9. CASE ListUnused(m)
  <2>a. PICK rest, s : rest = UnusedVolumes /\ s = meter[m].sum
    OBVIOUS
  <2>1. Reads(m, [meter[m] EXCEPT !.pc = "unused", !.total = s, !.sum = 0, !.todo = rest])
    BY <1>9, <2>a, UnusedStep
  <2>2. meter'[m] = [meter[m] EXCEPT !.pc = "unused", !.total = s, !.sum = 0, !.todo = rest]
    BY <2>1, ReadsTypes
  <2>3. meter'[m].pc = "unused" /\ meter'[m].stable = meter[m].stable
    BY <1>0, <2>2 DEF MeterType
  <2> QED
    BY <1>3, <2>3
<1>10. ASSUME NEW v \in Vol, CreateMetaFile(m, v)
       PROVE  StableInv(m)'
  <2>a. PICK rest : rest = meter[m].todo \ {v}
    OBVIOUS
  <2>1. Reads(m, [meter[m] EXCEPT !.pc = "encode", !.id = v, !.todo = rest])
    BY <1>10, <2>a, GenerateStep
  <2>2. meter'[m] = [meter[m] EXCEPT !.pc = "encode", !.id = v, !.todo = rest]
    BY <2>1, ReadsTypes
  <2>3. meter'[m].pc = "encode" /\ meter'[m].stable = meter[m].stable
    BY <1>0, <2>2 DEF MeterType
  <2> QED
    BY <1>3, <2>3
<1>11. CASE EncodeMeta(m)
  <2>1. meter'[m] = [meter[m] EXCEPT !.pc = "generate", !.id = Missing]
    BY <1>11, GenerateStep, ReadsTypes
  <2>2. meter'[m].pc = "generate" /\ meter'[m].stable = meter[m].stable
    BY <1>0, <2>1 DEF MeterType
  <2> QED
    BY <1>3, <2>2
<1> QED
  BY <1>4, <1>5, <1>6, <1>7, <1>8, <1>9, <1>10, <1>11 DEF EmitMetrics, Stats, FetchStats, VolumeStats, GenerateMetadata

LEMMA NextStable ==
  /\ Types /\ (~raced => ProjectInv) /\ (~raced => \A m \in Meters : StableInv(m)) /\ [Next]_vars
  => (~raced => \A m \in Meters : StableInv(m))'
<1> SUFFICES ASSUME Types, ~raced => ProjectInv, ~raced => \A m \in Meters : StableInv(m), [Next]_vars, ~raced'
             PROVE  \A m \in Meters : StableInv(m)'
  OBVIOUS
<1>0. Types' /\ ProjectInv /\ \A m \in Meters : StableInv(m)
  <2>1. ~raced
    BY RacedStays DEF vars
  <2> QED
    BY <2>1, NextTypes
<1>1. \A m \in Meters : meter[m] \in MeterType /\ meter[m].stable \subseteq Id
  BY DEF Types, MeterTypes, MeterType
<1>2. CASE UNCHANGED vars
  <2>1. UNCHANGED <<image, meter>>
    BY <1>2 DEF vars
  <2>2. \A i \in Id : Stays(i)
    BY <2>1 DEF Stays
  <2> QED
    BY <1>0, <1>1, <2>1, <2>2, StableFrame
<1>3. CASE \E m \in Meters : EmitMetrics(m) \/ Stats(m) \/ GenerateMetadata(m)
  BY <1>0, <1>3, ReadersStable
<1>4. CASE \E v \in Vol : PullVolume(v)
  <2>1. PICK v \in Vol : PullVolume(v)
    BY <1>4
  <2> SUFFICES ASSUME NEW m \in Meters
               PROVE  StableInv(m)'
    OBVIOUS
  <2>2. PICK n \in Nat : meter'[m] = [meter[m] EXCEPT !.pulled = n]
    BY <2>1, PullMeters
  <2>3. /\ meter'[m].pc = meter[m].pc /\ meter'[m].sum = meter[m].sum /\ meter'[m].id = meter[m].id
        /\ meter'[m].total = meter[m].total /\ meter'[m].used = meter[m].used /\ meter'[m].todo = meter[m].todo
        /\ meter'[m].stable = meter[m].stable
    BY <1>1, <2>2 DEF MeterType
  <2>4. \A i \in Id : Stays(i)
    BY <2>1 DEF PullVolume, Stays
  <2> QED
    BY <1>0, <1>1, <2>3, <2>4, StableFrame
<1>5. CASE Restart
  <2>1. \A m \in Meters : meter'[m].pc = "idle" /\ meter'[m].stable = {}
    BY <1>5 DEF Restart, IdleMeter
  <2>2. UNCHANGED image
    BY <1>5 DEF Restart
  <2> QED
    BY <2>1, <2>2, StableQuiet
<1>6. CASE /\ Next
           /\ ~ \E m \in Meters : EmitMetrics(m) \/ Stats(m) \/ GenerateMetadata(m)
           /\ ~ \E v \in Vol : PullVolume(v)
           /\ ~ Restart
  <2> SUFFICES ASSUME NEW m \in Meters
               PROVE  StableInv(m)'
    OBVIOUS
  <2>1. UNCHANGED meter \/ \E i \in Id : Forget(i)
    <3>1. CASE \E v \in Vol : CollectVolume(v)
      BY <3>1 DEF CollectVolume
    <3>2. CASE ~ \E v \in Vol : CollectVolume(v)
      BY <1>6, <3>2, OthersReaders
    <3> QED
      BY <3>1, <3>2
  <2>2. ReaderKept(m)
    BY <2>1, ForgetKeeps
  <2>3. ASSUME NEW j \in Id, Forget(j)
        PROVE  meter'[m].stable = meter[m].stable \ {j}
    <3>1. meter'[m] = [meter[m] EXCEPT !.stable = meter[m].stable \ {j}]
      BY <2>3 DEF Forget
    <3> QED
      BY <1>1, <3>1 DEF MeterType
  <2>4. meter'[m].stable \subseteq meter[m].stable
    BY <2>1, <2>3
  <2>5. \A i \in meter'[m].stable : Stays(i)
    <3>1. CASE \A i \in Id : Stays(i)
      BY <1>1, <2>4, <3>1
    <3>2. ASSUME NEW j \in Id, Forget(j), \A i \in Id : i # j => Stays(i)
          PROVE  \A i \in meter'[m].stable : Stays(i)
      BY <1>1, <2>3, <3>2
    <3> QED
      BY <1>0, <1>6, <3>1, <3>2, DoneStays
  <2> QED
    BY <1>0, <2>2, <2>4, <2>5, StableFrame DEF ReaderKept
<1> QED
  BY <1>2, <1>3, <1>4, <1>5, <1>6

LEMMA AlwaysStable ==
  Spec => [](Types /\ (~raced => ProjectInv) /\ (~raced => \A m \in Meters : StableInv(m)))
<1>1. Init => (~raced => \A m \in Meters : StableInv(m))
  <2>1. Init => \A m \in Meters : meter[m].pc = "idle" /\ meter[m].stable = {}
    BY DEF Init, IdleMeter
  <2> QED
    BY <2>1 DEF StableInv
<1> QED
  BY <1>1, AlwaysProjects, NextStable, PTL DEF Spec

\* The committed quota a create reports (store_measurer.go, CommittedQuota)
\* counts every image that was done when the listing was made and is still
\* there, whatever is created, destroyed or torn while it reads, and the
\* sum does not fail; as long as no image was destroyed under another command.
THEOREM CommittedNotMissed == Spec => []CommittedCovered
<1>1. Types /\ (~raced => \A m \in Meters : StableInv(m)) => CommittedCovered
  <2> SUFFICES ASSUME Types, ~raced, NEW m \in Meters, StableInv(m), meter[m].pc = "quota", meter[m].todo = {}
               PROVE  ~meter[m].failed /\ meter[m].sum >= SumFunctionOnSet(Wants, meter[m].stable)
    BY DEF CommittedCovered, Wants
  <2>1. ~meter[m].failed
    BY DEF Types, MeterTypes, MeterOK
  <2>2. meter[m].stable \ meter[m].todo = meter[m].stable
    OBVIOUS
  <2>3. meter[m].sum >= SumFunctionOnSet(Wants, meter[m].stable \ meter[m].todo)
    BY DEF StableInv
  <2> QED
    BY <2>1, <2>2, <2>3
<1> QED
  BY <1>1, AlwaysStable, PTL

\* What stats prints of an image that is not destroyed meanwhile (driver.go
\* FetchStats, tardis) is the image's own limit and a usage within it, even
\* though its quota and its info are read at different times.
THEOREM StatsRight == Spec => []StatsTrue
<1>1. (~raced => \A m \in Meters : StableInv(m)) => StatsTrue
  BY DEF StatsTrue, StableInv, Limited
<1> QED
  BY <1>1, AlwaysStable, PTL
==============================================================================
