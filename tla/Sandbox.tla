------------------------------- MODULE Sandbox -------------------------------
(***************************************************************************)
(* Commands that grootfs runs in processes of its own, for the sake of a   *)
(* user namespace or a chroot: unpack and ensure-base while a base image   *)
(* is pulled, destroy-volume when that fails, destroy-image when a user    *)
(* namespace's image is deleted.  The command (the parent) starts a        *)
(* process; with a user namespace that is a wrapper, which waits on a      *)
(* control pipe until its id mappings are set and then runs the action in  *)
(* a third process.  Any of them may be killed, the stream of a layer may  *)
(* break off anywhere, and a container may still use the image deleted.    *)
(* The image of a failed create is destroyed by the create itself.         *)
(***************************************************************************)
EXTENDS Unpacker

CONSTANTS
  Modes,     \* [uid: Nat, mount: BOOLEAN, maps: Seq([ns, host, size])]
  Stacks,    \* base images: sequences of layers [base, entries]
  MaxFaults  \* bound: failing calls and kills

\* A base image is a sequence of layers, a layer one of entries, and one image
\* has the most layers.  A layer names a path once, and neither makes anything
\* below a path it hides nor links to it.
ASSUME SandboxAssumption ==
  /\ MaxFaults \in Nat
  /\ \A s \in Stacks : s \in Seq(Range(s)) /\ \A k \in DOMAIN s : s[k].entries \in Seq(Range(s[k].entries))
  /\ \E s \in Stacks : \A t \in Stacks : Len(t) <= Len(s)
  /\ \A m \in Modes : (m.uid = 0 \/ m.maps # <<>>) /\ (m.mount => m.uid = 0)
  /\ \A s \in Stacks : \A k \in DOMAIN s : \A i, j \in DOMAIN s[k].entries :
       LET d == s[k].entries[i]  e == s[k].entries[j]
       IN i # j => /\ d.path = e.path => (d.op = "opaque") # (e.op = "opaque")
                   /\ d.op = "whiteout" => ~IsStrictPrefix(d.path, e.path) /\ e.to # d.path

VARIABLES
  mode, stack,  \* how the command runs and what it pulls; <<>>: it deletes
  pc,           \* of the parent
  res,          \* what the call or the command ends with: "ok", "failed",
                \* "disowned" (the image could not be given to its owner)
  image,        \* the image: "none", "made", "mounted" (its rootfs is),
                \* "busy" (a container uses a mount that grootfs's own
                \* mount namespace has, too: one made in another namespace is
                \* seen neither by umount nor by mountpoint)
  vols,         \* volumes of the layers, bottom first
  opaque,       \* the directories in each that are marked opaque
  runs,         \* the calls of Reexec so far, see NewRun
  faults

vars == <<mode, stack, pc, res, image, vols, opaque, runs, faults>>

Clone == CloneUserns(mode)
Layer == stack[Len(vols)]
Fault == faults < MaxFaults /\ faults' = faults + 1

\* One call of Reexec: the command; what is in the control pipe ("open":
\* nothing yet, "byte", "closed"); the id maps set; the wrapper and the
\* process of the action; the entries of the layer put into and taken from
\* the standard input of the action, how that ended ("end": the archive did;
\* "cut", "torn": the stream broke between or within entries), and whether
\* the parent knows that it broke.
NewRun(cmd) ==
  [cmd |-> cmd, ctl |-> "open", ids |-> {}, wrapper |-> "none", action |-> "none",
   sent |-> 0, taken |-> 0, stdin |-> "open", broken |-> FALSE]

Cur == Len(runs)
Entries(r) == IF runs[r].cmd = "unpack" THEN Layer.entries ELSE <<>>
SetRun(r, x) == runs' = [runs EXCEPT ![r] = x]
Ended(state) == state \in {"ok", "failed"}
Over(r) == runs[r].wrapper \in {"none", "ok", "failed"} /\ runs[r].action \in {"none", "ok", "failed"}
Exited == pc = "exited"

Init ==
  /\ mode \in Modes
  /\ stack \in Stacks \cup {<<>>}
  /\ pc = IF stack = <<>> THEN "destroy" ELSE "layer"
  /\ res = "ok"
  /\ image \in IF stack # <<>> THEN {"none"} ELSE {IF mode.mount THEN "mounted" ELSE "made", "busy"}
  /\ vols = <<>> /\ opaque = <<>> /\ runs = <<>> /\ faults = 0

------------------------------------------------------------------------------
(* Reexec                                                                   *)

Reexec(cmd) == runs' = Append(runs, NewRun(cmd)) /\ pc' = "start"

\* The wrapper, or the process of the action itself, is there; the copying
\* of a layer into its standard input starts.
Start ==
  /\ pc = "start"
  /\ IF Clone THEN SetRun(Cur, [runs[Cur] EXCEPT !.wrapper = "waiting"]) /\ pc' = "mapuids"
     ELSE SetRun(Cur, [runs[Cur] EXCEPT !.action = "starting"]) /\ pc' = "wait"
  /\ UNCHANGED <<mode, stack, res, image, vols, opaque, faults>>

Return(r) == pc' = "returned" /\ res' = r

StartFails ==
  /\ pc = "start" /\ Fault /\ Return("failed")
  /\ UNCHANGED <<mode, stack, image, vols, opaque, runs>>

\* setIDMappings: newuidmap, then newgidmap.
MapUIDs ==
  /\ pc = "mapuids"
  /\ SetRun(Cur, [runs[Cur] EXCEPT !.ids = @ \cup {"uid"}]) /\ pc' = "mapgids"
  /\ UNCHANGED <<mode, stack, res, image, vols, opaque, faults>>

MapGIDs ==
  /\ pc = "mapgids"
  /\ SetRun(Cur, [runs[Cur] EXCEPT !.ids = @ \cup {"gid"}]) /\ pc' = "signal"
  /\ UNCHANGED <<mode, stack, res, image, vols, opaque, faults>>

\* Reexec returns at once: the process reads the end of the pipe, and nobody
\* waits for it.  (A process that is dead already may be why.)
SetIDMappingsFails ==
  /\ pc \in {"mapuids", "mapgids"}
  /\ Fault \/ (Ended(runs[Cur].wrapper) /\ UNCHANGED faults)
  /\ SetRun(Cur, [runs[Cur] EXCEPT !.ctl = "closed"]) /\ Return("failed")
  /\ UNCHANGED <<mode, stack, image, vols, opaque>>

Signal ==
  /\ pc = "signal"
  /\ SetRun(Cur, [runs[Cur] EXCEPT !.ctl = "byte"]) /\ pc' = "wait"
  /\ UNCHANGED <<mode, stack, res, image, vols, opaque, faults>>

\* The pipe stays open, as long as the parent lives.
SignalFails ==
  /\ pc = "signal" /\ Fault /\ Return("failed")
  /\ UNCHANGED <<mode, stack, image, vols, opaque, runs>>

\* The copying of standard input is over: the archive was sent, the stream
\* broke, or nobody reads any more.
Copied(r) == runs[r].stdin # "open" \/ runs[r].cmd # "unpack" \/ Over(r)

\* Mutant of Wait: only the process that was started is waited for.
WaitForProcess ==
  /\ pc = "wait"
  /\ LET r == runs[Cur]
         exit == IF Clone THEN r.wrapper ELSE r.action
     IN /\ Ended(exit)
        /\ Return(IF exit = "ok" /\ ~r.broken THEN "ok" ELSE "failed")
  /\ UNCHANGED <<mode, stack, image, vols, opaque, runs, faults>>

\* Mutant of Wait: the error of the copying is dropped.
WaitIgnoringCopy ==
  /\ pc = "wait" /\ Over(Cur) /\ Copied(Cur)
  /\ LET r == runs[Cur] IN Return(IF Clone THEN r.wrapper ELSE r.action)
  /\ UNCHANGED <<mode, stack, image, vols, opaque, runs, faults>>

\* Cmd.Wait: the process has ended, every process that holds its standard
\* output has, and the copying is over; an error of any of these is one.
Wait ==
  /\ pc = "wait" /\ Over(Cur) /\ Copied(Cur)
  /\ LET r == runs[Cur]
         exit == IF Clone THEN r.wrapper ELSE r.action
     IN Return(IF exit = "ok" /\ ~r.broken THEN "ok" ELSE "failed")
  /\ UNCHANGED <<mode, stack, image, vols, opaque, runs, faults>>

CopyEntry(r) ==
  /\ ~Exited /\ ~Over(r) /\ runs[r].stdin = "open"
  /\ runs[r].sent < Len(Entries(r)) /\ runs[r].sent = runs[r].taken
  /\ SetRun(r, [runs[r] EXCEPT !.sent = @ + 1])
  /\ UNCHANGED <<mode, stack, pc, res, image, vols, opaque, faults>>

CopyEnds(r) ==
  /\ ~Exited /\ ~Over(r) /\ runs[r].stdin = "open" /\ runs[r].cmd = "unpack"
  /\ runs[r].sent = Len(Entries(r))
  /\ SetRun(r, [runs[r] EXCEPT !.stdin = "end"])
  /\ UNCHANGED <<mode, stack, pc, res, image, vols, opaque, faults>>

CopyBreaks(r) ==
  /\ ~Exited /\ ~Over(r) /\ runs[r].stdin = "open" /\ runs[r].cmd = "unpack" /\ Fault
  /\ \E how \in {"cut", "torn"} : SetRun(r, [runs[r] EXCEPT !.stdin = how, !.broken = TRUE])
  /\ UNCHANGED <<mode, stack, pc, res, image, vols, opaque>>

------------------------------------------------------------------------------
(* The wrapper                                                              *)

\* Mutant of WaitForIDMappings: it waits for a byte, whatever happens.
WaitForIDMappingsForever(r) ==
  /\ runs[r].wrapper = "waiting" /\ runs[r].ctl = "byte"
  /\ SetRun(r, [runs[r] EXCEPT !.wrapper = "running", !.action = "starting"])
  /\ UNCHANGED <<mode, stack, pc, res, image, vols, opaque, faults>>

\* A byte: run the action.  The end of the pipe: an error.
WaitForIDMappings(r) ==
  /\ runs[r].wrapper = "waiting"
  /\ \/ runs[r].ctl = "byte"
        /\ SetRun(r, [runs[r] EXCEPT !.wrapper = "running", !.action = "starting"])
     \/ runs[r].ctl = "closed" /\ SetRun(r, [runs[r] EXCEPT !.wrapper = "failed"])
  /\ UNCHANGED <<mode, stack, pc, res, image, vols, opaque, faults>>

\* The wrapper fails if the process of the action does.
WrapperEnds(r) ==
  /\ runs[r].wrapper = "running" /\ Ended(runs[r].action)
  /\ SetRun(r, [runs[r] EXCEPT !.wrapper = runs[r].action])
  /\ UNCHANGED <<mode, stack, pc, res, image, vols, opaque, faults>>

------------------------------------------------------------------------------
(* The process of the action                                                *)

Acting(r) == runs[r].action = "acting"
EndAction(r, how) == SetRun(r, [runs[r] EXCEPT !.action = how])

\* The extra files are opened and the root is changed.
ActionStarts(r) ==
  /\ runs[r].action = "starting"
  /\ EndAction(r, "acting")
  /\ UNCHANGED <<mode, stack, pc, res, image, vols, opaque, faults>>

\* The process ends before its action or after it, but does not get to say
\* what it did, or is killed.
ActionFails(r) ==
  /\ runs[r].action \in {"starting", "acting"} /\ Fault
  /\ EndAction(r, "failed")
  /\ UNCHANGED <<mode, stack, pc, res, image, vols, opaque>>

\* The volume the action of run r works on: the one of the layer it was
\* started for, which is the last.
Volume == vols[Len(vols)]

\* RootlessUnmounter: nothing is mounted, as far as grootfs's own mount
\* namespace shows, or an error.
RootlessUnmount == image \notin {"mounted", "busy"}

EnsureBaseDirectoryExists(r) ==
  /\ Acting(r) /\ runs[r].cmd = "ensure-base"
  /\ LET parent == IF Len(vols) = 1 THEN <<>> ELSE vols[Len(vols) - 1]
         can == CanEnsureBase(Volume, parent, Layer.base)
     IN /\ vols' = IF can THEN [vols EXCEPT ![Len(vols)] = EnsureBase(@, parent, Layer.base)] ELSE vols
        /\ EndAction(r, IF can THEN "ok" ELSE "failed")
  /\ UNCHANGED <<mode, stack, pc, res, image, opaque, faults>>

UnpackNext(r) ==
  /\ Acting(r) /\ runs[r].taken < runs[r].sent
  /\ LET e == Layer.entries[runs[r].taken + 1]
     IN IF CanUnpack(mode, Volume, Layer.base, e)
        THEN /\ vols' = [vols EXCEPT ![Len(vols)] = UnpackEntry(mode, @, Layer.base, e)]
             /\ SetRun(r, [runs[r] EXCEPT !.taken = @ + 1])
        ELSE EndAction(r, "failed") /\ UNCHANGED vols
  /\ UNCHANGED <<mode, stack, pc, res, image, opaque, faults>>

\* The archive ends, or seems to: input that breaks off between two entries
\* looks like the end of an archive.
UnpackEnds(r) ==
  /\ Acting(r) /\ runs[r].cmd = "unpack"
  /\ runs[r].taken = runs[r].sent /\ runs[r].stdin # "open"
  /\ EndAction(r, IF runs[r].stdin = "torn" THEN "failed" ELSE "ok")
  /\ UNCHANGED <<mode, stack, pc, res, image, vols, opaque, faults>>

\* Mutant of Destroy: the mount is not looked for.
DestroyMounted(r) ==
  /\ Acting(r) /\ runs[r].cmd \in {"destroy-volume", "destroy-image"}
  /\ image' = IF runs[r].cmd = "destroy-image" THEN "none" ELSE image
  /\ EndAction(r, "ok")
  /\ UNCHANGED <<mode, stack, pc, res, vols, opaque, faults>>

\* destroy-volume is given the name the volume would have had when complete;
\* destroy-image removes the directory of the image, but cannot unmount.
Destroy(r) ==
  /\ Acting(r) /\ runs[r].cmd \in {"destroy-volume", "destroy-image"}
  /\ IF runs[r].cmd = "destroy-volume" THEN EndAction(r, "ok") /\ UNCHANGED image
     ELSE IF RootlessUnmount THEN EndAction(r, "ok") /\ image' = "none"
     ELSE EndAction(r, "failed") /\ UNCHANGED image
  /\ UNCHANGED <<mode, stack, pc, res, vols, opaque, faults>>

------------------------------------------------------------------------------
(* The command: unpackLayer for each layer and the making of the image, or  *)
(* the deletion of an image                                                 *)

\* Mutant of CreateVolume: the marks of the new volume are not kept.
CreateVolumeOnly ==
  /\ pc = "layer" /\ Len(vols) < Len(stack)
  /\ vols' = Append(vols, Root :> Node("dir", ParseOwner(mode), Root, {}))
  /\ Reexec(IF stack[Len(vols) + 1].base # <<>> THEN "ensure-base" ELSE "unpack")
  /\ UNCHANGED <<mode, stack, res, image, opaque, faults>>

\* A temporary volume; then the base directory, if the layer has one.
CreateVolume ==
  /\ pc = "layer" /\ Len(vols) < Len(stack)
  /\ vols' = Append(vols, Root :> Node("dir", ParseOwner(mode), Root, {}))
  /\ opaque' = Append(opaque, {})
  /\ Reexec(IF stack[Len(vols) + 1].base # <<>> THEN "ensure-base" ELSE "unpack")
  /\ UNCHANGED <<mode, stack, res, image, faults>>

PullDone ==
  /\ pc = "layer" /\ Len(vols) = Len(stack)
  /\ pc' = "image"
  /\ UNCHANGED <<mode, stack, res, image, vols, opaque, runs, faults>>

\* The callers of Reexec.  A failed unpack destroys the volume, within a
\* process of its own if there are mappings, and fails whatever comes of it.
Returned ==
  /\ pc = "returned"
  /\ LET cmd == runs[Cur].cmd
     IN \/ cmd = "ensure-base" /\ res = "ok" /\ Reexec("unpack") /\ UNCHANGED res
        \/ cmd = "unpack" /\ res = "ok" /\ pc' = "opaque" /\ UNCHANGED <<res, runs>>
        \/ cmd = "unpack" /\ res # "ok" /\ Clone /\ Reexec("destroy-volume") /\ UNCHANGED res
        \/ cmd = "unpack" /\ res # "ok" /\ ~Clone /\ pc' = "end" /\ UNCHANGED <<res, runs>>
        \/ cmd = "ensure-base" /\ res # "ok" /\ pc' = "end" /\ UNCHANGED <<res, runs>>
        \/ cmd = "destroy-volume" /\ pc' = "end" /\ res' = "failed" /\ UNCHANGED runs
        \/ cmd = "destroy-image" /\ pc' = "destroyed" /\ UNCHANGED <<res, runs>>
  /\ UNCHANGED <<mode, stack, image, vols, opaque, faults>>

\* tardis marks the directories one by one, as far as they are there.
HandleOpaqueWhiteouts ==
  /\ pc = "opaque"
  /\ LET dirs == OpaqueWhiteouts(Layer)
     IN IF dirs \subseteq DOMAIN Volume
        THEN /\ opaque' = [opaque EXCEPT ![Len(vols)] = dirs]
             /\ pc' = "layer" /\ UNCHANGED res
        ELSE pc' = "end" /\ res' = "failed" /\ UNCHANGED opaque
  /\ UNCHANGED <<mode, stack, image, vols, runs, faults>>

\* tardis fails.
HandleOpaqueWhiteoutsFails ==
  /\ pc = "opaque" /\ OpaqueWhiteouts(Layer) # {} /\ Fault
  /\ pc' = "end" /\ res' = "failed"
  /\ UNCHANGED <<mode, stack, image, vols, opaque, runs>>

\* Driver.CreateImage: the directories, then the mount unless the caller
\* makes it himself.
CreateImage ==
  /\ pc = "image"
  /\ image' = "made" /\ pc' = "mount"
  /\ UNCHANGED <<mode, stack, res, vols, opaque, runs, faults>>

MountImage ==
  /\ pc = "mount"
  /\ image' = (IF mode.mount THEN "mounted" ELSE image) /\ pc' = "info"
  /\ UNCHANGED <<mode, stack, res, vols, opaque, runs, faults>>

\* The size of the layers is written beside them.
WriteImageInfo ==
  /\ pc = "info"
  /\ pc' = "own"
  /\ UNCHANGED <<mode, stack, res, image, vols, opaque, runs, faults>>

\* ImageManager.setOwnership
SetOwnership ==
  /\ pc = "own"
  /\ pc' = "end"
  /\ UNCHANGED <<mode, stack, res, image, vols, opaque, runs, faults>>

\* The cleanup tests another error and does not run.
SetOwnershipFails ==
  /\ pc = "own" /\ ParseOwner(mode) # 0 /\ Fault
  /\ pc' = "end" /\ res' = "disowned"
  /\ UNCHANGED <<mode, stack, image, vols, opaque, runs>>

\* ImageManager.imageInfo: the mounts left to the caller.
Mounts == IF mode.mount THEN <<>> ELSE <<FormatMountData(vols, opaque)>>

\* The cleanup of ImageManager.Create follows.
CreateImageFails ==
  /\ pc \in {"image", "mount", "info"} /\ Fault
  /\ pc' = "destroy" /\ res' = "failed"
  /\ UNCHANGED <<mode, stack, image, vols, opaque, runs>>

\* Only delete wraps its driver: elsewhere, and without a user namespace, the
\* command destroys the image itself, with RootfulUnmounter.
InProcess == ~(Clone /\ stack = <<>>)

Unmount ==
  /\ pc = "destroy" /\ InProcess /\ image = "mounted"
  /\ image' = "made"
  /\ UNCHANGED <<mode, stack, pc, res, vols, opaque, runs, faults>>

\* A mount stays busy for all tries, or umount is refused to who is not root,
\* mount or not (unless the rootfs is not even there).
UnmountGivesUp ==
  /\ pc = "destroy" /\ InProcess
  /\ image = "busy" \/ (image = "made" /\ mode.uid # 0)
  /\ pc' = "destroyed"
  /\ UNCHANGED <<mode, stack, res, image, vols, opaque, runs, faults>>

\* A process of its own, or the removal of the unmounted image.
DestroyImage ==
  /\ pc = "destroy"
  /\ IF InProcess THEN image \in {"none", "made"} /\ image' = "none" /\ pc' = "destroyed" /\ UNCHANGED runs
     ELSE Reexec("destroy-image") /\ UNCHANGED image
  /\ UNCHANGED <<mode, stack, res, vols, opaque, faults>>

\* The unmounting or the removal fails.
DestroyImageFails ==
  /\ pc = "destroy" /\ InProcess /\ image # "none" /\ Fault
  /\ pc' = "destroyed"
  /\ UNCHANGED <<mode, stack, res, image, vols, opaque, runs>>

\* Mutant of Destroyed: a create that cannot destroy its image leaves it.
DestroyedKeeps ==
  /\ pc = "destroyed"
  /\ res' = IF stack = <<>> /\ image = "none" THEN "ok" ELSE "failed"
  /\ pc' = "end"
  /\ UNCHANGED <<mode, stack, image, vols, opaque, runs, faults>>

\* ImageManager.Destroy looks whether the image is gone, whatever came of
\* destroying it; a failed create removes the directory once more (which
\* does not succeed below a mount).
Destroyed ==
  /\ pc = "destroyed"
  /\ res' = IF stack = <<>> /\ image = "none" THEN "ok" ELSE "failed"
  /\ image' = IF stack # <<>> /\ image = "made" THEN "none" ELSE image
  /\ pc' = "end"
  /\ UNCHANGED <<mode, stack, vols, opaque, runs, faults>>

\* That removal fails: it is only logged.
RemoveFails ==
  /\ pc = "destroyed" /\ stack # <<>> /\ image = "made" /\ Fault
  /\ res' = "failed" /\ pc' = "end"
  /\ UNCHANGED <<mode, stack, image, vols, opaque, runs>>

\* Its container ends, and takes the mount along that it made itself.
ContainerEnds ==
  /\ image = "busy"
  /\ image' = IF mode.mount THEN "mounted" ELSE "made"
  /\ UNCHANGED <<mode, stack, pc, res, vols, opaque, runs, faults>>

\* The parent ends, by itself or killed: its ends of all pipes are closed.
Die(r) ==
  runs' = [k \in DOMAIN runs |->
             [runs[k] EXCEPT !.ctl = IF @ = "open" THEN "closed" ELSE @,
                             !.stdin = IF @ = "open" THEN r ELSE @]]
Exit ==
  /\ pc = "end"
  /\ pc' = "exited" /\ Die("cut")
  /\ UNCHANGED <<mode, stack, res, image, vols, opaque, faults>>
Kill ==
  /\ ~Exited /\ Fault
  /\ pc' = "exited" /\ res' = "failed"
  /\ \E how \in {"cut", "torn"} : Die(how)
  /\ UNCHANGED <<mode, stack, image, vols, opaque>>
KillWrapper(r) ==
  /\ runs[r].wrapper \in {"waiting", "running"} /\ Fault
  /\ SetRun(r, [runs[r] EXCEPT !.wrapper = "failed"])
  /\ UNCHANGED <<mode, stack, pc, res, image, vols, opaque>>

------------------------------------------------------------------------------

SetIDMappings == MapUIDs \/ MapGIDs \/ SetIDMappingsFails
Parent ==
  \/ Start \/ StartFails \/ SetIDMappings \/ Signal \/ SignalFails \/ Wait
  \/ CreateVolume \/ PullDone \/ Returned \/ HandleOpaqueWhiteouts \/ HandleOpaqueWhiteoutsFails
  \/ CreateImage \/ MountImage \/ WriteImageInfo \/ SetOwnership \/ SetOwnershipFails \/ CreateImageFails
  \/ Unmount \/ UnmountGivesUp \/ DestroyImage \/ DestroyImageFails \/ Destroyed \/ RemoveFails \/ Exit
Copy(r) == CopyEntry(r) \/ CopyEnds(r)
Wrapper(r) == WaitForIDMappings(r) \/ WrapperEnds(r)
Unpack(r) == UnpackNext(r) \/ UnpackEnds(r)
Action(r) == ActionStarts(r) \/ EnsureBaseDirectoryExists(r) \/ Unpack(r) \/ Destroy(r)
Breaks(r) == CopyBreaks(r) \/ ActionFails(r) \/ KillWrapper(r)

Next ==
  \/ Parent \/ Kill \/ ContainerEnds
  \/ \E r \in DOMAIN runs : Copy(r) \/ Wrapper(r) \/ Action(r) \/ Breaks(r)

MaxRuns == 2 * Max({Len(s) : s \in Stacks}) + 1

\* Every process that can go on does; nothing has to fail.
Fairness ==
  /\ WF_vars(Parent)
  /\ \A r \in 1 .. MaxRuns :
       WF_vars(r \in DOMAIN runs /\ (Copy(r) \/ Wrapper(r) \/ Action(r)))

Spec == Init /\ [][Next]_vars /\ Fairness

------------------------------------------------------------------------------
(* What the layers of an image stand for: the tree one gets by applying     *)
(* each of them as a whole to the tree of those below                       *)

AnyOwner == -1

MappedOwner(id) == IF Mapped(mode, id) THEN KernelID(mode, id) ELSE id

\* As root, grootfs itself follows mappings of this form only: root alone is
\* mapped by one of size 1, and all others by ranges that begin with id 1.
Followed(maps) == \A k \in DOMAIN maps : maps[k].ns = IF maps[k].size = 1 THEN 0 ELSE 1
IntendedOwner(id) == IF Clone \/ Followed(mode.maps) \/ ~Mapped(mode, id) THEN MappedOwner(id) ELSE AnyOwner

At(layer, e) == layer.base \o e.path
Making(layer) == {e \in Range(layer.entries) : e.op \in {"dir", "file", "symlink", "link"}}
\* Directories the layer has something below of.
Implied(layer) ==
  UNION {Above(At(layer, e)) : e \in {x \in Range(layer.entries) : x.op \notin {"whiteout", "opaque"}}}

\* What a node has of its entry, whatever it is made by.
Attrs(op) ==
  CASE op = "file" -> {"mode", "time", "xattrs"} [] op = "symlink" -> {"time"} [] op = "dir" -> {"mode"}

\* A hard link is the file it is made to.
NodeOf(OwnerOf(_), layer, e) ==
  LET x == IF e.op = "link" THEN CHOOSE x \in Making(layer) : x.path = e.to ELSE e
  IN Node(x.op, OwnerOf(x.uid), x.to, Attrs(x.op))

ApplyLayer(OwnerOf(_), tree, layer) ==
  LET Hides(e, p) ==
        \/ e.op \in {"whiteout", "file", "symlink", "link"} /\ IsPrefix(At(layer, e), p)
        \/ e.op = "opaque" /\ IsStrictPrefix(At(layer, e), p)
      below == Without(tree, {p \in DOMAIN tree : \E e \in Range(layer.entries) : Hides(e, p)})
      made == [p \in {At(layer, e) : e \in Making(layer)} |->
                 NodeOf(OwnerOf, layer, CHOOSE e \in Making(layer) : At(layer, e) = p)]
      \* The base directory is as it was; what else is implied may not be.
      dirs == [p \in Implied(layer) \cup BaseDirs(layer.base) |->
                 IF IsDir(below, p) = (p \in BaseDirs(layer.base))
                 THEN IF IsDir(below, p) THEN below[p] ELSE Node("dir", OwnerOf(0), Root, {})
                 ELSE Node("dir", AnyOwner, Root, {})]
  IN made @@ dirs @@ below

Intended(OwnerOf(_)) == FoldLeft(LAMBDA tree, layer : ApplyLayer(OwnerOf, tree, layer), <<>>, stack)

Same(is, wanted) ==
  /\ DOMAIN is = DOMAIN wanted
  /\ \A p \in DOMAIN is :
       /\ is[p].kind = wanted[p].kind /\ is[p].data = wanted[p].data
       /\ wanted[p].owner \in {AnyOwner, is[p].owner} /\ wanted[p].attrs \subseteq is[p].attrs

\* Layers that unpack whenever nothing fails: entries come after what they
\* need, owners are mapped, and the layer right below makes the base directory
\* (ensureBaseDirectoryExists looks no further down).
Acceptable(k) ==
  LET layer == stack[k]
      es == layer.entries
      Before(i) == {es[j] : j \in {x \in DOMAIN es : x < i}}
      DirsOf(S) == UNION {Above(At(layer, e)) \cup (IF e.op = "dir" THEN {At(layer, e)} ELSE {}) :
                            e \in {x \in S : x.op \notin {"whiteout", "opaque"}}}
                   \cup BaseDirs(layer.base) \cup {Root}
  IN /\ \A i \in DOMAIN es :
          LET e == es[i]
          IN /\ Clone => Mapped(mode, e.uid) /\ Mapped(mode, 0)
             /\ e.op = "whiteout" => Front(At(layer, e)) \in DirsOf(Before(i))
             /\ e.op = "opaque" => At(layer, e) \in DirsOf(Range(es))
             /\ e.op = "link" => \E x \in Before(i) : x.op \in {"file", "symlink"} /\ x.path = e.to
             /\ e.op \notin {"dir", "opaque", "device"} => At(layer, e) \notin Implied(layer)
     /\ layer.base # <<>> =>
          /\ k > 1 /\ stack[k - 1].base = <<>>
          /\ \A q \in BaseDirs(layer.base) : \E e \in Making(stack[k - 1]) : IsPrefix(q, e.path)

------------------------------------------------------------------------------

\* The variables have the types their comments give.
TypeOK ==
  /\ mode \in Modes /\ stack \in Stacks \cup {<<>>}
  /\ res \in {"ok", "failed", "disowned"} /\ image \in {"none", "made", "mounted", "busy"} /\ faults \in 0 .. MaxFaults
  /\ Len(vols) <= Len(stack) /\ DOMAIN opaque = DOMAIN vols
  /\ Len(runs) <= MaxRuns
  /\ \A r \in DOMAIN runs :
       /\ runs[r].cmd \in {"unpack", "ensure-base", "destroy-volume", "destroy-image"}
       /\ runs[r].ctl \in {"open", "byte", "closed"} /\ runs[r].ids \subseteq {"uid", "gid"}
       /\ runs[r].wrapper \in {"none", "waiting", "running", "ok", "failed"}
       /\ runs[r].action \in {"none", "starting", "acting", "ok", "failed"}
       /\ runs[r].taken <= runs[r].sent

\* The volume of layer k before its first entry is unpacked, and what the
\* entries make of a volume one after the other.
Bare == Root :> Node("dir", ParseOwner(mode), Root, {})
Beneath(k) == IF k = 1 THEN <<>> ELSE vols[k - 1]
Prepared(k) == IF stack[k].base = <<>> THEN Bare ELSE EnsureBase(Bare, Beneath(k), stack[k].base)
Stages(m, vol, layer) ==
  LET stage[n \in 0 .. Len(layer.entries)] ==
        IF n = 0 THEN vol ELSE UnpackEntry(m, stage[n - 1], layer.base, layer.entries[n])
  IN stage
Unpacked(k) == Stages(mode, Prepared(k), stack[k])[Len(stack[k].entries)]

\* A command that ends well has taken every step of its work: each layer has
\* its volume, into which its base directory was copied and then every one of
\* its entries was unpacked, in order and once, and all its opaque directories
\* are marked; the image is made and mounted, or left to the caller to mount;
\* a deleted image is gone.  No killed process, no stream that broke off where
\* an archive might end, and no call that was not waited for passes as success.
StepsTaken ==
  pc \in {"end", "exited"} /\ res = "ok" =>
    IF stack = <<>> THEN image = "none"
    ELSE /\ image = IF Mounts = <<>> THEN "mounted" ELSE "made"
         /\ Len(vols) = Len(stack)
         /\ \A k \in DOMAIN vols : vols[k] = Unpacked(k) /\ opaque[k] = OpaqueWhiteouts(stack[k])

TreeAs(OwnerOf(_)) ==
  pc \in {"end", "exited"} /\ res = "ok" /\ stack # <<>> =>
    /\ \A k \in DOMAIN vols : OwnerOf(0) \in {AnyOwner, vols[k][Root].owner}
    /\ Same(Merged(FormatMountData(vols, opaque)), Intended(OwnerOf))

\* A command that ends well has taken every step of its work, and that work
\* is right: the volumes of all layers, seen through the overlay that it has
\* mounted or else left to its caller, are the tree the layers stand for, with
\* the modes, times and attributes of their entries, and with the owners the
\* id mappings give (as root: if the mappings are Followed).  If nothing fails,
\* an image whose layers are acceptable does end well: no order of the
\* processes makes the parent, the wrapper or the action give up.
LayersApplied ==
  /\ StepsTaken
  /\ TreeAs(IntendedOwner)
  /\ pc = "exited" /\ faults = 0 /\ stack # <<>> /\ (\A k \in DOMAIN stack : Acceptable(k)) => res = "ok"

\* "UID mapping for image translation, e.g.: <Namespace UID>:<Host UID>:<Size>"
\* (commands/init_store.go), the same one for "all `create` commands"
\* (docs/01-configuration.md): whoever runs the command, the files of a mapped
\* id belong to the host id that its mapping gives.
OwnersAsMapped == TreeAs(MappedOwner)

\* When Reexec has returned, whatever it returned, nothing of it acts on
\* the store any more as long as the parent lives, and an action in a user
\* namespace only ever acts with all its ids mapped.
NothingAfterReturn ==
  \A r \in DOMAIN runs :
    runs[r].action \in {"starting", "acting"} =>
      /\ pc = "exited" \/ (pc = "wait" /\ r = Cur)
      /\ Clone => runs[r].ids = {"uid", "gid"}

\* A create in which one call fails leaves no image behind when it gives up,
\* mounted or not, whoever runs it: who is not root may not unmount anything,
\* so its destroying of the image fails, too, and it is the removal after it
\* that must get the image away.  (The image it could not give to its owner is
\* the exception: it stays.  And it stays when a second call fails, that
\* removal or an unmounting.)
NoImageLeft ==
  pc = "end" /\ stack # <<>> /\ res = "failed" /\ faults <= 1 => image = "none"

\* An image is never removed while a container uses its mount, by the command
\* or by another process on its behalf (as long as they can see that mount).
ContainerUndisturbed == [][image = "busy" => image' # "none"]_vars

\* The command ends, and so do all processes it ever started, also those it
\* did not wait for and those that outlive it.
AllEnd == <>[](pc = "exited" /\ \A r \in DOMAIN runs : Over(r))
==============================================================================
