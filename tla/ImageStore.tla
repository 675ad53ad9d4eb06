----------------------------- MODULE ImageStore ------------------------------
(***************************************************************************)
(* The images of a store and their dependency files:                       *)
(*   images/<id>                   store/image_manager/image_manager.go    *)
(*   meta/dependencies/image:<id>  store/dependency_manager                *)
(* One operator is one step on one of them and constrains all of imgVars.  *)
(***************************************************************************)
EXTENDS Environment

VARIABLES
  imgDir,    \* imgDir[i]: "absent"; "made": a directory without a rootfs;
             \* "built": with a rootfs (and its mount, if it is mounted)
  base,      \* base[i]: the layers the rootfs of i is stacked on
  depFile,   \* depFile[i]: "none", "torn" (created or cut short), "whole"
  deps,      \* deps[i]: the chain ids in i's dependency file
  committed  \* history: ids whose create has succeeded, not yet destroyed

imgVars == <<imgDir, base, depFile, deps, committed>>

ImgInit ==
  /\ imgDir = [i \in Id |-> "absent"]
  /\ base = [i \in Id |-> {}]
  /\ depFile = [i \in Id |-> "none"]
  /\ deps = [i \in Id |-> {}]
  /\ committed = {}

ImgTypeOK ==
  /\ imgDir \in [Id -> {"absent", "made", "built"}]
  /\ base \in [Id -> SUBSET Chain]
  /\ depFile \in [Id -> {"none", "torn", "whole"}]
  /\ deps \in [Id -> SUBSET Chain]
  /\ committed \in SUBSET Id

\* ImageManager.Exists, idfinder.exists
ImageExists(i) == imgDir[i] # "absent"

\* ImageManager.ImageIDs
ImageIDs == {i \in Id : ImageExists(i)}

\* Some image on disk is recorded as using, or is stacked on, layer c.
InUse(c) == \E i \in ImageIDs : c \in base[i] \/ (depFile[i] = "whole" /\ c \in deps[i])

------------------------------------------------------------------------------

\* os.Mkdir of the image path, once it is known not to exist.
MakeImageDir(i) ==
  /\ imgDir' = [imgDir EXCEPT ![i] = "made"]
  /\ UNCHANGED <<base, depFile, deps, committed>>

\* CreateImage: directories, disk limit, overlay mount, image info.
BuildRootfs(i, layers) ==
  /\ imgDir' = [imgDir EXCEPT ![i] = "built"]
  /\ base' = [base EXCEPT ![i] = layers]
  /\ UNCHANGED <<depFile, deps, committed>>

\* DestroyImage, first half: the rootfs is unmounted.
UnmountImage(i) ==
  /\ imgDir' = [imgDir EXCEPT ![i] = IF @ = "absent" THEN @ ELSE "made"]
  /\ base' = [base EXCEPT ![i] = {}]
  /\ committed' = committed \ {i}
  /\ UNCHANGED <<depFile, deps>>

\* DestroyImage, second half: os.RemoveAll of the image path.
RemoveImageDir(i) ==
  /\ imgDir' = [imgDir EXCEPT ![i] = "absent"]
  /\ base' = [base EXCEPT ![i] = {}]
  /\ committed' = committed \ {i}
  /\ UNCHANGED <<depFile, deps>>

\* Register, os.WriteFile: open with O_CREATE|O_TRUNC ...
OpenDepFile(i) ==
  /\ depFile' = [depFile EXCEPT ![i] = "torn"]
  /\ deps' = [deps EXCEPT ![i] = {}]
  /\ UNCHANGED <<imgDir, base, committed>>

\* ... then write; the bytes are lost if the file was unlinked in between.
\* It is the last step of a create, which then reports success.
WriteDepFile(i, layers) ==
  /\ IF depFile[i] = "none"
     THEN UNCHANGED <<depFile, deps>>
     ELSE /\ depFile' = [depFile EXCEPT ![i] = "whole"]
          /\ deps' = [deps EXCEPT ![i] = layers]
  /\ committed' = IF imgDir[i] = "built" THEN committed \cup {i} ELSE committed
  /\ UNCHANGED <<imgDir, base>>

\* Deregister; a missing file is not an error for the deleter.
RemoveDepFile(i) ==
  /\ depFile' = [depFile EXCEPT ![i] = "none"]
  /\ deps' = [deps EXCEPT ![i] = {}]
  /\ UNCHANGED <<imgDir, base, committed>>
==============================================================================
