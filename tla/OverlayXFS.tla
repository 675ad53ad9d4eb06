----------------------------- MODULE OverlayXFS ------------------------------
(***************************************************************************)
(* The volumes of a store as the overlay-xfs driver keeps them             *)
(* (store/filesystems/overlayxfs/driver.go).  A volume <id> is spread over *)
(* four places that no single system call changes together:                *)
(*   volumes/<id>          the unpacked layer                              *)
(*   l/<id>                a file holding the volume's short id            *)
(*   l/<short id>          a symlink to volumes/<id>, used as lowerdir     *)
(*   meta/volume-<id>      a file holding the layer's size                 *)
(* One operator below is one system call of CreateVolume, MoveVolume,      *)
(* DestroyVolume and their callers, and constrains all of volVars.         *)
(*                                                                         *)
(* A volume id is a chain id, a chain id with the -incomplete-<random>     *)
(* suffix of a download in progress, or either with the gc. prefix.  The   *)
(* suffix and the short id of one download are both random and are drawn   *)
(* together here, as one Token.                                            *)
(***************************************************************************)
EXTENDS Environment

VARIABLES
  vol,     \* vol[n]: what volumes/<n> holds
  link,    \* link[n]: the short id in l/<n>, None if there is no such file
  sym,     \* sym[t]: the volume l/<t> points to, None if there is no symlink
  meta     \* the volumes that have a meta/volume-<n> file

volVars == <<vol, link, sym, meta>>

ASSUME NoneAssumption == None \notin Token

Name == [chain: Chain, tmp: Token \cup {None}, gc: BOOLEAN]

Final(c) == [chain |-> c, tmp |-> None, gc |-> FALSE]
Incomplete(c, t) == [chain |-> c, tmp |-> t, gc |-> FALSE]
GcName(n) == [chain |-> n.chain, tmp |-> n.tmp, gc |-> TRUE]

ASSUME NoneIsNoName == None \notin Name

VolInit ==
  /\ vol = [n \in Name |-> "absent"]
  /\ link = [n \in Name |-> None]
  /\ sym = [t \in Token |-> None]
  /\ meta = {}

VolTypeOK ==
  /\ vol \in [Name -> {"absent", "partial", "whole"}]
  /\ link \in [Name -> Token \cup {None}]
  /\ sym \in [Token -> Name \cup {None}]
  /\ meta \in SUBSET Name

\* VolumePath and the stat calls: does volumes/<n> exist?
VolumeExists(n) == vol[n] # "absent"

\* Volumes: the entries of volumes/.
Volumes == {n \in Name : VolumeExists(n)}

\* What getLowerDirs needs of a base volume: directory, size and short id.
LowerDirFound(n) == VolumeExists(n) /\ n \in meta /\ link[n] # None

\* A volume an overlay mount can use: unpacked to the end, and reached
\* through its short id.
Usable(n) ==
  /\ vol[n] = "whole"
  /\ n \in meta
  /\ link[n] # None
  /\ sym[link[n]] = n

\* A token no file in the store carries.
Fresh(t) ==
  /\ sym[t] = None
  /\ \A n \in Name : link[n] # t /\ (n.tmp = t => ~VolumeExists(n))

------------------------------------------------------------------------------
(* CreateVolume *)

MakeVolumeDir(n) ==
  /\ vol' = [vol EXCEPT ![n] = "partial"]
  /\ UNCHANGED <<link, sym, meta>>

MakeSymlink(t, n) ==
  /\ sym' = [sym EXCEPT ![t] = n]
  /\ UNCHANGED <<vol, link, meta>>

WriteLinkFile(n, t) ==
  /\ link' = [link EXCEPT ![n] = t]
  /\ UNCHANGED <<vol, sym, meta>>

(* What the unpacker and HandleOpaqueWhiteouts leave, and WriteVolumeMeta *)

FillVolume(n) ==
  /\ vol' = [vol EXCEPT ![n] = "whole"]
  /\ UNCHANGED <<link, sym, meta>>

WriteVolumeMeta(n) ==
  /\ meta' = meta \cup {n}
  /\ UNCHANGED <<vol, link, sym>>

------------------------------------------------------------------------------
(* MoveVolume(from, to), and the metadata rename of MarkVolumeArtifacts.   *)

\* The source must exist and its link file be readable.
Movable(from) == VolumeExists(from) /\ link[from] # None

\* Mutant of MoveLinkFile: the new link file holds the volume id.
MoveLinkFileById(from, to) ==
  /\ link' = [link EXCEPT ![to] = to, ![from] = None]
  /\ UNCHANGED <<vol, sym, meta>>

MoveLinkFile(from, to) ==
  /\ link' = [link EXCEPT ![to] = link[from], ![from] = None]
  /\ UNCHANGED <<vol, sym, meta>>

RemoveSymlink(t) ==
  /\ sym' = [sym EXCEPT ![t] = None]
  /\ UNCHANGED <<vol, link, meta>>

\* rename(2) replaces an empty target directory; with a target that has
\* entries it fails with ENOTEMPTY, which MoveVolume reports as success.
RenameVolumeDir(from, to) ==
  /\ \/ vol' = [vol EXCEPT ![to] = vol[from], ![from] = "absent"]
     \/ VolumeExists(to) /\ UNCHANGED vol
  /\ UNCHANGED <<link, sym, meta>>

\* os.Rename fails, and changes nothing, if there is no metadata file.
MoveVolumeMeta(from, to) ==
  /\ meta' = IF from \in meta THEN (meta \ {from}) \cup {to} ELSE meta
  /\ UNCHANGED <<vol, link, sym>>

------------------------------------------------------------------------------
(* DestroyVolume(n): removeVolumeLink (two calls), metadata, directory.    *)

\* Mutant of RemoveVolumeSymlink: the symlink is left behind.
RemoveVolumeSymlinkNot(n) == UNCHANGED volVars

RemoveVolumeSymlink(n) ==
  /\ sym' = IF link[n] = None THEN sym ELSE [sym EXCEPT ![link[n]] = None]
  /\ UNCHANGED <<vol, link, meta>>

RemoveLinkFile(n) ==
  /\ link' = [link EXCEPT ![n] = None]
  /\ UNCHANGED <<vol, sym, meta>>

RemoveVolumeMeta(n) ==
  /\ meta' = meta \ {n}
  /\ UNCHANGED <<vol, link, sym>>

\* os.RemoveAll: first some entries, in the end the directory.
RemoveVolumeDir(n, left) ==
  /\ vol' = [vol EXCEPT ![n] = left]
  /\ UNCHANGED <<link, sym, meta>>
==============================================================================
