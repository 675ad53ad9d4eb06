------------------------------ MODULE Unpacker ------------------------------
(***************************************************************************)
(* What unpacking a layer does to a volume, entry by entry, and what the   *)
(* stacked volumes look like through the overlay.  A volume is a function  *)
(* from the paths in it to nodes; a path is a sequence of names and <<>>   *)
(* the root of the volume.  A layer is a base directory and a sequence of  *)
(* tar entries [op, path, uid, to], where "to" is the target of a link or  *)
(* the content of a file; an entry names a path below the base directory,  *)
(* a whiteout the path it hides, an opaque whiteout the directory it is    *)
(* in.  Of its mode, time and extended attributes a node has those that    *)
(* are still the ones of its entry; the times of directories and sizes are *)
(* left out, group ids go the way of user ids, and symlinks lead nowhere.  *)
(***************************************************************************)
EXTENDS Integers, Sequences, SequencesExt, FiniteSetsExt, TLC

Node(kind, owner, data, attrs) ==
  [kind |-> kind, owner |-> owner, data |-> data, attrs |-> attrs]
Root == <<>>

\* Paths above p, the root of the volume not included.
Above(p) == {SubSeq(p, 1, k) : k \in 1 .. Len(p) - 1}
IsDir(vol, p) == p \in DOMAIN vol /\ vol[p].kind = "dir"
Without(vol, S) == [p \in DOMAIN vol \ S |-> vol[p]]

------------------------------------------------------------------------------
(* Owners                                                                   *)

\* A store has id mappings (a sequence of [ns, host, size]) or none; a
\* command runs as root or not.
CloneUserns(m) == m.maps # <<>> /\ m.uid # 0

Maps(map, id) == id \in map.ns .. map.ns + map.size - 1
Mapped(m, id) == \E k \in DOMAIN m.maps : Maps(m.maps[k], id)

\* Creator.parseOwner: who gets the volumes and images.
ParseOwner(m) ==
  LET k == SelectInSeq(m.maps, LAMBDA x : x.size = 1 /\ x.ns = 0)
  IN IF k # 0 THEN m.maps[k].host ELSE m.uid

TranslateRootID(maps) ==
  LET k == SelectInSeq(maps, LAMBDA x : x.size = 1) IN IF k = 0 THEN 0 ELSE maps[k].host

TranslateID(maps, id) ==
  LET k == SelectInSeq(maps, LAMBDA x : x.size # 1 /\ Maps(x, id))
  IN IF id = 0 THEN TranslateRootID(maps)
     ELSE IF k = 0 THEN id ELSE maps[k].host + id - 1

\* The kernel translates the ids of a process in a user namespace.
KernelID(m, id) ==
  LET map == m.maps[SelectInSeq(m.maps, LAMBDA x : Maps(x, id))] IN map.host + id - map.ns

\* Mutant of CanChown: the same without a user namespace.
CanChownMapped(m, id) == Mapped(m, id)

\* A process in a user namespace cannot give a file to an id without mapping.
CanChown(m, id) == CloneUserns(m) => Mapped(m, id)
Owner(m, id) == IF CloneUserns(m) THEN KernelID(m, id) ELSE TranslateID(m.maps, id)

------------------------------------------------------------------------------
(* TarUnpacker                                                              *)

\* Stat of the parent, and its parents before it: missing ones are made,
\* and nothing can be made below what is not a directory.
CanEnsureParentDir(m, vol, p) ==
  /\ \A q \in Above(p) : q \in DOMAIN vol => IsDir(vol, q)
  /\ Above(p) \subseteq DOMAIN vol \/ CanChown(m, 0)
EnsureParentDir(m, vol, p) ==
  vol @@ [q \in Above(p) \ DOMAIN vol |-> Node("dir", Owner(m, 0), Root, {})]

\* Whether the entry can be made once its parents are there; what is empty
\* or not a directory is removed for a symlink.
CanCreate(m, vol, base, e) ==
  LET p == base \o e.path
      exists == p \in DOMAIN vol
  IN CASE e.op = "device" -> TRUE
       [] e.op = "link" -> /\ base \o e.to \in DOMAIN vol /\ ~IsDir(vol, base \o e.to)
                           /\ ~exists
       [] e.op = "symlink" -> /\ CanChown(m, e.uid)
                              /\ \A q \in DOMAIN vol : ~IsStrictPrefix(p, q)
       [] e.op = "dir" -> CanChown(m, e.uid)
       [] e.op = "file" -> CanChown(m, e.uid) /\ (exists => vol[p].kind = "file")

\* A change of owner takes the setuid bit and the capabilities of a file.
Chown(node, owner) == [node EXCEPT !.owner = owner, !.attrs = @ \ {"mode", "xattrs"}]
Chmod(node) == [node EXCEPT !.attrs = @ \cup {"mode"}]
ChangeModTime(node) == [node EXCEPT !.attrs = @ \cup {"time"}]
Lsetxattr(node) == [node EXCEPT !.attrs = @ \cup {"xattrs"}]

CreateDirectory(m, vol, p, e) ==
  LET made == IF p \in DOMAIN vol THEN vol[p] ELSE Node("dir", 0, Root, {})
  IN (p :> Chmod(Chown(made, Owner(m, e.uid)))) @@ vol

\* Mutant of CreateRegularFile: the mode is set before the owner.
CreateRegularFileModeFirst(m, vol, p, e) ==
  LET made == Node("file", 0, e.to, {})
  IN (p :> Lsetxattr(ChangeModTime(Chown(Chmod(made), Owner(m, e.uid))))) @@ vol

CreateRegularFile(m, vol, p, e) ==
  LET made == Node("file", 0, e.to, {})
  IN (p :> Lsetxattr(ChangeModTime(Chmod(Chown(made, Owner(m, e.uid)))))) @@ vol
CreateSymlink(m, vol, p, e) ==
  (p :> Chown(ChangeModTime(Node("symlink", 0, e.to, {})), Owner(m, e.uid))) @@ vol
CreateLink(vol, p, target) == vol @@ (p :> vol[target])

HandleEntry(m, vol, base, e) ==
  LET p == base \o e.path
      v == EnsureParentDir(m, vol, p)
  IN CASE e.op = "device" -> v
       [] e.op = "link" -> CreateLink(v, p, base \o e.to)
       [] e.op = "symlink" -> CreateSymlink(m, v, p, e)
       [] e.op = "dir" -> CreateDirectory(m, v, p, e)
       [] e.op = "file" -> CreateRegularFile(m, v, p, e)

\* The path and all below it go, and the whiteout device of the store, which
\* belongs to the root user of the mappings, takes its place.
RemoveWhiteout(m, vol, p) ==
  Without(vol, {q \in DOMAIN vol : IsPrefix(p, q)})
    @@ (p :> Node("whiteout", TranslateRootID(m.maps), Root, {}))

\* One round of Unpack's loop: whether it succeeds, and the volume after it.
CanUnpack(m, vol, base, e) ==
  LET p == base \o e.path
  IN CASE e.op = "opaque" -> TRUE
       [] e.op = "whiteout" -> IsDir(vol, Front(p))
       [] OTHER -> /\ CanEnsureParentDir(m, vol, p)
                   /\ CanCreate(m, EnsureParentDir(m, vol, p), base, e)
UnpackEntry(m, vol, base, e) ==
  CASE e.op = "opaque" -> vol
    [] e.op = "whiteout" -> RemoveWhiteout(m, vol, base \o e.path)
    [] OTHER -> HandleEntry(m, vol, base, e)
OpaqueWhiteouts(layer) ==
  {layer.base \o e.path : e \in {x \in Range(layer.entries) : x.op = "opaque"}}

\* ensureBaseDirectoryExists: every directory down to the base directory is
\* there, or copied from the parent volume (of whatever kind it is there).
BaseDirs(base) == {SubSeq(base, 1, k) : k \in 1 .. Len(base)}
CanEnsureBase(vol, parent, base) == BaseDirs(base) \subseteq DOMAIN vol \cup DOMAIN parent

EnsureBase(vol, parent, base) ==
  vol @@ [q \in BaseDirs(base) \ DOMAIN vol |->
            Node("dir", parent[q].owner, Root, parent[q].attrs \cap {"mode"})]

------------------------------------------------------------------------------
(* The overlay filesystem                                                   *)

\* Mutant of FormatMountData: the volumes in the order of the layers.
FormatMountDataBottomFirst(vols, opaque) ==
  [k \in DOMAIN vols |-> [vol |-> vols[k], opaque |-> opaque[k]]]

\* The lower directories, topmost layer first, with what is opaque in each.
FormatMountData(vols, opaque) ==
  Reverse([k \in DOMAIN vols |-> [vol |-> vols[k], opaque |-> opaque[k]]])

\* At q, the directories below are not looked at any more.
Stops(dir, q) == q \in DOMAIN dir.vol /\ (dir.vol[q].kind # "dir" \/ q \in dir.opaque)

Seen(lower, p) ==
  {k \in DOMAIN lower :
     p \in DOMAIN lower[k].vol /\ \A j \in 1 .. k - 1 : \A q \in BaseDirs(p) : ~Stops(lower[j], q)}

Merged(lower) ==
  LET top(p) == lower[Min(Seen(lower, p))].vol
      seen == {p \in UNION {DOMAIN lower[k].vol : k \in DOMAIN lower} :
                 p # Root /\ Seen(lower, p) # {}}
  IN [p \in {q \in seen : top(q)[q].kind # "whiteout"} |-> top(p)[p]]
==============================================================================
