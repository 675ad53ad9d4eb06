------------------------- MODULE StoreManagerProofs --------------------------
(***************************************************************************)
(* What is proved of StoreManager, for any number of commands, mappings,   *)
(* images and folders and any budget of faults: type correctness; the      *)
(* properties of init-store, in a store that no delete-store is run on;    *)
(* and that of delete-store, when one runs at a time.                      *)
(***************************************************************************)
EXTENDS StoreManager, WellFoundedInduction, TLAPS

\* A command is at one of its own steps, an init-store with the arguments it
\* was given; it counts the items from the first, and gives an item to its
\* owner while there is one.
Commands ==
  /\ \A p \in Inits :
       /\ pc[p] \in InitPC \cup {"idle"}
       /\ pc[p] # "idle" => arg[p] \in InitSpec
       /\ pc[p] \notin {"idle", "items", "chown", "unlock"} => item[p] = 1
       /\ pc[p] = "chown" => item[p] \in DOMAIN Item
  /\ \A p \in Removers : pc[p] \in RemovePC \cup {"idle"}

Types == TypeOK /\ Commands

\* Past the lock there is one init-store, the one that holds it.
LockHeld == \A p \in Inits : pc[p] \notin {"idle", "lock"} => initLock = {p}

\* A filesystem that is mounted is in the backing file, and what is not
\* formatted is empty.
DiskInv ==
  /\ mounted # "no" => backing = "xfs"
  /\ backing # "xfs" => disk = EmptyTree

\* The folders of a store follow its namespace file, and its images follow both.
TreeOK(tree) ==
  /\ tree.ns \notin Mapping => tree.dirs \subseteq {"meta"}
  /\ \A i \in tree.images \cup tree.volumes : made[i] \in Mapping /\ tree.ns = made[i]

TreeInv == TreeOK(host) /\ TreeOK(disk)

\* There is one place for images: the directory below the mount point is used
\* on XFS only, and not beside a filesystem in the backing file, unless
\* mount(8) has refused that one.
HostBlank == host = EmptyTree

PlaceInv ==
  /\ ~dir \/ ~hostIsXFS => HostBlank
  /\ backing # "none" => dir
  /\ backing = "xfs" /\ spent.refusals = 0 => HostBlank
  /\ \A p \in Inits : refused[p] => spent.refusals > 0

\* The steps that make a backing filesystem, and those that fill the store.
Making == {"mkstore", "file", "remount", "mkfs", "mountnew"}
Filling == {"meta", "nsstat", "nscreate", "nsencode", "owner", "items", "chown"}

\* What the path leads to, after an existing backing file was to be mounted.
PlaceKnown(p) ==
  /\ pc[p] \in Making => HostBlank
  /\ pc[p] \in (Making \ {"mkstore"}) \cup (Filling \ {"meta"}) => dir
  /\ pc[p] \in {"mkfs", "mountnew"} => mounted = "no"
  /\ pc[p] \in {"validate", "mkstore", "file", "remount", "mkfs"} \cup Filling =>
       (backing = "xfs" /\ mounted = "no" => refused[p])
  /\ pc[p] \in Filling => hostIsXFS \/ mounted # "no"

\* What an init-store knows of the namespace file.
NamespaceKnown(p) ==
  /\ pc[p] = "nscreate" => View.ns = None
  /\ pc[p] = "nsencode" => View.ns = "torn"
  /\ pc[p] \in {"owner", "items", "chown"} => View.ns = arg[p].mapping

\* What belongs to the user that root is mapped to.
OwnedBy(m, name) ==
  FindStoreOwner(m) # -1 /\ name # "whiteout_dev" => View.owner[name] = FindStoreOwner(m)

\* The items before the next one are made and given to their owner.
ItemsKnown(p) ==
  /\ pc[p] \in {"items", "chown"} =>
       /\ OwnedBy(arg[p].mapping, ".")
       /\ \A k \in DOMAIN Item : k < item[p] =>
            Item[k] \in View.dirs /\ OwnedBy(arg[p].mapping, Item[k])
  /\ pc[p] = "chown" => Item[item[p]] \in View.dirs

\* What SuccessMeansWhole says of one init-store.
Whole(p) ==
  pc[p] = "unlock" /\ ok[p] =>
    /\ View.dirs = Items
    /\ View.ns = arg[p].mapping
    /\ FindStoreOwner(arg[p].mapping) # -1 =>
         \A n \in Names \ {"whiteout_dev"} : View.owner[n] = FindStoreOwner(arg[p].mapping)
    /\ BackingStoreFileExists => direct = arg[p].direct

Known(p) == PlaceKnown(p) /\ NamespaceKnown(p) /\ ItemsKnown(p) /\ Whole(p)

StoreInv == DiskInv /\ TreeInv /\ PlaceInv

InitStoreInv == LockHeld /\ StoreInv /\ \A p \in Inits : Known(p)

\* Every image is in one place, and is made once.
OnePlace ==
  /\ \A tree \in {host, disk} : \A i \in tree.images \cup tree.volumes : made[i] # None
  /\ \A i \in host.images \cup host.volumes : i \notin disk.images \cup disk.volumes

\* What a delete-store has listed of the backing filesystem is still to be
\* destroyed there, or is gone; what it listed below the mount point goes with
\* the directory.
PromiseInv ==
  \A p \in Removers :
    /\ \A i \in Image : /\ <<"images", i>> \in promised[p] => made[i] # None
                        /\ <<"volumes", i>> \in promised[p] => made[i] # None
    /\ pc[p] \in {"delimages", "volumes", "delvolumes", "unmount", "removeall"} =>
         \A i \in Image :
           <<"images", i>> \in promised[p] /\ i \in disk.images =>
             pc[p] = "delimages" /\ i \in listed[p] /\ mounted # "no"
    /\ pc[p] \in {"images", "delimages", "volumes"} => \A i \in Image : <<"volumes", i>> \notin promised[p]
    /\ pc[p] = "images" => \A i \in Image : <<"images", i>> \notin promised[p]
    /\ pc[p] \in {"delvolumes", "unmount", "removeall"} =>
         \A i \in Image :
           <<"volumes", i>> \in promised[p] /\ i \in disk.volumes =>
             pc[p] = "delvolumes" /\ i \in listed[p] /\ mounted # "no"

DeleteStoreInv == OnePlace /\ PromiseInv /\ DeletedMeansGone

-------------------------------------------------------------------------------
(* Types *)

\* A change of one field of a tree gives a tree.
LEMMA TreeFields ==
  ASSUME NEW t \in Tree
  PROVE  /\ EmptyTree \in Tree
         /\ \A D \in SUBSET Items : [t EXCEPT !.dirs = D] \in Tree
         /\ \A m \in Mapping \cup {None, "torn"} : [t EXCEPT !.ns = m] \in Tree
         /\ \A n \in Names, id \in Int : [t EXCEPT !.owner[n] = id] \in Tree
         /\ \A I \in SUBSET Image : [t EXCEPT !.images = I] \in Tree
         /\ \A I \in SUBSET Image : [t EXCEPT !.volumes = I] \in Tree
BY DEF Tree, EmptyTree

\* A change made below the store path leaves trees in both places.
LEMMA ViewTypes ==
  ASSUME TypeOK
  PROVE  /\ View \in Tree
         /\ \A t \in Tree : SetView(t) => host' \in Tree /\ disk' \in Tree
BY DEF TypeOK, View, SetView

\* A set of naturals that is not empty has its minimum in it.
LEMMA MinIn ==
  ASSUME NEW S \in SUBSET Nat, S # {}
  PROVE  Min(S) \in S
<1>1. PICK x \in S : \A y \in S : ~ (<<y, x>> \in OpToRel(<, Nat))
  BY WFMin, NatLessThanWellFounded
<1>2. \A y \in S : ~ (y < x)
  BY <1>1, Zenon DEF OpToRel
<1>3. \A y \in S : x =< y
  BY <1>2
<1>4. QED
  BY <1>1, <1>3 DEF Min

\* An element of a sequence.
LEMMA ElementType ==
  ASSUME NEW S, NEW s \in Seq(S), NEW i \in DOMAIN s
  PROVE  s[i] \in S
OBVIOUS

\* A function with one value changed.
LEMMA ExceptType ==
  ASSUME NEW S, NEW T, NEW f \in [S -> T], NEW x, NEW v \in T
  PROVE  [f EXCEPT ![x] = v] \in [S -> T]
OBVIOUS

LEMMA SubsetExcept ==
  ASSUME NEW S, NEW U, NEW f \in [S -> SUBSET U], NEW x, NEW v, v \subseteq U
  PROVE  [f EXCEPT ![x] = v] \in [S -> SUBSET U]
OBVIOUS

\* findStoreOwner gives a user id, or -1.
LEMMA OwnerType ==
  ASSUME NEW m \in Mapping
  PROVE  FindStoreOwner(m) \in Int
<1> DEFINE list == MappingList[m]
           root == {i \in DOMAIN list : list[i].NamespaceID = 0 /\ list[i].Size = 1}
<1>1. list \in Seq([NamespaceID: Int, HostID: Int, Size: Int])
  BY StoreAssumption
<1>2. root \in SUBSET Nat /\ root \subseteq DOMAIN list
  BY <1>1
<1>3. \A i \in DOMAIN list : list[i] \in [NamespaceID: Int, HostID: Int, Size: Int]
  BY <1>1, ElementType, Zenon
<1>4. root # {} => list[Min(root)].HostID \in Int
  BY <1>2, <1>3, MinIn
<1>5. QED
  BY <1>4 DEF FindStoreOwner

\* The folders are items, and items are strings.
LEMMA ItemTypes ==
  /\ Item \in Seq(STRING) /\ Len(Item) \in Nat /\ DOMAIN Item = 1 .. Len(Item)
  /\ Folders \subseteq Items /\ {"meta", "images"} \subseteq Items
  /\ \A k \in DOMAIN Item : Item[k] \in Items
  /\ Items \subseteq Names /\ "." \in Names
<1>1. StoreFolders \in Seq(STRING) /\ DriverItems \in Seq(STRING)
  BY StoreAssumption
<1>2. Item \in Seq(STRING) /\ Len(Item) = Len(StoreFolders) + Len(DriverItems)
      /\ \A i \in 1 .. Len(StoreFolders) : Item[i] = StoreFolders[i]
  BY <1>1 DEF Item
<1>3. Folders \subseteq Items
  BY <1>1, <1>2 DEF Folders, Items
<1>4. QED
  BY <1>1, <1>2, <1>3, StoreAssumption DEF Items, Names

\* Init gives every variable its type.
LEMMA InitTypes == Init => Types
<1>1. EmptyTree \in Tree
  BY ItemTypes DEF EmptyTree, Tree, Names
<1>2. 1 \in 1 .. Len(Item) + 1 /\ HostFS \subseteq BOOLEAN
  BY ItemTypes, StoreAssumption
<1> SUFFICES ASSUME Init PROVE Types
  OBVIOUS
<1>3. /\ hostIsXFS \in BOOLEAN /\ dir \in BOOLEAN /\ direct \in BOOLEAN
      /\ ok \in [Command -> BOOLEAN] /\ refused \in [Inits -> BOOLEAN]
      /\ arg \in [Inits -> [mapping: Mapping \cup {None}, sized: BOOLEAN, direct: BOOLEAN]]
  BY <1>2 DEF Init
<1>4. TypeOK
  BY <1>1, <1>2, <1>3 DEF Init, TypeOK, Command
<1>5. QED
  BY <1>4 DEF Init, Types, Commands, Command

\* Step, Goto, Abort and what an action leaves alone.
USE DEF Step, Goto, Abort, Spend, NoArgs, NoStore, Rest, Command, storeVars, procVars

\* A budget counts up.
Budget == [ops: Nat, fails: Nat, crashes: Nat, reboots: Nat, admin: Nat, refusals: Nat]

LEMMA SpendTypes ==
  ASSUME spent \in Budget
  PROVE  /\ Spend("ops", MaxOps) => spent' \in Budget
         /\ Spend("fails", MaxFails) => spent' \in Budget
         /\ Spend("crashes", MaxCrashes) => spent' \in Budget
         /\ Spend("reboots", MaxReboots) => spent' \in Budget
         /\ Spend("admin", MaxAdmin) => spent' \in Budget
BY DEF Budget

\* chown(2) leaves trees in both places.
LEMMA ChownTypes ==
  ASSUME TypeOK, NEW p \in Inits, arg[p].mapping \in Mapping, NEW name \in Names,
         NEW there, NEW next, Chown(p, name, there, next)
  PROVE  host' \in Tree /\ disk' \in Tree
<1> DEFINE id == FindStoreOwner(arg[p].mapping)
<1>1. id \in Int /\ View \in Tree
  BY OwnerType, ViewTypes
<1>2. View.owner[name] \in Int
  BY <1>1 DEF Tree
<1>3. (IF id = -1 THEN View.owner[name] ELSE id) \in Int
  BY <1>1, <1>2
<1>4. [View EXCEPT !.owner[name] = IF id = -1 THEN @ ELSE id] \in Tree
  BY <1>1, <1>3, TreeFields
<1>5. QED
  BY <1>4, ViewTypes DEF Chown, TypeOK

\* Every step of init-store keeps the types.
LEMMA InitStoreTypes ==
  ASSUME Types, NEW p \in Inits, InitStore(p)
  PROVE  Types'
<1> USE DEF InitPC, RemovePC
<1>0. /\ p \in Command /\ View \in Tree /\ EmptyTree \in Tree
      /\ \A q \in Removers : q # p
  BY ViewTypes, TreeFields, StoreAssumption DEF Types
<1>1. CASE StartInit(p)
  <2>1. \A spec \in InitSpec : spec \in [mapping: Mapping \cup {None}, sized: BOOLEAN, direct: BOOLEAN]
    BY StoreAssumption DEF InitSpec
  <2>2. PICK spec \in InitSpec : arg' = [arg EXCEPT ![p] = spec]
    BY <1>1 DEF StartInit
  <2>3. arg' \in [Inits -> [mapping: Mapping \cup {None}, sized: BOOLEAN, direct: BOOLEAN]]
    BY <2>1, <2>2, ExceptType, Zenon DEF Types, TypeOK
  <2>4. spent' \in Budget
    BY <1>1, SpendTypes DEF StartInit, Types, TypeOK, Budget
  <2>5. valPath' \in [Inits -> {"store", "parent"}]
    BY <1>1 DEF StartInit, Types, TypeOK
  <2>6. ok' \in [Command -> BOOLEAN] /\ refused' \in [Inits -> BOOLEAN]
    BY <1>1, ExceptType, Zenon DEF StartInit, Types, TypeOK
  <2>8. TypeOK'
    BY <1>0, <1>1, <2>3, <2>4, <2>5, <2>6, ItemTypes DEF StartInit, Types, TypeOK, Budget
  <2>9. Commands'
    BY <1>0, <1>1 DEF StartInit, Types, TypeOK, Commands
  <2> QED
    BY <2>8, <2>9 DEF Types
<1>2. CASE LockInit(p)
  <2>8. TypeOK'
    BY <1>0, <1>2 DEF LockInit, Types, TypeOK
  <2>9. Commands'
    BY <1>0, <1>2 DEF LockInit, Types, TypeOK, Commands
  <2> QED
    BY <2>8, <2>9 DEF Types
<1>3. CASE MountExisting(p)
  <2>1. direct' \in BOOLEAN /\ mounted' \in {"no", "plain", "good"}
    BY <1>3 DEF MountExisting, MountWith, Types, TypeOK
  <2>8. TypeOK'
    BY <1>0, <1>3, <2>1 DEF MountExisting, Types, TypeOK
  <2>9. Commands'
    BY <1>0, <1>3 DEF MountExisting, Types, TypeOK, Commands
  <2> QED
    BY <2>8, <2>9 DEF Types
<1>4. CASE MountRefused(p)
  <2>1. refused' \in [Inits -> BOOLEAN]
    BY <1>4, ExceptType, Zenon DEF MountRefused, Types, TypeOK
  <2>2. spent' \in Budget
    <3>1. spent \in Budget
      BY DEF Types, TypeOK, Budget
    <3>2. spent' = [spent EXCEPT !.fails = @ + 1, !.refusals = @ + 1]
      BY <1>4 DEF MountRefused
    <3> DEFINE once == [spent EXCEPT !.fails = @ + 1]
    <3>3. once \in Budget /\ spent.refusals + 1 \in Nat
      BY <3>1 DEF Budget
    <3>4. \A r \in Budget, n \in Nat : [r EXCEPT !.refusals = n] \in Budget
      BY DEF Budget
    <3>5. spent' = [once EXCEPT !.refusals = spent.refusals + 1]
      BY <3>2
    <3> QED
      BY <3>3, <3>4, <3>5, Zenon
  <2>8. TypeOK'
    BY <1>0, <1>4, <2>1, <2>2 DEF MountRefused, Types, TypeOK, Budget
  <2>9. Commands'
    BY <1>0, <1>4 DEF MountRefused, Types, TypeOK, Commands
  <2> QED
    BY <2>8, <2>9 DEF Types
<1>5. CASE Validate(p)
  <2>8. TypeOK'
    BY <1>0, <1>5 DEF Validate, Types, TypeOK
  <2>9. Commands'
    BY <1>0, <1>5 DEF Validate, Types, TypeOK, Commands
  <2> QED
    BY <2>8, <2>9 DEF Types
<1>6. CASE MkdirStore(p)
  <2>8. TypeOK'
    BY <1>0, <1>6 DEF MkdirStore, Types, TypeOK
  <2>9. Commands'
    BY <1>0, <1>6 DEF MkdirStore, Types, TypeOK, Commands
  <2> QED
    BY <2>8, <2>9 DEF Types
<1>7. CASE CreateBackingFile(p)
  <2>8. TypeOK'
    BY <1>0, <1>7 DEF CreateBackingFile, Types, TypeOK
  <2>9. Commands'
    BY <1>0, <1>7 DEF CreateBackingFile, Types, TypeOK, Commands
  <2> QED
    BY <2>8, <2>9 DEF Types
<1>8. CASE Remount(p)
  <2>8. TypeOK'
    BY <1>0, <1>8 DEF Remount, Types, TypeOK
  <2>9. Commands'
    BY <1>0, <1>8 DEF Remount, Types, TypeOK, Commands
  <2> QED
    BY <2>8, <2>9 DEF Types
<1>9. CASE Format(p)
  <2>8. TypeOK'
    BY <1>0, <1>9 DEF Format, Types, TypeOK
  <2>9. Commands'
    BY <1>0, <1>9 DEF Format, Types, TypeOK, Commands
  <2> QED
    BY <2>8, <2>9 DEF Types
<1>10. CASE FormatFails(p)
  <2>1. ok' \in [Command -> BOOLEAN]
    BY <1>10, ExceptType, Zenon DEF FormatFails, Types, TypeOK
  <2>2. backing' \in {"none", "raw", "xfs"} /\ disk' \in Tree
    BY <1>0, <1>10 DEF FormatFails, Types, TypeOK
  <2>3. spent' \in Budget
    BY <1>10, SpendTypes DEF FormatFails, Types, TypeOK, Budget
  <2>8. TypeOK'
    BY <1>0, <1>10, <2>1, <2>2, <2>3 DEF FormatFails, Types, TypeOK, Budget
  <2>9. Commands'
    BY <1>0, <1>10 DEF FormatFails, Types, TypeOK, Commands
  <2> QED
    BY <2>8, <2>9 DEF Types
<1>11. CASE MountNew(p)
  <2>8. TypeOK'
    BY <1>0, <1>11 DEF MountNew, MountWith, Types, TypeOK
  <2>9. Commands'
    BY <1>0, <1>11 DEF MountNew, Types, TypeOK, Commands
  <2> QED
    BY <2>8, <2>9 DEF Types
<1>12. CASE MkdirMeta(p)
  <2>1. [View EXCEPT !.dirs = @ \cup {"meta"}] \in Tree
    BY <1>0, TreeFields, ItemTypes DEF Tree
  <2>2. host' \in Tree /\ disk' \in Tree
    BY <1>12, <2>1, ViewTypes DEF MkdirMeta, Types
  <2>8. TypeOK'
    BY <1>0, <1>12, <2>2 DEF MkdirMeta, Types, TypeOK
  <2>9. Commands'
    BY <1>0, <1>12 DEF MkdirMeta, Types, TypeOK, Commands
  <2> QED
    BY <2>8, <2>9 DEF Types
<1>13. CASE ApplyMappings(p)
  <2>8. TypeOK'
    BY <1>0, <1>13 DEF ApplyMappings, Types, TypeOK
  <2>9. Commands'
    BY <1>0, <1>13 DEF ApplyMappings, Types, TypeOK, Commands
  <2> QED
    BY <2>8, <2>9 DEF Types
<1>14. CASE CreateNamespaceFile(p)
  <2>1. [View EXCEPT !.ns = "torn"] \in Tree
    BY <1>0, TreeFields
  <2>2. host' \in Tree /\ disk' \in Tree
    BY <1>14, <2>1, ViewTypes DEF CreateNamespaceFile, Types, TypeOK
  <2>8. TypeOK'
    BY <1>0, <1>14, <2>2 DEF CreateNamespaceFile, Types, TypeOK
  <2>9. Commands'
    BY <1>0, <1>14 DEF CreateNamespaceFile, Types, TypeOK, Commands
  <2> QED
    BY <2>8, <2>9 DEF Types
<1>15. CASE EncodeNamespace(p)
  <2>1. arg[p].mapping \in Mapping
    BY <1>15 DEF EncodeNamespace, Types, Commands, InitSpec
  <2>2. [View EXCEPT !.ns = IF @ = None THEN None ELSE arg[p].mapping] \in Tree
    BY <1>0, <2>1, TreeFields
  <2>3. host' \in Tree /\ disk' \in Tree
    BY <1>15, <2>2, ViewTypes DEF EncodeNamespace, Types
  <2>8. TypeOK'
    BY <1>0, <1>15, <2>3 DEF EncodeNamespace, Types, TypeOK
  <2>9. Commands'
    BY <1>0, <1>15 DEF EncodeNamespace, Types, TypeOK, Commands
  <2> QED
    BY <2>8, <2>9 DEF Types
<1>16. CASE ChownStore(p)
  <2>1. arg[p].mapping \in Mapping
    BY <1>16 DEF ChownStore, Types, Commands, InitSpec
  <2>2. host' \in Tree /\ disk' \in Tree
    BY <1>0, <1>16, <2>1, ChownTypes, ItemTypes DEF ChownStore, Types
  <2>3. ok' \in [Command -> BOOLEAN]
    BY <1>16, ExceptType, Zenon DEF ChownStore, Chown, Types, TypeOK
  <2>8. TypeOK'
    BY <1>0, <1>16, <2>2, <2>3 DEF ChownStore, Chown, Types, TypeOK
  <2>9. Commands'
    BY <1>0, <1>16 DEF ChownStore, Chown, Types, TypeOK, Commands
  <2> QED
    BY <2>8, <2>9 DEF Types
<1>17. CASE MakeItem(p)
  <2> DEFINE name == Item[item[p]]
  <2>1. name \in Items /\ item[p] + 1 \in 1 .. Len(Item) + 1
    BY <1>17, ItemTypes DEF MakeItem
  <2>2. [View EXCEPT !.dirs = @ \cup {name}] \in Tree
    BY <1>0, <2>1, TreeFields, ItemTypes DEF Tree
  <2>3. host' \in Tree /\ disk' \in Tree
    BY <1>17, <2>2, ViewTypes DEF MakeItem, Types, TypeOK
  <2>4. ok' \in [Command -> BOOLEAN] /\ dir' \in BOOLEAN
    BY <1>17, ExceptType, Zenon DEF MakeItem, Types, TypeOK
  <2>5. item' \in [Inits -> 1 .. Len(Item) + 1]
    BY <1>17, <2>1 DEF MakeItem, Types, TypeOK
  <2>8. TypeOK'
    BY <1>0, <1>17, <2>3, <2>4, <2>5 DEF MakeItem, Types, TypeOK
  <2>9. Commands'
    BY <1>0, <1>17 DEF MakeItem, Types, TypeOK, Commands
  <2> QED
    BY <2>8, <2>9 DEF Types
<1>18. CASE ChownItem(p)
  <2>1. arg[p].mapping \in Mapping /\ item[p] \in DOMAIN Item
    BY <1>18 DEF ChownItem, Types, Commands, InitSpec
  <2>2. Item[item[p]] \in Names /\ item[p] + 1 \in 1 .. Len(Item) + 1
    BY <2>1, ItemTypes
  <2>3. host' \in Tree /\ disk' \in Tree
    BY <1>0, <1>18, <2>1, <2>2, ChownTypes DEF ChownItem, Types
  <2>4. ok' \in [Command -> BOOLEAN]
    BY <1>18, ExceptType, Zenon DEF ChownItem, Chown, Types, TypeOK
  <2>5. item' \in [Inits -> 1 .. Len(Item) + 1]
    BY <1>18, <2>2 DEF ChownItem, Types, TypeOK
  <2>8. TypeOK'
    BY <1>0, <1>18, <2>3, <2>4, <2>5 DEF ChownItem, Chown, Types, TypeOK
  <2>9. Commands'
    BY <1>0, <1>18 DEF ChownItem, Chown, Types, TypeOK, Commands
  <2> QED
    BY <2>8, <2>9 DEF Types
<1>19. CASE ConfigureDirectIO(p)
  <2>1. arg[p].direct \in BOOLEAN
    BY DEF Types, TypeOK
  <2>2. ok' \in [Command -> BOOLEAN] /\ direct' \in BOOLEAN
    BY <1>19, <2>1, ExceptType, Zenon DEF ConfigureDirectIO, SetDirectIO, Types, TypeOK
  <2>8. TypeOK'
    BY <1>0, <1>19, <2>2 DEF ConfigureDirectIO, Types, TypeOK
  <2>9. Commands'
    BY <1>0, <1>19 DEF ConfigureDirectIO, Types, TypeOK, Commands
  <2> QED
    BY <2>8, <2>9 DEF Types
<1>20. CASE UnlockInit(p)
  <2>8. TypeOK'
    BY <1>0, <1>20 DEF UnlockInit, Types, TypeOK
  <2>9. Commands'
    BY <1>0, <1>20 DEF UnlockInit, Types, TypeOK, Commands
  <2> QED
    BY <2>8, <2>9 DEF Types
<1> QED
  BY <1>1, <1>2, <1>3, <1>4, <1>5, <1>6, <1>7, <1>8, <1>9, <1>10, <1>11, <1>12,
     <1>13, <1>14, <1>15, <1>16, <1>17, <1>18, <1>19, <1>20 DEF InitStore

\* Every step of delete-store keeps the types.
LEMMA DeleteStoreTypes ==
  ASSUME Types, NEW p \in Removers, DeleteStore(p)
  PROVE  Types'
<1> USE DEF InitPC, RemovePC
<1>0. /\ p \in Command /\ View \in Tree /\ EmptyTree \in Tree
      /\ p \notin Inits
  BY ViewTypes, TreeFields, StoreAssumption DEF Types
<1>1. CASE StartDelete(p)
  <2>1. spent' \in Budget /\ ok' \in [Command -> BOOLEAN]
    BY <1>1, SpendTypes, ExceptType, Zenon DEF StartDelete, Types, TypeOK, Budget
  <2>8. TypeOK'
    BY <1>0, <1>1, <2>1 DEF StartDelete, Types, TypeOK, Budget
  <2>9. Commands'
    BY <1>0, <1>1 DEF StartDelete, Types, TypeOK, Commands
  <2> QED
    BY <2>8, <2>9 DEF Types
<1>2. ASSUME NEW at, NEW folder \in {"images", "volumes"}, NEW entries \in SUBSET Image,
             NEW next \in RemovePC, List(p, at, folder, entries, next)
      PROVE  Types'
  <2>1. ok' \in [Command -> BOOLEAN]
    BY <1>2, ExceptType, Zenon DEF List, Types, TypeOK
  <2>2. promised' \in [Removers -> SUBSET ({"images", "volumes"} \X Image)]
    <3>1. promised[p] \in SUBSET ({"images", "volumes"} \X Image)
      BY DEF Types, TypeOK
    <3>2. promised[p] \cup ({folder} \X entries) \subseteq {"images", "volumes"} \X Image
      BY <1>2, <3>1
    <3>3. \/ promised' = promised
          \/ promised' = [promised EXCEPT ![p] = promised[p] \cup ({folder} \X entries)]
      BY <1>2 DEF List
    <3>4. promised \in [Removers -> SUBSET ({"images", "volumes"} \X Image)]
      BY DEF Types, TypeOK
    <3> QED
      BY <3>2, <3>3, <3>4, SubsetExcept
  <2>3. listed' \in [Removers -> SUBSET Image]
    BY <1>2 DEF List, Types, TypeOK
  <2>4. pc' \in [Command -> InitPC \cup RemovePC \cup {"idle"}]
    BY <1>0, <1>2 DEF List, Types, TypeOK
  <2>8. TypeOK'
    BY <1>2, <2>1, <2>2, <2>3, <2>4 DEF List, Types, TypeOK
  <2>5. pc'[p] \in RemovePC /\ \A q \in Command : q # p => pc'[q] = pc[q]
    BY <1>0, <1>2 DEF List, Types, TypeOK
  <2>6. UNCHANGED <<arg, item>>
    BY <1>2 DEF List
  <2>9. Commands'
    BY <1>0, <2>5, <2>6 DEF Types, Commands
  <2> QED
    BY <2>8, <2>9 DEF Types
<1>3. CASE ListImages(p) \/ ListVolumes(p)
  <2>1. View.images \in SUBSET Image /\ View.volumes \in SUBSET Image
    BY <1>0 DEF Tree
  <2> QED
    BY <1>2, <1>3, <2>1 DEF ListImages, ListVolumes
<1>4. CASE DestroyImage(p)
  <2>1. \A i \in Image : [View EXCEPT !.images = @ \ {i}] \in Tree
    BY <1>0, TreeFields DEF Tree
  <2>2. listed[p] \subseteq Image
    BY DEF Types, TypeOK
  <2>3. host' \in Tree /\ disk' \in Tree
    BY <1>4, <2>1, <2>2, ViewTypes DEF DestroyImage, Types, TypeOK
  <2>4. listed' \in [Removers -> SUBSET Image]
    <3>1. listed' = listed \/ \E i \in Image : listed' = [listed EXCEPT ![p] = listed[p] \ {i}]
      BY <1>4, <2>2 DEF DestroyImage
    <3>2. listed \in [Removers -> SUBSET Image] /\ \A i : listed[p] \ {i} \subseteq Image
      BY <2>2 DEF Types, TypeOK
    <3> QED
      BY <3>1, <3>2, SubsetExcept
  <2>8. TypeOK'
    BY <1>0, <1>4, <2>3, <2>4 DEF DestroyImage, Types, TypeOK
  <2>9. Commands'
    BY <1>0, <1>4 DEF DestroyImage, Types, TypeOK, Commands
  <2> QED
    BY <2>8, <2>9 DEF Types
<1>5. CASE DestroyVolume(p)
  <2>1. \A i \in Image : [View EXCEPT !.volumes = @ \ {i}] \in Tree
    BY <1>0, TreeFields DEF Tree
  <2>2. listed[p] \subseteq Image
    BY DEF Types, TypeOK
  <2>3. host' \in Tree /\ disk' \in Tree
    BY <1>5, <2>1, <2>2, ViewTypes DEF DestroyVolume, Types, TypeOK
  <2>4. listed' \in [Removers -> SUBSET Image]
    <3>1. listed' = listed \/ \E i \in Image : listed' = [listed EXCEPT ![p] = listed[p] \ {i}]
      BY <1>5, <2>2 DEF DestroyVolume
    <3>2. listed \in [Removers -> SUBSET Image] /\ \A i : listed[p] \ {i} \subseteq Image
      BY <2>2 DEF Types, TypeOK
    <3> QED
      BY <3>1, <3>2, SubsetExcept
  <2>8. TypeOK'
    BY <1>0, <1>5, <2>3, <2>4 DEF DestroyVolume, Types, TypeOK
  <2>9. Commands'
    BY <1>0, <1>5 DEF DestroyVolume, Types, TypeOK, Commands
  <2> QED
    BY <2>8, <2>9 DEF Types
<1>6. CASE DeInitFilesystem(p)
  <2>1. direct' \in BOOLEAN /\ mounted' \in {"no", "plain", "good"}
    BY <1>6 DEF DeInitFilesystem, MountWith, Types, TypeOK
  <2>2. ok' \in [Command -> BOOLEAN]
    BY <1>6, ExceptType, Zenon DEF DeInitFilesystem, Types, TypeOK
  <2>8. TypeOK'
    BY <1>0, <1>6, <2>1, <2>2 DEF DeInitFilesystem, Types, TypeOK
  <2>9. Commands'
    BY <1>0, <1>6 DEF DeInitFilesystem, Types, TypeOK, Commands
  <2> QED
    BY <2>8, <2>9 DEF Types
<1>7. CASE RemoveEntry(p)
  <2>1. [View EXCEPT !.ns = None] \in Tree
    BY <1>0, TreeFields
  <2>2. \A f \in Removable :
          [View EXCEPT !.dirs = @ \ {f}, !.owner[f] = 0,
                       !.images = IF f = "images" THEN {} ELSE @,
                       !.volumes = IF f = "volumes" THEN {} ELSE @] \in Tree
    <3> SUFFICES ASSUME NEW f \in Removable
                 PROVE  [View EXCEPT !.dirs = @ \ {f}, !.owner[f] = 0,
                                     !.images = IF f = "images" THEN {} ELSE @,
                                     !.volumes = IF f = "volumes" THEN {} ELSE @] \in Tree
      OBVIOUS
    <3>1. /\ f \in Names /\ View.dirs \ {f} \in SUBSET Items /\ 0 \in Int
          /\ (IF f = "images" THEN {} ELSE View.images) \in SUBSET Image
          /\ (IF f = "volumes" THEN {} ELSE View.volumes) \in SUBSET Image
      BY <1>0 DEF Tree, Removable, Names
    <3> DEFINE t1 == [View EXCEPT !.dirs = View.dirs \ {f}]
               t2 == [t1 EXCEPT !.owner[f] = 0]
               t3 == [t2 EXCEPT !.images = IF f = "images" THEN {} ELSE View.images]
               t4 == [t3 EXCEPT !.volumes = IF f = "volumes" THEN {} ELSE View.volumes]
    <3>2. t1 \in Tree
      BY <1>0, <3>1, TreeFields
    <3>3. t2 \in Tree
      BY <3>1, <3>2, TreeFields
    <3>4. t3 \in Tree
      BY <3>1, <3>3, TreeFields
    <3>5. t4 \in Tree
      BY <3>1, <3>4, TreeFields
    <3> QED
      BY <3>5
  <2>3. host' \in Tree /\ disk' \in Tree
    BY <1>7, <2>1, <2>2, ViewTypes DEF RemoveEntry, Types
  <2>8. TypeOK'
    BY <1>0, <1>7, <2>3 DEF RemoveEntry, Types, TypeOK
  <2>9. Commands'
    BY <1>0, <1>7 DEF RemoveEntry, Types, TypeOK, Commands
  <2> QED
    BY <2>8, <2>9 DEF Types
<1>8. CASE RemoveStorePath(p)
  <2>1. ok' \in [Command -> BOOLEAN] /\ dir' \in BOOLEAN /\ host' \in Tree
    BY <1>0, <1>8, ExceptType, Zenon DEF RemoveStorePath, Types, TypeOK
  <2>8. TypeOK'
    BY <1>0, <1>8, <2>1 DEF RemoveStorePath, Types, TypeOK
  <2>9. Commands'
    BY <1>0, <1>8 DEF RemoveStorePath, Types, TypeOK, Commands
  <2> QED
    BY <2>8, <2>9 DEF Types
<1>9. CASE EndDelete(p)
  <2>8. TypeOK'
    BY <1>0, <1>9 DEF EndDelete, Types, TypeOK
  <2>9. Commands'
    BY <1>0, <1>9 DEF EndDelete, Types, TypeOK, Commands
  <2> QED
    BY <2>8, <2>9 DEF Types
<1> QED
  BY <1>1, <1>3, <1>4, <1>5, <1>6, <1>7, <1>8, <1>9 DEF DeleteStore

\* So do creates, failing calls, kills, restarts and the operator.
LEMMA OtherTypes ==
  ASSUME Types,
         \/ \E i \in Image : CreateImage(i)
         \/ \E p \in Command : CallFails(p) \/ Killed(p)
         \/ Reboot
         \/ AdminMount
  PROVE  Types'
<1> USE DEF InitPC, RemovePC
<1>0. View \in Tree
  BY ViewTypes DEF Types
<1>1. ASSUME NEW i \in Image, CreateImage(i) PROVE Types'
  <2>1. [View EXCEPT !.images = @ \cup {i}, !.volumes = @ \cup {i}] \in Tree
    BY <1>0 DEF Tree
  <2>2. host' \in Tree /\ disk' \in Tree
    BY <1>1, <2>1, ViewTypes DEF CreateImage, Types
  <2>3. made' \in [Image -> Mapping \cup {None}]
    BY <1>1 DEF CreateImage, MappingsReadable, Types, TypeOK
  <2>8. TypeOK'
    BY <1>1, <2>2, <2>3 DEF CreateImage, Types, TypeOK
  <2>9. Commands'
    BY <1>1 DEF CreateImage, Types, Commands
  <2> QED
    BY <2>8, <2>9 DEF Types
<1>2. ASSUME NEW p \in Command, CallFails(p) PROVE Types'
  <2>1. spent' \in Budget /\ ok' \in [Command -> BOOLEAN]
    BY <1>2, SpendTypes, ExceptType, Zenon DEF CallFails, Types, TypeOK, Budget
  <2>3. pc[p] # "idle"
    BY <1>2, StoreAssumption DEF CallFails, CallAt
  <2>8. TypeOK'
    BY <1>2, <2>1 DEF CallFails, Types, TypeOK, Budget
  <2>9. Commands'
    BY <1>2, <2>3 DEF CallFails, Types, TypeOK, Commands
  <2> QED
    BY <2>8, <2>9 DEF Types
<1>3. ASSUME NEW p \in Command, Killed(p) PROVE Types'
  <2>1. spent' \in Budget
    BY <1>3, SpendTypes DEF Killed, Types, TypeOK, Budget
  <2>8. TypeOK'
    BY <1>3, <2>1 DEF Killed, Types, TypeOK, Budget
  <2>9. Commands'
    BY <1>3 DEF Killed, Types, TypeOK, Commands
  <2> QED
    BY <2>8, <2>9 DEF Types
<1>4. CASE Reboot
  <2>1. spent' \in Budget /\ direct' \in BOOLEAN
    BY <1>4, SpendTypes DEF Reboot, MountWith, Types, TypeOK, Budget
  <2>8. TypeOK'
    BY <1>4, <2>1 DEF Reboot, MountWith, Types, TypeOK, Budget
  <2>9. Commands'
    BY <1>4 DEF Reboot, Types, TypeOK, Commands
  <2> QED
    BY <2>8, <2>9 DEF Types
<1>5. CASE AdminMount
  <2>1. spent' \in Budget /\ direct' \in BOOLEAN
    BY <1>5, SpendTypes DEF AdminMount, MountWith, Types, TypeOK, Budget
  <2>8. TypeOK'
    BY <1>5, <2>1 DEF AdminMount, MountWith, Types, TypeOK, Budget
  <2>9. Commands'
    BY <1>5 DEF AdminMount, Types, Commands
  <2> QED
    BY <2>8, <2>9 DEF Types
<1> QED
  BY <1>1, <1>2, <1>3, <1>4, <1>5

\* So Types is an invariant.
LEMMA AlwaysTypes == Spec => []Types
<1>1. Types /\ [Next]_vars => Types'
  <2>1. ASSUME Types, Next PROVE Types'
    BY <2>1, InitStoreTypes, DeleteStoreTypes, OtherTypes DEF Next
  <2>2. ASSUME Types, UNCHANGED vars PROVE Types'
    BY <2>2 DEF vars, Types, TypeOK, Commands
  <2> QED
    BY <2>1, <2>2
<1> QED
  BY InitTypes, <1>1, PTL DEF Spec

\* Type correctness of init-store, delete-store and what goes on around them.
THEOREM TypeCorrect == Spec => []TypeOK
<1>1. Types => TypeOK
  BY DEF Types
<1> QED
  BY AlwaysTypes, <1>1, PTL
------------------------------------------------------------------------------
(* init-store, in a store that no delete-store is run on *)

\* The init-store lock: the file lock of locksmith, exclusive.
LEMMA NextLock ==
  ASSUME Types, LockHeld, Next
  PROVE  LockHeld'
<1> USE DEF LockHeld, Types, TypeOK
<1>1. ASSUME NEW p \in Inits, InitStore(p) PROVE LockHeld'
  <2>1. CASE LockInit(p)
    BY <2>1 DEF LockInit
  <2>2. CASE UnlockInit(p)
    BY <2>2 DEF UnlockInit
  <2>3. CASE StartInit(p)
    BY <2>3 DEF StartInit
  <2>4. CASE ~(LockInit(p) \/ UnlockInit(p) \/ StartInit(p))
    <3>1. initLock' = initLock /\ pc[p] \notin {"idle", "lock"}
      BY <1>1, <2>4 DEF InitStore, MountExisting, MountRefused, Validate, MkdirStore,
         CreateBackingFile, Remount, Format, FormatFails, MountNew, MkdirMeta,
         ApplyMappings, CreateNamespaceFile, EncodeNamespace, ChownStore, MakeItem,
         ChownItem, ConfigureDirectIO
    <3>2. \A q \in Inits : q # p => pc'[q] = pc[q]
      BY <1>1, <2>4 DEF InitStore, MountExisting, MountRefused, Validate, MkdirStore,
         CreateBackingFile, Remount, Format, FormatFails, MountNew, MkdirMeta,
         ApplyMappings, CreateNamespaceFile, EncodeNamespace, ChownStore, MakeItem,
         ChownItem, Chown, ConfigureDirectIO
    <3> QED
      BY <3>1, <3>2
  <2> QED
    BY <2>1, <2>2, <2>3, <2>4
<1>2. ASSUME NEW p \in Removers, DeleteStore(p) PROVE LockHeld'
  <2>1. initLock' = initLock /\ (pc' = pc \/ \E to : pc' = [pc EXCEPT ![p] = to])
    BY <1>2 DEF DeleteStore, StartDelete, ListImages, DestroyImage, ListVolumes, List,
       DestroyVolume, DeInitFilesystem, RemoveEntry, RemoveStorePath, EndDelete
  <2>2. p \notin Inits
    BY StoreAssumption
  <2> QED
    BY <2>1, <2>2
<1>3. ASSUME NEW i \in Image, CreateImage(i) PROVE LockHeld'
  BY <1>3 DEF CreateImage
<1>4. ASSUME NEW p \in Command, CallFails(p) PROVE LockHeld'
  <2>1. pc[p] \notin {"idle", "lock"}
    BY <1>4, StoreAssumption DEF CallFails, CallAt
  <2> QED
    BY <1>4, <2>1 DEF CallFails
<1>5. ASSUME NEW p \in Command, Killed(p) PROVE LockHeld'
  BY <1>5 DEF Killed
<1>6. CASE Reboot
  BY <1>6 DEF Reboot
<1>7. CASE AdminMount
  BY <1>7 DEF AdminMount
<1> QED
  BY <1>1, <1>2, <1>3, <1>4, <1>5, <1>6, <1>7 DEF Next

\* Before it has the lock, and once it has failed, an init-store knows nothing.
Vacuous(p) == pc[p] \in {"idle", "lock", "mount"} \/ (pc[p] = "unlock" /\ ~ok[p])

LEMMA VacuousKnown ==
  ASSUME NEW p \in Inits
  PROVE  (Vacuous(p) => Known(p)) /\ (Vacuous(p)' => Known(p)')
BY DEF Vacuous, Known, PlaceKnown, NamespaceKnown, ItemsKnown, Whole, Making, Filling

\* What an init-store knows depends on the store and on its own progress.
LEMMA KnownFrame ==
  ASSUME NEW p \in Inits, Known(p), UNCHANGED storeVars,
         pc'[p] = pc[p], arg'[p] = arg[p], item'[p] = item[p], ok'[p] = ok[p],
         refused'[p] = refused[p]
  PROVE  Known(p)'
BY DEF Known, PlaceKnown, NamespaceKnown, ItemsKnown, Whole, HostBlank, View, OwnedBy,
       BackingStoreFileExists

\* A step of the holder of the lock disturbs no other init-store.
LEMMA HolderOnly ==
  ASSUME Types, LockHeld, NEW p \in Inits, pc[p] \notin {"idle", "lock"},
         \A q \in Inits : q # p => pc'[q] = pc[q], Known(p)'
  PROVE  \A q \in Inits : Known(q)'
<1> SUFFICES ASSUME NEW q \in Inits, q # p PROVE Known(q)'
  OBVIOUS
<1>1. pc'[q] \in {"idle", "lock"}
  BY DEF LockHeld
<1>2. QED
  BY <1>1, VacuousKnown DEF Vacuous

\* A change of one field of a tree is a change of that field only.
SameBut(t, u, fields) ==
  /\ "dirs" \in fields \/ u.dirs = t.dirs
  /\ "ns" \in fields \/ u.ns = t.ns
  /\ "owner" \in fields \/ u.owner = t.owner
  /\ "images" \in fields \/ (u.images = t.images /\ u.volumes = t.volumes)

LEMMA OneField ==
  ASSUME NEW t \in Tree
  PROVE  /\ \A D : LET u == [t EXCEPT !.dirs = D] IN SameBut(t, u, {"dirs"}) /\ u.dirs = D
         /\ \A m : LET u == [t EXCEPT !.ns = m] IN SameBut(t, u, {"ns"}) /\ u.ns = m
         /\ \A n \in Names : \A id :
              LET u == [t EXCEPT !.owner[n] = id]
              IN SameBut(t, u, {"owner"}) /\ u.owner = [t.owner EXCEPT ![n] = id]
BY DEF SameBut, Tree

\* A change made below the store path is a change of what the path leads to.
LEMMA ViewChange ==
  ASSUME TypeOK, NEW t, SetView(t), mounted' = mounted
  PROVE  /\ View' = t
         /\ mounted = "no" => host' = t /\ disk' = disk
         /\ mounted # "no" => disk' = t /\ host' = host
BY DEF SetView, View

\* Unless it makes an image or an earlier folder, a change keeps TreeInv if it
\* keeps it of the tree that is changed.
LEMMA TreeKept ==
  ASSUME TypeOK, TreeInv, UNCHANGED <<made, mounted>>, NEW t, SetView(t),
         t.ns \notin Mapping => t.dirs \subseteq {"meta"},
         \A i \in t.images \cup t.volumes : made[i] \in Mapping /\ t.ns = made[i]
  PROVE  TreeInv'
BY ViewChange DEF TreeInv, TreeOK

\* The empty tree is as it should be.
LEMMA EmptyOK ==
  /\ EmptyTree.ns = None /\ EmptyTree.dirs = {} /\ EmptyTree.images = {} /\ EmptyTree.volumes = {}
  /\ TreeOK(EmptyTree) /\ TreeOK(EmptyTree)'
BY DEF EmptyTree, TreeOK

\* The check of the mount options passes whatever they are, so validation
\* depends on the filesystem of the path alone.
LEMMA ValidateIsXFS ==
  ASSUME TypeOK, NEW path \in {"store", "parent"}
  PROVE  ValidateFileSystem(path) <=> FilesystemIsXFS(path)
<1>1. ASSUME NEW line \in ProcMounts, NEW i \in 1 .. Len(line) - 1
      PROVE  SubSeq(line, i, i + 1) # <<"xfs", path>>
  <2>1. line = <<"loop", "store", "xfs", mounted>> /\ mounted \in {"plain", "good"}
    BY <1>1 DEF ProcMounts, TypeOK
  <2>2. i \in 1 .. 3
    BY <2>1
  <2>3. SubSeq(line, i, i + 1)[2] = line[i + 1] /\ SubSeq(line, i, i + 1)[1] = line[i]
    BY <2>1, <2>2
  <2>4. CASE SubSeq(line, i, i + 1) = <<"xfs", path>>
    <3>0. <<"xfs", path>>[1] = "xfs" /\ <<"xfs", path>>[2] = path
      OBVIOUS
    <3>1. line[i] = "xfs" /\ line[i + 1] = path
      BY <2>3, <2>4, <3>0, Zenon
    <3>2. i = 3
      BY <2>1, <2>2, <3>1
    <3>3. line[4] = path
      BY <3>1, <3>2
    <3> QED
      BY <2>1, <3>3
  <2> QED
    BY <2>4
<1>2. CheckMountOptions(path)
  BY <1>1 DEF CheckMountOptions
<1>3. QED
  BY <1>2 DEF ValidateFileSystem

\* The steps of init-store before it has the lock and after it is done.
LEMMA OutsideInv ==
  ASSUME Types, InitStoreInv, NEW p \in Inits,
         StartInit(p) \/ LockInit(p) \/ UnlockInit(p)
  PROVE  StoreInv' /\ \A q \in Inits : Known(q)'
<1>1. /\ UNCHANGED storeVars /\ UNCHANGED made /\ spent'.refusals = spent.refusals
      /\ pc'[p] \in {"idle", "lock", "mount"}
      /\ \A q \in Inits : q # p => /\ pc'[q] = pc[q] /\ arg'[q] = arg[q] /\ item'[q] = item[q]
                                   /\ ok'[q] = ok[q] /\ refused'[q] = refused[q]
  BY DEF StartInit, LockInit, UnlockInit, Types, TypeOK
<1>2. \A q \in Inits : refused'[q] => refused[q]
  BY DEF StartInit, LockInit, UnlockInit, Types, TypeOK
<1>3. StoreInv'
  BY <1>1, <1>2 DEF InitStoreInv, StoreInv, DiskInv, TreeInv, TreeOK, PlaceInv, HostBlank
<1>4. \A q \in Inits : Known(q)'
  BY <1>1, VacuousKnown, KnownFrame DEF InitStoreInv, Vacuous
<1> QED
  BY <1>3, <1>4

\* The steps that find or make the place of the store.
LEMMA PlaceSteps ==
  ASSUME Types, InitStoreInv, NEW p \in Inits,
         \/ MountExisting(p) \/ MountRefused(p) \/ Validate(p) \/ MkdirStore(p)
         \/ CreateBackingFile(p) \/ Remount(p) \/ Format(p) \/ FormatFails(p) \/ MountNew(p)
  PROVE  StoreInv' /\ Known(p)'
<1> USE DEF InitStoreInv, StoreInv
<1>0. /\ p \in Command /\ Known(p) /\ valPath[p] \in {"store", "parent"}
      /\ mounted \in {"no", "plain", "good"} /\ spent.refusals \in Nat
  BY DEF Types, TypeOK
<1>1. CASE MountExisting(p)
  <2>1. StoreInv'
    BY <1>1 DEF MountExisting, Mountable, MountWith, DiskInv, TreeInv, TreeOK, PlaceInv, HostBlank
  <2>2. backing' = "xfs" => mounted' # "no"
    BY <1>0, <1>1 DEF MountExisting, Mountable, MountWith, PlaceInv
  <2>3. Known(p)'
    BY <1>0, <1>1, <2>2 DEF MountExisting, Types, TypeOK, Known, PlaceKnown, NamespaceKnown,
       ItemsKnown, Whole, Making, Filling
  <2> QED
    BY <2>1, <2>3
<1>2. CASE MountRefused(p)
  <2>1. spent'.refusals = spent.refusals + 1
    BY <1>2 DEF MountRefused, Types, TypeOK
  <2>2. StoreInv'
    BY <1>0, <1>2, <2>1 DEF MountRefused, DiskInv, TreeInv, TreeOK, PlaceInv, HostBlank
  <2>3. refused'[p]
    BY <1>2 DEF MountRefused, Types, TypeOK
  <2>4. Known(p)'
    BY <1>0, <1>2, <2>3 DEF MountRefused, Types, TypeOK, Known, PlaceKnown, NamespaceKnown,
       ItemsKnown, Whole, Making, Filling
  <2> QED
    BY <2>2, <2>4
<1>3. CASE Validate(p)
  <2>1. StoreInv'
    BY <1>3 DEF Validate, DiskInv, TreeInv, TreeOK, PlaceInv, HostBlank
  <2>2. pc'[p] = "mkstore" => HostBlank
    BY <1>0, <1>3, ValidateIsXFS DEF Validate, FilesystemIsXFS, PlaceInv, Types, TypeOK
  <2>3. pc'[p] = "meta" => hostIsXFS \/ mounted # "no"
    BY <1>0, <1>3, ValidateIsXFS DEF Validate, FilesystemIsXFS, Types, TypeOK
  <2>4. pc'[p] \in {"mkstore", "meta", "unlock"} /\ (pc'[p] = "unlock" => ~ok'[p])
    BY <1>0, <1>3 DEF Validate, Types, TypeOK
  <2>5. backing = "xfs" /\ mounted = "no" => refused[p]
    BY <1>0, <1>3 DEF Validate, Known, PlaceKnown
  <2>6. Known(p)'
    BY <1>3, <2>2, <2>3, <2>4, <2>5 DEF Validate, Known, PlaceKnown, NamespaceKnown,
       ItemsKnown, Whole, Making, Filling, HostBlank
  <2> QED
    BY <2>1, <2>6
<1>4. CASE MkdirStore(p)
  <2>1. StoreInv'
    BY <1>4 DEF MkdirStore, DiskInv, TreeInv, TreeOK, PlaceInv, HostBlank
  <2>2. Known(p)'
    BY <1>0, <1>4 DEF MkdirStore, Types, TypeOK, Known, PlaceKnown, NamespaceKnown,
       ItemsKnown, Whole, Making, Filling, HostBlank
  <2> QED
    BY <2>1, <2>2
<1>5. CASE CreateBackingFile(p)
  <2>1. backing' = backing \/ (backing = "none" /\ backing' = "raw")
    BY <1>5 DEF CreateBackingFile, BackingStoreFileExists
  <2>2. dir
    BY <1>0, <1>5 DEF CreateBackingFile, Known, PlaceKnown, Making
  <2>3. StoreInv'
    BY <1>5, <2>1, <2>2 DEF CreateBackingFile, DiskInv, TreeInv, TreeOK, PlaceInv, HostBlank
  <2>4. Known(p)'
    BY <1>0, <1>5 DEF CreateBackingFile, Types, TypeOK, Known, PlaceKnown, NamespaceKnown,
       ItemsKnown, Whole, Making, Filling, HostBlank
  <2> QED
    BY <2>3, <2>4
<1>6. CASE Remount(p)
  <2>1. StoreInv'
    BY <1>6 DEF Remount, DiskInv, TreeInv, TreeOK, PlaceInv, HostBlank
  <2>2. Known(p)'
    BY <1>0, <1>6 DEF Remount, Types, TypeOK, Known, PlaceKnown, NamespaceKnown,
       ItemsKnown, Whole, Making, Filling, HostBlank
  <2> QED
    BY <2>1, <2>2
<1>7. CASE Format(p)
  <2>1. HostBlank /\ mounted = "no"
    BY <1>0, <1>7 DEF Format, Known, PlaceKnown, Making
  <2>2. DiskInv' /\ PlaceInv'
    BY <1>0, <1>7, <2>1 DEF Format, Known, PlaceKnown, Making, DiskInv, PlaceInv, HostBlank
  <2>3. TreeInv'
    BY <1>7, <2>1, EmptyOK DEF Format, TreeInv, HostBlank
  <2>4. Known(p)'
    BY <1>0, <1>7, <2>1 DEF Format, Types, TypeOK, Known, PlaceKnown, NamespaceKnown,
       ItemsKnown, Whole, Making, Filling, HostBlank
  <2> QED
    BY <2>2, <2>3, <2>4
<1>8. CASE FormatFails(p)
  <2>1. HostBlank /\ mounted = "no"
    BY <1>0, <1>8 DEF FormatFails, Known, PlaceKnown, Making
  <2>2. spent'.refusals = spent.refusals
    BY <1>8 DEF FormatFails, Types, TypeOK
  <2>3. DiskInv' /\ PlaceInv'
    BY <1>0, <1>8, <2>1, <2>2 DEF FormatFails, Known, PlaceKnown, Making, DiskInv, PlaceInv, HostBlank
  <2>4. TreeInv'
    <3>1. host' = host /\ made' = made /\ (disk' = disk \/ disk' = EmptyTree)
      BY <1>8 DEF FormatFails
    <3>2. TreeOK(host)' /\ (disk' = disk => TreeOK(disk)')
      BY <3>1 DEF TreeInv, TreeOK
    <3> QED
      BY <3>1, <3>2, EmptyOK DEF TreeInv
  <2>5. pc'[p] = "unlock" /\ ~ok'[p]
    BY <1>0, <1>8 DEF FormatFails, Types, TypeOK
  <2>6. Known(p)'
    BY <2>5, VacuousKnown DEF Vacuous
  <2> QED
    BY <2>3, <2>4, <2>6
<1>9. CASE MountNew(p)
  <2>1. StoreInv'
    BY <1>9 DEF MountNew, Mountable, MountWith, DiskInv, TreeInv, TreeOK, PlaceInv, HostBlank
  <2>2. CASE pc'[p] = "unlock"
    <3>1. ~ok'[p]
      BY <1>0, <1>9, <2>2 DEF MountNew, Types, TypeOK
    <3> QED
      BY <2>1, <2>2, <3>1, VacuousKnown DEF Vacuous
  <2>3. CASE pc'[p] # "unlock"
    <3>1. pc'[p] = "meta" /\ mounted' = "good"
      BY <1>0, <1>9, <2>3 DEF MountNew, MountWith, Types, TypeOK
    <3>2. Known(p)'
      BY <3>1 DEF Known, PlaceKnown, NamespaceKnown, ItemsKnown, Whole, Making, Filling
    <3> QED
      BY <2>1, <3>2
  <2> QED
    BY <2>1, <2>2, <2>3
<1> QED
  BY <1>1, <1>2, <1>3, <1>4, <1>5, <1>6, <1>7, <1>8, <1>9

\* The store is filled in the place that was settled on.
LEMMA WriteKeeps ==
  ASSUME Types, InitStoreInv, NEW p \in Inits, pc[p] \in Filling, NEW t, SetView(t),
         UNCHANGED <<hostIsXFS, backing, mounted, refused, spent>>, dir'
  PROVE  DiskInv' /\ PlaceInv'
<1>1. /\ hostIsXFS \/ mounted # "no"
      /\ backing = "xfs" /\ mounted = "no" => spent.refusals > 0
  BY DEF InitStoreInv, StoreInv, PlaceInv, Known, PlaceKnown
<1>2. /\ mounted = "no" => disk' = disk
      /\ mounted # "no" => host' = host /\ backing = "xfs"
  BY DEF SetView, InitStoreInv, StoreInv, DiskInv
<1>3. spent.refusals \in Nat
  BY DEF Types, TypeOK
<1>4. QED
  BY <1>1, <1>2, <1>3 DEF InitStoreInv, StoreInv, DiskInv, PlaceInv, HostBlank

\* The place stays known while the store is filled, and is not the concern of
\* an init-store that is done.
LEMMA PlaceStays ==
  ASSUME Types, NEW p \in Inits, PlaceKnown(p), pc[p] \in Filling,
         UNCHANGED <<hostIsXFS, backing, mounted, refused>>, dir',
         pc'[p] \in Filling \cup {"unlock"}
  PROVE  PlaceKnown(p)'
BY DEF PlaceKnown, Making, Filling

\* An init-store that aborts knows nothing, and has changed nothing.
LEMMA Aborts ==
  ASSUME Types, InitStoreInv, NEW p \in Inits, Abort(p),
         UNCHANGED <<hostIsXFS, dir, host, backing, disk, mounted, made, refused>>,
         spent'.refusals = spent.refusals
  PROVE  StoreInv' /\ Known(p)'
<1>1. pc'[p] = "unlock" /\ ~ok'[p]
  BY DEF Types, TypeOK
<1>2. Known(p)'
  BY <1>1, VacuousKnown DEF Vacuous
<1>3. StoreInv'
  BY DEF InitStoreInv, StoreInv, DiskInv, TreeInv, TreeOK, PlaceInv, HostBlank
<1> QED
  BY <1>2, <1>3

\* The steps that fill the store, up to the namespace file.
LEMMA NamespaceSteps ==
  ASSUME Types, InitStoreInv, NEW p \in Inits,
         \/ MkdirMeta(p) \/ ApplyMappings(p) \/ CreateNamespaceFile(p) \/ EncodeNamespace(p)
  PROVE  StoreInv' /\ Known(p)'
<1>0. /\ TypeOK /\ TreeInv /\ PlaceInv /\ Known(p) /\ PlaceKnown(p)
      /\ View \in Tree /\ p \in Command
      /\ TreeOK(View)
  BY ViewTypes DEF Types, InitStoreInv, StoreInv, Known, TreeInv, View
<1>1. CASE MkdirMeta(p)
  <2> DEFINE t == [View EXCEPT !.dirs = @ \cup {"meta"}]
  <2>1. SetView(t) /\ SameBut(View, t, {"dirs"}) /\ t.dirs = View.dirs \cup {"meta"}
    BY <1>0, <1>1, OneField DEF MkdirMeta
  <2>2. DiskInv' /\ PlaceInv'
    BY <1>1, <2>1, WriteKeeps DEF MkdirMeta, Filling
  <2>3. TreeInv'
    BY <1>0, <1>1, <2>1, TreeKept DEF MkdirMeta, SameBut, TreeOK
  <2>4. pc'[p] = "nsstat" /\ dir' /\ UNCHANGED <<hostIsXFS, backing, mounted, refused>>
    BY <1>0, <1>1 DEF MkdirMeta, TypeOK
  <2>5. PlaceKnown(p)'
    BY <1>0, <1>1, <2>4, PlaceStays DEF MkdirMeta, Filling
  <2>6. Known(p)'
    BY <2>4, <2>5 DEF Known, NamespaceKnown, ItemsKnown, Whole
  <2> QED
    BY <2>2, <2>3, <2>6 DEF StoreInv
<1>2. CASE ApplyMappings(p)
  <2>1. CASE Abort(p)
    BY <1>2, <2>1, Aborts DEF ApplyMappings
  <2>2. CASE ~Abort(p)
    <3>1. StoreInv'
      BY <1>2 DEF ApplyMappings, InitStoreInv, StoreInv, DiskInv, TreeInv, TreeOK, PlaceInv, HostBlank
    <3>2. /\ pc'[p] \in {"nscreate", "owner"} /\ View' = View /\ arg' = arg
          /\ pc'[p] = "nscreate" => View.ns = None
          /\ pc'[p] = "owner" => View.ns = arg[p].mapping
      BY <1>0, <1>2, <2>2 DEF ApplyMappings, MappingsMatch, View, TypeOK
    <3>3. dir' = dir /\ UNCHANGED <<hostIsXFS, backing, mounted, refused>>
      BY <1>2 DEF ApplyMappings
    <3>4. PlaceKnown(p)'
      BY <1>0, <1>2, <3>2, <3>3 DEF ApplyMappings, PlaceKnown, Making, Filling
    <3>5. Known(p)'
      BY <3>2, <3>4 DEF Known, NamespaceKnown, ItemsKnown, Whole
    <3> QED
      BY <3>1, <3>5
  <2> QED
    BY <2>1, <2>2
<1>3. CASE CreateNamespaceFile(p)
  <2>1. CASE "meta" \notin View.dirs
    BY <1>3, <2>1, Aborts DEF CreateNamespaceFile
  <2>2. CASE "meta" \in View.dirs
    <3> DEFINE t == [View EXCEPT !.ns = "torn"]
    <3>1. SetView(t) /\ SameBut(View, t, {"ns"}) /\ t.ns = "torn"
      BY <1>0, <1>3, <2>2, OneField DEF CreateNamespaceFile
    <3>2. View.ns = None /\ dir
      BY <1>0, <1>3 DEF CreateNamespaceFile, Known, NamespaceKnown, PlaceKnown, Filling
    <3>3. View.dirs \subseteq {"meta"} /\ View.images = {} /\ View.volumes = {}
      BY <1>0, <3>2, StoreAssumption DEF TreeOK
    <3>4. DiskInv' /\ PlaceInv'
      BY <1>3, <3>1, <3>2, WriteKeeps DEF CreateNamespaceFile, Filling
    <3>5. TreeInv'
      BY <1>0, <1>3, <3>1, <3>3, TreeKept DEF CreateNamespaceFile, SameBut
    <3>6. View' = t /\ pc'[p] = "nsencode"
      BY <1>0, <1>3, <2>2, <3>1, ViewChange DEF CreateNamespaceFile, TypeOK
    <3>7. PlaceKnown(p)'
      BY <1>0, <1>3, <3>2, <3>6, PlaceStays DEF CreateNamespaceFile, Filling
    <3>8. Known(p)'
      BY <3>1, <3>6, <3>7 DEF Known, NamespaceKnown, ItemsKnown, Whole
    <3> QED
      BY <3>4, <3>5, <3>8 DEF StoreInv
  <2> QED
    BY <2>1, <2>2
<1>4. CASE EncodeNamespace(p)
  <2> DEFINE t == [View EXCEPT !.ns = arg[p].mapping]
  <2>1. View.ns = "torn" /\ dir /\ arg[p].mapping \in Mapping
    BY <1>0, <1>4 DEF EncodeNamespace, Known, NamespaceKnown, PlaceKnown, Filling, Types, Commands, InitSpec
  <2>2. View.ns # None
    BY <2>1, StoreAssumption
  <2>3. SetView(t) /\ SameBut(View, t, {"ns"}) /\ t.ns = arg[p].mapping
    BY <1>0, <1>4, <2>2, OneField DEF EncodeNamespace
  <2>4. View.dirs \subseteq {"meta"} /\ View.images = {} /\ View.volumes = {}
    BY <1>0, <2>1, StoreAssumption DEF TreeOK
  <2>5. DiskInv' /\ PlaceInv'
    BY <1>4, <2>1, <2>3, WriteKeeps DEF EncodeNamespace, Filling
  <2>6. TreeInv'
    BY <1>0, <1>4, <2>3, <2>4, TreeKept DEF EncodeNamespace, SameBut
  <2>7. View' = t /\ pc'[p] = "owner" /\ arg' = arg
    BY <1>0, <1>4, <2>3, ViewChange DEF EncodeNamespace, TypeOK
  <2>8. PlaceKnown(p)'
    BY <1>0, <1>4, <2>1, <2>7, PlaceStays DEF EncodeNamespace, Filling
  <2>9. Known(p)'
    BY <2>3, <2>7, <2>8 DEF Known, NamespaceKnown, ItemsKnown, Whole
  <2> QED
    BY <2>5, <2>6, <2>9 DEF StoreInv
<1> QED
  BY <1>1, <1>2, <1>3, <1>4

\* The steps that make the items, give them to their owner and set direct-io.
LEMMA ItemSteps ==
  ASSUME Types, InitStoreInv, NEW p \in Inits,
         \/ ChownStore(p) \/ MakeItem(p) \/ ChownItem(p) \/ ConfigureDirectIO(p)
  PROVE  StoreInv' /\ Known(p)'
<1> DEFINE m == arg[p].mapping
           id == FindStoreOwner(m)
<1>0. /\ TypeOK /\ TreeInv /\ PlaceInv /\ Known(p) /\ PlaceKnown(p) /\ NamespaceKnown(p)
      /\ ItemsKnown(p) /\ View \in Tree /\ p \in Command /\ TreeOK(View)
      /\ item \in [Inits -> 1 .. Len(Item) + 1] /\ pc \in [Command -> InitPC \cup RemovePC \cup {"idle"}]
  BY ViewTypes DEF Types, InitStoreInv, StoreInv, Known, TreeInv, View, TypeOK
<1>1. pc[p] \in {"owner", "items", "chown"}
  BY DEF ChownStore, MakeItem, ChownItem, ConfigureDirectIO
<1>2. dir /\ View.ns = m /\ m \in Mapping /\ pc[p] \in Filling
  BY <1>0, <1>1 DEF PlaceKnown, NamespaceKnown, Filling, Types, Commands, InitSpec
<1>3. ASSUME NEW name \in Names, NEW there, Chown(p, name, there, "items"), ~Abort(p),
             UNCHANGED <<mounted, arg>>
      PROVE  /\ \E t : SetView(t) /\ SameBut(View, t, {"owner"})
             /\ View'.dirs = View.dirs /\ View'.ns = View.ns /\ View'.images = View.images
             /\ View'.volumes = View.volumes
             /\ OwnedBy(m, name)'
             /\ \A n \in Names : OwnedBy(m, n) => OwnedBy(m, n)'
             /\ pc'[p] = "items"
  <2> DEFINE v == IF id = -1 THEN View.owner[name] ELSE id
             t == [View EXCEPT !.owner[name] = v]
  <2>1. SetView(t) /\ pc'[p] = "items"
    BY <1>0, <1>3 DEF Chown
  <2>2. SameBut(View, t, {"owner"}) /\ t.owner = [View.owner EXCEPT ![name] = v]
    <3> HIDE DEF v
    <3> QED
      BY <1>0, <1>3 DEF SameBut, Tree
  <2>3. View' = t
    BY <1>0, <1>3, <2>1, ViewChange
  <2>4. View.owner \in [Names -> Int]
    BY <1>0 DEF Tree
  <2>5. arg'[p].mapping = m
    BY <1>3
  <2>6. \A n \in Names : View'.owner[n] = IF n = name /\ id # -1 THEN id ELSE View.owner[n]
    BY <1>3, <2>2, <2>3, <2>4
  <2>7. OwnedBy(m, name)' /\ \A n \in Names : OwnedBy(m, n) => OwnedBy(m, n)'
    BY <1>3, <2>5, <2>6 DEF OwnedBy
  <2> QED
    BY <2>1, <2>2, <2>3, <2>7 DEF SameBut
<1>4. ASSUME NEW t, SetView(t), SameBut(View, t, {"owner"}), UNCHANGED <<made, mounted>>
      PROVE  TreeInv'
  BY <1>0, <1>4, TreeKept DEF SameBut, TreeOK
<1>5. CASE ChownStore(p)
  <2>1. CASE Abort(p)
    <3>1. UNCHANGED <<host, disk>>
      BY <1>0, <1>5, <2>1 DEF ChownStore, Chown
    <3> QED
      BY <1>5, <2>1, <3>1, Aborts DEF ChownStore
  <2>2. CASE ~Abort(p)
    <3>1. Chown(p, ".", dir, "items") /\ "." \in Names /\ UNCHANGED <<mounted, arg, made>>
      BY <1>5 DEF ChownStore, Names
    <3>2. PICK t : SetView(t) /\ SameBut(View, t, {"owner"})
      BY <1>3, <2>2, <3>1
    <3>3. TreeInv' /\ DiskInv' /\ PlaceInv'
      BY <1>2, <1>4, <1>5, <3>1, <3>2, WriteKeeps DEF ChownStore
    <3>4. View'.ns = m /\ OwnedBy(m, ".")' /\ pc'[p] = "items" /\ arg'[p].mapping = m
      BY <1>2, <1>3, <2>2, <3>1
    <3>5. PlaceKnown(p)'
      BY <1>0, <1>2, <1>5, <3>4, PlaceStays DEF ChownStore, Filling
    <3>6. item'[p] = 1
      BY <1>5 DEF ChownStore, Types, Commands
    <3>7. ItemsKnown(p)'
      BY <3>4, <3>6, ItemTypes DEF ItemsKnown
    <3>8. Known(p)'
      BY <3>4, <3>5, <3>7 DEF Known, NamespaceKnown, Whole
    <3> QED
      BY <3>3, <3>8 DEF StoreInv
  <2> QED
    BY <2>1, <2>2
<1>6. CASE MakeItem(p)
  <2> DEFINE name == Item[item[p]]
  <2>0. /\ pc[p] = "items" /\ item[p] \in DOMAIN Item /\ name \in Items /\ item[p] \in Nat
        /\ UNCHANGED <<hostIsXFS, backing, mounted, arg, refused, made, spent>>
    BY <1>6, ItemTypes DEF MakeItem
  <2>1. CASE Leaves(name)
    <3>1. /\ UNCHANGED <<dir, host, disk, pc, ok>> /\ View' = View
          /\ item'[p] = item[p] + 1 /\ name = "whiteout_dev" /\ name \in View.dirs
      BY <1>0, <1>6, <2>0, <2>1 DEF MakeItem, Leaves, View
    <3>2. StoreInv'
      BY <2>0, <3>1 DEF InitStoreInv, StoreInv, DiskInv, TreeInv, TreeOK, PlaceInv, HostBlank
    <3>3. \A n : OwnedBy(m, n)' <=> OwnedBy(m, n)
      BY <2>0, <3>1 DEF OwnedBy
    <3>4. OwnedBy(m, name)
      BY <3>1 DEF OwnedBy
    <3>5. \A k \in DOMAIN Item : k < item'[p] => k < item[p] \/ k = item[p]
      BY <2>0, <3>1, ItemTypes
    <3>6. ItemsKnown(p)'
      BY <1>0, <2>0, <3>1, <3>3, <3>4, <3>5 DEF ItemsKnown
    <3>7. PlaceKnown(p)' /\ NamespaceKnown(p)'
      BY <1>0, <1>2, <2>0, <3>1, PlaceStays DEF NamespaceKnown
    <3> QED
      BY <2>0, <3>1, <3>2, <3>6, <3>7 DEF Known, Whole
  <2>2. CASE ~Leaves(name) /\ ~ParentThere(name)
    BY <1>6, <2>0, <2>2, Aborts DEF MakeItem
  <2>3. CASE ~Leaves(name) /\ ParentThere(name)
    <3> DEFINE t == [View EXCEPT !.dirs = @ \cup {name}]
    <3>1. SetView(t) /\ SameBut(View, t, {"dirs"}) /\ t.dirs = View.dirs \cup {name}
      BY <1>0, <1>6, <2>3, OneField DEF MakeItem
    <3>2. dir' /\ pc'[p] = "chown" /\ item' = item
      BY <1>0, <1>6, <2>3 DEF MakeItem
    <3>3. View' = t
      BY <1>0, <2>0, <3>1, ViewChange
    <3>4. TreeInv' /\ DiskInv' /\ PlaceInv'
      BY <1>0, <1>2, <2>0, <3>1, <3>2, TreeKept, WriteKeeps DEF SameBut, TreeOK
    <3>5. PlaceKnown(p)'
      BY <1>0, <1>2, <2>0, <3>2, PlaceStays DEF Filling
    <3>6. View'.ns = View.ns /\ View'.owner = View.owner /\ View'.dirs = View.dirs \cup {name}
      BY <3>1, <3>3 DEF SameBut
    <3>7. \A n : OwnedBy(m, n)' <=> OwnedBy(m, n)
      BY <2>0, <3>6 DEF OwnedBy
    <3>8. ItemsKnown(p)'
      BY <1>0, <2>0, <3>2, <3>6, <3>7 DEF ItemsKnown
    <3>9. Known(p)'
      BY <1>2, <2>0, <3>2, <3>5, <3>6, <3>8 DEF Known, NamespaceKnown, Whole
    <3> QED
      BY <3>4, <3>9 DEF StoreInv
  <2> QED
    BY <2>1, <2>2, <2>3
<1>7. CASE ChownItem(p)
  <2> PICK name : name = Item[item[p]]
    OBVIOUS
  <2>0. /\ pc[p] = "chown" /\ item[p] \in DOMAIN Item /\ name \in Names /\ item[p] \in Nat
        /\ name \in View.dirs /\ item'[p] = item[p] + 1
        /\ UNCHANGED <<hostIsXFS, dir, backing, mounted, arg, refused, made, spent>>
    BY <1>0, <1>7, ItemTypes DEF ChownItem, Types, Commands, ItemsKnown
  <2>1. CASE Abort(p)
    <3>1. UNCHANGED <<host, disk>>
      BY <1>0, <1>7, <2>1 DEF ChownItem, Chown
    <3> QED
      BY <2>0, <2>1, <3>1, Aborts
  <2>2. CASE ~Abort(p)
    <3>1. Chown(p, name, name \in View.dirs, "items")
      BY <1>7 DEF ChownItem
    <3>2. PICK t : SetView(t) /\ SameBut(View, t, {"owner"})
      BY <1>3, <2>0, <2>2, <3>1
    <3>3. TreeInv' /\ DiskInv' /\ PlaceInv'
      BY <1>2, <1>4, <2>0, <3>2, WriteKeeps
    <3>4. /\ View'.ns = m /\ View'.dirs = View.dirs /\ OwnedBy(m, name)' /\ pc'[p] = "items"
          /\ \A n \in Names : OwnedBy(m, n) => OwnedBy(m, n)'
      BY <1>2, <1>3, <2>0, <2>2, <3>1
    <3>5. PlaceKnown(p)'
      BY <1>0, <1>2, <2>0, <3>4, PlaceStays DEF Filling
    <3>6. \A k \in DOMAIN Item : Item[k] \in Names /\ (k < item'[p] => k < item[p] \/ k = item[p])
      BY <2>0, ItemTypes
    <3>7. OwnedBy(m, ".")' /\ arg'[p].mapping = m
      BY <1>0, <2>0, <3>4, ItemTypes DEF ItemsKnown
    <3>8. \A k \in DOMAIN Item : k < item'[p] => Item[k] \in View'.dirs /\ OwnedBy(m, Item[k])'
      BY <1>0, <2>0, <3>4, <3>6 DEF ItemsKnown
    <3>9. ItemsKnown(p)'
      BY <2>0, <3>4, <3>7, <3>8 DEF ItemsKnown
    <3>10. Known(p)'
      BY <3>4, <3>5, <3>7, <3>9 DEF Known, NamespaceKnown, Whole
    <3> QED
      BY <3>3, <3>10 DEF StoreInv
  <2> QED
    BY <2>1, <2>2
<1>8. CASE ConfigureDirectIO(p)
  <2>0. /\ pc[p] = "items" /\ item[p] = Len(Item) + 1
        /\ UNCHANGED <<hostIsXFS, dir, host, backing, disk, mounted, arg, refused, made, spent>>
    BY <1>8 DEF ConfigureDirectIO
  <2>1. CASE Abort(p)
    BY <2>0, <2>1, Aborts
  <2>2. CASE ~Abort(p)
    <3>1. pc'[p] = "unlock" /\ (BackingStoreFileExists => direct' = arg[p].direct)
      BY <1>0, <1>8, <2>2 DEF ConfigureDirectIO, SetDirectIO
    <3>2. StoreInv'
      BY <2>0 DEF InitStoreInv, StoreInv, DiskInv, TreeInv, TreeOK, PlaceInv, HostBlank
    <3>3. View' = View
      BY <2>0 DEF View
    <3>4. \A k \in DOMAIN Item : Item[k] \in View.dirs /\ OwnedBy(m, Item[k])
      BY <1>0, <2>0, ItemTypes DEF ItemsKnown
    <3>5. View.dirs = Items
      BY <1>0, <3>4 DEF Items, Tree
    <3>6. \A n \in Names : OwnedBy(m, n)
      BY <1>0, <2>0, <3>4 DEF Names, Items, ItemsKnown
    <3>7. Whole(p)'
      BY <1>2, <2>0, <3>1, <3>3, <3>5, <3>6 DEF Whole, OwnedBy, BackingStoreFileExists
    <3>8. PlaceKnown(p)'
      BY <1>0, <1>2, <2>0, <3>1, PlaceStays
    <3>9. Known(p)'
      BY <3>1, <3>7, <3>8 DEF Known, NamespaceKnown, ItemsKnown
    <3> QED
      BY <3>2, <3>9
  <2> QED
    BY <2>1, <2>2
<1> QED
  BY <1>5, <1>6, <1>7, <1>8

\* An image is made under the mappings of the namespace file, in the one place
\* that is in use.
LEMMA CreateInv ==
  ASSUME Types, InitStoreInv, NEW i \in Image, CreateImage(i)
  PROVE  StoreInv' /\ \A q \in Inits : Known(q)'
<1> DEFINE t == [View EXCEPT !.images = @ \cup {i}, !.volumes = @ \cup {i}]
<1>0. /\ TypeOK /\ View \in Tree /\ TreeOK(View) /\ TreeOK(host) /\ TreeOK(disk)
      /\ DiskInv /\ PlaceInv
  BY ViewTypes DEF Types, InitStoreInv, StoreInv, TreeInv, View
<1>1. /\ SetView(t) /\ made[i] = None /\ View.ns \in Mapping
      /\ made' = [made EXCEPT ![i] = View.ns]
      /\ UNCHANGED <<hostIsXFS, dir, backing, mounted, direct, procVars, initLock, spent>>
  BY DEF CreateImage, MappingsReadable
<1>2. /\ SameBut(View, t, {"images"})
      /\ t.images = View.images \cup {i} /\ t.volumes = View.volumes \cup {i}
  BY <1>0 DEF SameBut, Tree
<1>3. /\ View' = t
      /\ mounted = "no" => host' = t /\ disk' = disk
      /\ mounted # "no" => disk' = t /\ host' = host
  BY <1>0, <1>1, ViewChange
<1>4. ASSUME NEW tree \in {host, disk}, NEW j \in tree.images \cup tree.volumes
      PROVE  made'[j] = made[j]
  <2>1. made[j] \in Mapping
    BY <1>0, <1>4 DEF TreeOK
  <2> QED
    BY <1>1, <2>1, StoreAssumption DEF Types, TypeOK
<1>5. TreeOK(host)' /\ TreeOK(disk)'
  <2>1. made'[i] = View.ns
    BY <1>1 DEF Types, TypeOK
  <2>2. View \in {host, disk}
    BY DEF View
  <2>3. \A j \in t.images \cup t.volumes : made'[j] \in Mapping /\ t.ns = made'[j]
    BY <1>0, <1>1, <1>2, <1>4, <2>1, <2>2 DEF SameBut, TreeOK
  <2>4. t.ns \in Mapping
    BY <1>1, <1>2 DEF SameBut
  <2>5. \A tree \in {host, disk} : \A j \in tree.images \cup tree.volumes :
          made'[j] \in Mapping /\ tree.ns = made'[j]
    BY <1>0, <1>4 DEF TreeOK
  <2> HIDE DEF t
  <2>6. CASE mounted = "no"
    BY <1>0, <1>3, <2>3, <2>4, <2>5, <2>6 DEF TreeOK
  <2>7. CASE mounted # "no"
    BY <1>0, <1>3, <2>3, <2>4, <2>5, <2>7 DEF TreeOK
  <2> QED
    BY <2>6, <2>7
<1>6. HostBlank => HostBlank'
  <2>1. HostBlank => host.ns = None
    BY EmptyOK DEF HostBlank
  <2>2. HostBlank => mounted # "no"
    BY <1>1, <2>1, StoreAssumption DEF View
  <2> QED
    BY <1>3, <2>2 DEF HostBlank
<1>7. DiskInv' /\ PlaceInv'
  BY <1>0, <1>1, <1>3, <1>6 DEF DiskInv, PlaceInv
<1>8. ASSUME NEW q \in Inits PROVE Known(q)'
  <2>1. Known(q)
    BY DEF InitStoreInv
  <2>2. View'.ns = View.ns /\ View'.dirs = View.dirs /\ View'.owner = View.owner
    BY <1>2, <1>3 DEF SameBut
  <2>3. PlaceKnown(q)'
    BY <1>1, <1>6, <2>1 DEF Known, PlaceKnown
  <2>4. NamespaceKnown(q)' /\ ItemsKnown(q)' /\ Whole(q)'
    BY <1>1, <2>1, <2>2 DEF Known, NamespaceKnown, ItemsKnown, Whole, OwnedBy, BackingStoreFileExists
  <2> QED
    BY <2>3, <2>4 DEF Known
<1> QED
  BY <1>5, <1>7, <1>8 DEF StoreInv, TreeInv

\* Failing calls, kills, restarts and the operator change neither place.
LEMMA FaultInv ==
  ASSUME Types, InitStoreInv,
         \/ \E p \in Inits : CallFails(p) \/ Killed(p)
         \/ Reboot
         \/ AdminMount
  PROVE  StoreInv' /\ \A q \in Inits : Known(q)'
<1>0. /\ UNCHANGED <<hostIsXFS, dir, host, backing, disk, made, refused>>
      /\ spent'.refusals = spent.refusals
  BY DEF CallFails, Killed, Reboot, AdminMount, Types, TypeOK
<1>1. mounted' \in {mounted, "no"} \/ (mounted' = "plain" /\ backing = "xfs")
  BY DEF CallFails, Killed, Reboot, AdminMount, MountWith, Mountable
<1>2. StoreInv'
  BY <1>0, <1>1 DEF InitStoreInv, StoreInv, DiskInv, TreeInv, TreeOK, PlaceInv, HostBlank
<1>3. ASSUME NEW p \in Inits, CallFails(p) PROVE \A q \in Inits : Known(q)'
  <2>1. /\ UNCHANGED storeVars /\ pc'[p] = "unlock" /\ ~ok'[p]
        /\ \A q \in Inits : q # p => /\ pc'[q] = pc[q] /\ arg'[q] = arg[q] /\ item'[q] = item[q]
                                     /\ ok'[q] = ok[q] /\ refused'[q] = refused[q]
    BY <1>3 DEF CallFails, Types, TypeOK
  <2> QED
    BY <2>1, VacuousKnown, KnownFrame DEF InitStoreInv, Vacuous
<1>4. ASSUME NEW p \in Inits, Killed(p) PROVE \A q \in Inits : Known(q)'
  <2>1. /\ UNCHANGED storeVars /\ pc'[p] = "idle"
        /\ \A q \in Inits : q # p => /\ pc'[q] = pc[q] /\ arg'[q] = arg[q] /\ item'[q] = item[q]
                                     /\ ok'[q] = ok[q] /\ refused'[q] = refused[q]
    BY <1>4 DEF Killed, Types, TypeOK
  <2> QED
    BY <2>1, VacuousKnown, KnownFrame DEF InitStoreInv, Vacuous
<1>5. CASE Reboot
  <2>1. \A q \in Inits : pc'[q] = "idle"
    BY <1>5 DEF Reboot
  <2> QED
    BY <1>2, <2>1, VacuousKnown DEF Vacuous
<1>6. CASE AdminMount
  <2>1. /\ UNCHANGED <<pc, arg, item, ok, refused>> /\ mounted' = "plain"
        /\ \A q \in Inits : pc[q] \in {"idle", "lock", "mount", "validate", "mkstore", "file", "remount"}
    BY <1>6 DEF AdminMount, MountWith
  <2>2. ASSUME NEW q \in Inits PROVE Known(q)'
    <3>1. Known(q)
      BY DEF InitStoreInv
    <3> QED
      BY <1>0, <2>1, <3>1 DEF Known, PlaceKnown, NamespaceKnown, ItemsKnown, Whole, Making, Filling, HostBlank
  <2> QED
    BY <1>2, <2>2
<1> QED
  BY <1>2, <1>3, <1>4, <1>5, <1>6

\* The initial states.
LEMMA InitInv == Init => InitStoreInv
<1> SUFFICES ASSUME Init PROVE InitStoreInv
  OBVIOUS
<1>1. LockHeld
  BY DEF Init, LockHeld
<1>2. DiskInv /\ TreeInv /\ PlaceInv
  BY EmptyOK DEF Init, DiskInv, TreeInv, PlaceInv, HostBlank
<1>3. \A p \in Inits : Known(p)
  BY VacuousKnown DEF Init, Vacuous
<1> QED
  BY <1>1, <1>2, <1>3 DEF InitStoreInv, StoreInv

\* Without a delete-store, every step keeps the invariant.
LEMMA NextInv ==
  ASSUME Removers = {}, Types, InitStoreInv, Next
  PROVE  InitStoreInv'
<1>1. LockHeld'
  BY NextLock DEF InitStoreInv
<1>2. ASSUME NEW p \in Inits, InitStore(p)
      PROVE  StoreInv' /\ \A q \in Inits : Known(q)'
  <2>1. CASE StartInit(p) \/ LockInit(p) \/ UnlockInit(p)
    BY <2>1, OutsideInv
  <2>2. CASE ~(StartInit(p) \/ LockInit(p) \/ UnlockInit(p))
    <3>1. StoreInv' /\ Known(p)'
      BY <1>2, <2>2, PlaceSteps, NamespaceSteps, ItemSteps DEF InitStore
    <3>2. pc[p] \notin {"idle", "lock"}
      BY <1>2, <2>2 DEF InitStore, MountExisting, MountRefused, Validate, MkdirStore,
         CreateBackingFile, Remount, Format, FormatFails, MountNew, MkdirMeta,
         ApplyMappings, CreateNamespaceFile, EncodeNamespace, ChownStore, MakeItem,
         ChownItem, ConfigureDirectIO
    <3>3. pc' = pc \/ \E to : pc' = [pc EXCEPT ![p] = to]
      BY <1>2, <2>2 DEF InitStore, MountExisting, MountRefused, Validate, MkdirStore,
         CreateBackingFile, Remount, Format, FormatFails, MountNew, MkdirMeta,
         ApplyMappings, CreateNamespaceFile, EncodeNamespace, ChownStore, MakeItem,
         ChownItem, Chown, ConfigureDirectIO
    <3>4. \A q \in Inits : q # p => pc'[q] = pc[q]
      BY <3>3 DEF Types, TypeOK
    <3>5. \A q \in Inits : Known(q)'
      BY <3>1, <3>2, <3>4, HolderOnly DEF InitStoreInv
    <3> QED
      BY <3>1, <3>5
  <2> QED
    BY <2>1, <2>2
<1>3. StoreInv' /\ \A q \in Inits : Known(q)'
  BY <1>2, CreateInv, FaultInv DEF Next
<1> QED
  BY <1>1, <1>3 DEF InitStoreInv

\* So it is an invariant, with the types.
LEMMA AlwaysInv ==
  ASSUME Removers = {}
  PROVE  Spec => [](Types /\ InitStoreInv)
<1>1. InitStoreInv /\ Types /\ [Next]_vars => InitStoreInv'
  <2>1. ASSUME Types, InitStoreInv, UNCHANGED vars PROVE InitStoreInv'
    <3>1. \A q \in Inits : Known(q)'
      BY <2>1, KnownFrame DEF vars, InitStoreInv
    <3> QED
      BY <2>1, <3>1 DEF vars, InitStoreInv, LockHeld, StoreInv, DiskInv, TreeInv, TreeOK, PlaceInv, HostBlank
  <2> QED
    BY <2>1, NextInv
<1> QED
  BY <1>1, InitInv, AlwaysTypes, PTL DEF Spec

\* An init-store that returns without error has left a whole store, with its
\* mappings, owners and direct-io, for any folders, mappings and faults and
\* any number of other init-store commands.
THEOREM InitWhole ==
  ASSUME Removers = {}
  PROVE  Spec => []SuccessMeansWhole
<1>1. InitStoreInv => SuccessMeansWhole
  BY DEF InitStoreInv, Known, Whole, SuccessMeansWhole
<1> QED
  BY <1>1, AlwaysInv, PTL

\* The images of a filesystem, and its volumes, stay under the mappings they
\* were made under, and what passes IsStoreInitialized can be read.
THEOREM MappingsKept ==
  ASSUME Removers = {}
  PROVE  Spec => []ImagesKeepMappings
<1>1. ASSUME InitStoreInv PROVE ImagesKeepMappings
  <2>1. TreeOK(host) /\ TreeOK(disk) /\ TreeOK(View)
    BY <1>1 DEF InitStoreInv, StoreInv, TreeInv, View
  <2>2. ~(Folders \subseteq {"meta"})
    BY StoreAssumption
  <2>3. IsStoreInitialized => MappingsReadable
    BY <2>1, <2>2 DEF IsStoreInitialized, MappingsReadable, TreeOK
  <2>4. \A tree \in {host, disk} : \A i \in tree.images \cup tree.volumes : tree.ns = made[i]
    BY <2>1 DEF TreeOK
  <2> QED
    BY <2>3, <2>4 DEF ImagesKeepMappings
<1> QED
  BY <1>1, AlwaysInv, PTL

\* Images below the mount point are never hidden by a mount, unless mount(8)
\* has failed before.
THEOREM NeverHidden ==
  ASSUME Removers = {}
  PROVE  Spec => []NoImageHidden
<1>1. InitStoreInv => NoImageHidden
  BY EmptyOK DEF InitStoreInv, StoreInv, DiskInv, PlaceInv, HostBlank, NoImageHidden
<1> QED
  BY <1>1, AlwaysInv, PTL

\* list tells of every image there is, or that there is no store.
THEOREM ListsAll ==
  ASSUME Removers = {}
  PROVE  Spec => []ListTrue
<1>1. ASSUME InitStoreInv, Listable, spent.refusals = 0 PROVE View.images = host.images \cup disk.images
  <2>1. CASE mounted # "no"
    <3>1. View = disk /\ host = EmptyTree
      BY <1>1, <2>1 DEF InitStoreInv, StoreInv, DiskInv, PlaceInv, HostBlank, View
    <3> QED
      BY <3>1, EmptyOK
  <2>2. CASE mounted = "no"
    <3>1. View = host /\ "images" \in host.dirs
      BY <1>1, <2>2 DEF Listable, View
    <3>2. host # EmptyTree
      BY <3>1, EmptyOK
    <3>3. disk = EmptyTree
      BY <1>1, <3>2 DEF InitStoreInv, StoreInv, DiskInv, PlaceInv, HostBlank
    <3> QED
      BY <3>1, <3>3, EmptyOK
  <2> QED
    BY <2>1, <2>2
<1>2. InitStoreInv => ListTrue
  BY <1>1 DEF ListTrue, ListImageIDs
<1> QED
  BY <1>2, AlwaysInv, PTL

\* Only mkfs.xfs changes which images and volumes there are.
SameImages ==
  /\ host'.images = host.images /\ host'.volumes = host.volumes
  /\ disk'.images = disk.images /\ disk'.volumes = disk.volumes

LEMMA InitKeeps ==
  ASSUME Types, NEW p \in Inits, InitStore(p)
  PROVE  Format(p) \/ FormatFails(p) \/ SameImages
<1>0. View \in Tree
  BY ViewTypes DEF Types
<1>1. ASSUME NEW t, SetView(t), t.images = View.images, t.volumes = View.volumes PROVE SameImages
  BY <1>1 DEF SetView, View, SameImages
<1>2. ASSUME UNCHANGED <<host, disk>> PROVE SameImages
  BY <1>2 DEF SameImages
<1>3. /\ \A D : LET t == [View EXCEPT !.dirs = D] IN t.images = View.images /\ t.volumes = View.volumes
      /\ \A m : LET t == [View EXCEPT !.ns = m] IN t.images = View.images /\ t.volumes = View.volumes
      /\ \A O : LET t == [View EXCEPT !.owner = O] IN t.images = View.images /\ t.volumes = View.volumes
  BY <1>0 DEF Tree
<1>4. CASE MkdirMeta(p) \/ MakeItem(p)
  BY <1>1, <1>2, <1>3, <1>4 DEF MkdirMeta, MakeItem
<1>5. CASE CreateNamespaceFile(p) \/ EncodeNamespace(p)
  BY <1>1, <1>2, <1>3, <1>5 DEF CreateNamespaceFile, EncodeNamespace
<1>6. CASE ChownStore(p) \/ ChownItem(p)
  <2>1. (\E O : SetView([View EXCEPT !.owner = O])) \/ UNCHANGED <<host, disk>>
    BY <1>6, Zenon DEF ChownStore, ChownItem, Chown
  <2> QED
    BY <1>1, <1>2, <1>3, <2>1
<1>7. CASE ~(\/ Format(p) \/ FormatFails(p) \/ MkdirMeta(p) \/ MakeItem(p)
             \/ CreateNamespaceFile(p) \/ EncodeNamespace(p) \/ ChownStore(p) \/ ChownItem(p))
  BY <1>2, <1>7 DEF InitStore, StartInit, LockInit, MountExisting, MountRefused, Validate,
     MkdirStore, CreateBackingFile, Remount, MountNew, ApplyMappings, ConfigureDirectIO, UnlockInit
<1> QED
  BY <1>4, <1>5, <1>6, <1>7

\* What a create adds.
LEMMA CreateAdds ==
  ASSUME Types, NEW i \in Image, CreateImage(i)
  PROVE  /\ mounted = "no" => /\ host'.images = host.images \cup {i} /\ host'.volumes = host.volumes \cup {i}
                              /\ disk' = disk
         /\ mounted # "no" => /\ disk'.images = disk.images \cup {i} /\ disk'.volumes = disk.volumes \cup {i}
                              /\ host' = host
<1>1. View \in Tree
  BY ViewTypes DEF Types
<1> DEFINE t == [View EXCEPT !.images = @ \cup {i}, !.volumes = @ \cup {i}]
<1>2. t.images = View.images \cup {i} /\ t.volumes = View.volumes \cup {i} /\ SetView(t)
  BY <1>1 DEF Tree, CreateImage
<1> QED
  BY <1>2 DEF SetView, View

\* No step of init-store loses an image, but for mkfs.xfs -f of a filesystem
\* that the same command has tried to mount, and could not.
THEOREM NeverLost ==
  ASSUME Removers = {}
  PROVE  Spec => LossOnlyIfRefused
<1> DEFINE Lost(i) == i \in (disk.images \cup host.images) \ (disk'.images \cup host'.images)
           Refused == \E p \in Inits : pc[p] = "mkfs" /\ refused[p]
<1>1. ASSUME Types, InitStoreInv, Next, NEW i \in Image, Lost(i) PROVE Refused
  <2>1. ASSUME NEW p \in Inits, Format(p) \/ FormatFails(p) PROVE Refused
    <3>1. pc[p] = "mkfs" /\ host' = host /\ PlaceKnown(p)
      BY <1>1, <2>1 DEF Format, FormatFails, InitStoreInv, Known
    <3>2. disk # EmptyTree
      BY <1>1, <3>1, EmptyOK
    <3>3. backing = "xfs" /\ mounted = "no"
      BY <1>1, <3>1, <3>2 DEF InitStoreInv, StoreInv, DiskInv, PlaceKnown
    <3> QED
      BY <3>1, <3>3 DEF PlaceKnown
  <2>2. ~SameImages /\ ~UNCHANGED <<host, disk>>
    BY <1>1 DEF SameImages
  <2>3. ASSUME NEW j \in Image, CreateImage(j) PROVE FALSE
    BY <1>1, <2>3, CreateAdds
  <2> QED
    BY <1>1, <2>1, <2>2, <2>3, InitKeeps DEF Next, CallFails, Killed, Reboot, AdminMount
<1>2. ASSUME Types, InitStoreInv, [Next]_vars
      PROVE  [\A i \in Image : Lost(i) => Refused]_vars
  BY <1>1, <1>2
<1> QED
  BY <1>2, AlwaysInv, PTL DEF LossOnlyIfRefused, Spec
------------------------------------------------------------------------------
(* delete-store, when one runs at a time, beside any number of init-store and *)
(* create commands *)

\* A step that adds no image, mounts at most, and is not of delete-store.
LEMMA ShrinkKeeps ==
  ASSUME Types, DeleteStoreInv, UNCHANGED <<made, promised, listed>>,
         host'.images \subseteq host.images, host'.volumes \subseteq host.volumes,
         disk'.images \subseteq disk.images, disk'.volumes \subseteq disk.volumes,
         mounted # "no" => mounted' # "no",
         \A p \in Removers : pc'[p] = pc[p] /\ ok'[p] = ok[p]
  PROVE  DeleteStoreInv'
<1>1. OnePlace'
  BY DEF DeleteStoreInv, OnePlace
<1>2. PromiseInv'
  BY DEF DeleteStoreInv, PromiseInv
<1>3. DeletedMeansGone'
  BY DEF DeleteStoreInv, DeletedMeansGone
<1> QED
  BY <1>1, <1>2, <1>3 DEF DeleteStoreInv

\* init-store disturbs no delete-store: it adds no image and unmounts nothing.
LEMMA InitBeside ==
  ASSUME Types, DeleteStoreInv, NEW p \in Inits, InitStore(p)
  PROVE  DeleteStoreInv'
<1>1. /\ UNCHANGED <<made, promised, listed>>
      /\ mounted # "no" => mounted' # "no"
  BY DEF InitStore, StartInit, LockInit, MountExisting, MountRefused, Validate, MkdirStore,
     CreateBackingFile, Remount, Format, FormatFails, MountNew, MkdirMeta, ApplyMappings,
     CreateNamespaceFile, EncodeNamespace, ChownStore, MakeItem, ChownItem, ConfigureDirectIO,
     UnlockInit, MountWith
<1>2. /\ pc' = pc \/ \E to : pc' = [pc EXCEPT ![p] = to]
      /\ ok' = ok \/ \E b : ok' = [ok EXCEPT ![p] = b]
  BY Zenon DEF InitStore, StartInit, LockInit, MountExisting, MountRefused, Validate, MkdirStore,
     CreateBackingFile, Remount, Format, FormatFails, MountNew, MkdirMeta, ApplyMappings,
     CreateNamespaceFile, EncodeNamespace, ChownStore, MakeItem, ChownItem, Chown,
     ConfigureDirectIO, UnlockInit
<1>3. \A q \in Removers : q # p /\ q \in Command
  BY StoreAssumption
<1>4. \A q \in Removers : pc'[q] = pc[q] /\ ok'[q] = ok[q]
  BY <1>2, <1>3 DEF Types, TypeOK
<1>5. Format(p) \/ FormatFails(p) => host' = host /\ (disk' = disk \/ disk' = EmptyTree)
  BY DEF Format, FormatFails
<1>6. /\ host'.images \subseteq host.images /\ host'.volumes \subseteq host.volumes
      /\ disk'.images \subseteq disk.images /\ disk'.volumes \subseteq disk.volumes
  BY <1>5, InitKeeps, EmptyOK DEF SameImages
<1> QED
  BY <1>1, <1>4, <1>6, ShrinkKeeps

\* A create makes an image that no delete-store has promised.
LEMMA CreateBeside ==
  ASSUME Types, DeleteStoreInv, NEW i \in Image, CreateImage(i)
  PROVE  DeleteStoreInv'
<1>1. /\ UNCHANGED <<mounted, pc, ok, promised, listed>> /\ made[i] = None
      /\ made' = [made EXCEPT ![i] = View.ns] /\ View.ns \in Mapping
  BY DEF CreateImage, MappingsReadable
<1>2. \A j \in Image : made[j] # None => made'[j] # None /\ j # i
  BY <1>1 DEF Types, TypeOK
<1>3. made'[i] # None
  BY <1>1, StoreAssumption DEF Types, TypeOK
<1>4. /\ host.images \subseteq Image /\ host.volumes \subseteq Image
      /\ disk.images \subseteq Image /\ disk.volumes \subseteq Image
  BY DEF Types, TypeOK, Tree
<1>5. \A p \in Removers : <<"images", i>> \notin promised[p] /\ <<"volumes", i>> \notin promised[p]
  BY <1>1 DEF DeleteStoreInv, PromiseInv
<1>6. i \notin host.images \cup host.volumes \cup disk.images \cup disk.volumes
  BY <1>1 DEF DeleteStoreInv, OnePlace
<1>7. OnePlace'
  BY <1>1, <1>2, <1>3, <1>4, <1>6, CreateAdds DEF DeleteStoreInv, OnePlace
<1>8. \A j \in Image : j # i => /\ j \in disk'.images => j \in disk.images
                                /\ j \in disk'.volumes => j \in disk.volumes
                                /\ j \in host'.images => j \in host.images
                                /\ j \in host'.volumes => j \in host.volumes
  BY CreateAdds
<1>9. PromiseInv'
  BY <1>1, <1>2, <1>5, <1>8 DEF DeleteStoreInv, PromiseInv
<1>10. DeletedMeansGone'
  BY <1>1, <1>5, <1>8 DEF DeleteStoreInv, DeletedMeansGone
<1> QED
  BY <1>7, <1>9, <1>10 DEF DeleteStoreInv

\* Faults, and the operator.
LEMMA FaultBeside ==
  ASSUME Types, DeleteStoreInv,
         \/ \E p \in Command : CallFails(p) \/ Killed(p)
         \/ Reboot
         \/ AdminMount
  PROVE  DeleteStoreInv'
<1>1. UNCHANGED <<host, disk, made, promised, listed>>
  BY DEF CallFails, Killed, Reboot, AdminMount
<1>2. \A p \in Removers : \/ pc'[p] = pc[p] /\ ok'[p] = ok[p] /\ (mounted # "no" => mounted' # "no")
                          \/ pc'[p] = "idle"
                          \/ pc'[p] = "end" /\ ~ok'[p]
  <2>1. ASSUME NEW p \in Removers, NEW q \in Command, CallFails(q) \/ Killed(q)
        PROVE  \/ pc'[p] = pc[p] /\ ok'[p] = ok[p] /\ mounted' = mounted
               \/ pc'[p] = "idle"
               \/ pc'[p] = "end" /\ ~ok'[p]
    BY <2>1, StoreAssumption DEF CallFails, Killed, Types, TypeOK
  <2>2. CASE Reboot
    BY <2>2 DEF Reboot
  <2>3. CASE AdminMount
    BY <2>3 DEF AdminMount, MountWith
  <2> QED
    BY <2>1, <2>2, <2>3
<1>3. OnePlace'
  BY <1>1 DEF DeleteStoreInv, OnePlace
<1>4. PromiseInv'
  BY <1>1, <1>2 DEF DeleteStoreInv, PromiseInv
<1>5. DeletedMeansGone'
  BY <1>1, <1>2 DEF DeleteStoreInv, DeletedMeansGone
<1> QED
  BY <1>3, <1>4, <1>5 DEF DeleteStoreInv

\* A tree without one image or volume, and what RemoveEntry leaves of one.
LEMMA Shrinks ==
  ASSUME NEW t \in Tree, NEW f \in Names
  PROVE  /\ \A i \in Image :
              /\ LET u == [t EXCEPT !.images = @ \ {i}]
                 IN u.images = t.images \ {i} /\ u.volumes = t.volumes
              /\ LET u == [t EXCEPT !.volumes = @ \ {i}]
                 IN u.images = t.images /\ u.volumes = t.volumes \ {i}
         /\ LET u == [t EXCEPT !.ns = None] IN u.images = t.images /\ u.volumes = t.volumes
         /\ LET u == [t EXCEPT !.dirs = @ \ {f}, !.owner[f] = 0,
                               !.images = IF f = "images" THEN {} ELSE @,
                               !.volumes = IF f = "volumes" THEN {} ELSE @]
            IN u.images \subseteq t.images /\ u.volumes \subseteq t.volumes
BY DEF Tree

\* The steps of delete-store, when no other one runs.
LEMMA DeleteSteps ==
  ASSUME Types, DeleteStoreInv, \A p, q \in Removers : p = q,
         NEW p \in Removers, DeleteStore(p)
  PROVE  DeleteStoreInv'
<1>0. /\ Removers = {p} /\ p \in Command /\ p \notin Inits /\ View \in Tree
      /\ host \in Tree /\ disk \in Tree
      /\ pc \in [Command -> InitPC \cup RemovePC \cup {"idle"}]
      /\ listed \in [Removers -> SUBSET Image]
      /\ promised \in [Removers -> SUBSET ({"images", "volumes"} \X Image)]
  <2>1. View \in Tree
    BY ViewTypes DEF Types
  <2> QED
    BY <2>1, StoreAssumption DEF Types, TypeOK
<1>1. \A to : pc' = [pc EXCEPT ![p] = to] => pc'[p] = to
  BY <1>0
<1>2. \A b : ok' = [ok EXCEPT ![p] = b] => ok'[p] = b
  BY <1>0 DEF Types, TypeOK
<1>3. UNCHANGED made
  BY DEF DeleteStore, StartDelete, ListImages, ListVolumes, List, DestroyImage, DestroyVolume,
     DeInitFilesystem, RemoveEntry, RemoveStorePath, EndDelete
<1>4. ASSUME host'.images \subseteq host.images, host'.volumes \subseteq host.volumes,
             disk'.images \subseteq disk.images, disk'.volumes \subseteq disk.volumes
      PROVE  OnePlace'
  BY <1>3, <1>4 DEF DeleteStoreInv, OnePlace
<1>5. ASSUME UNCHANGED <<host, disk>> PROVE OnePlace'
  BY <1>4, <1>5
<1>6. CASE StartDelete(p)
  <2>1. /\ UNCHANGED <<host, disk>> /\ promised'[p] = {} /\ pc'[p] \in {"images", "end"}
    BY <1>0, <1>1, <1>6 DEF StartDelete
  <2>2. PromiseInv'
    BY <1>0, <2>1 DEF PromiseInv
  <2>3. DeletedMeansGone'
    BY <1>0, <2>1 DEF DeletedMeansGone
  <2> QED
    BY <1>5, <2>1, <2>2, <2>3 DEF DeleteStoreInv
<1>7. CASE ListImages(p)
  <2>1. CASE "images" \in View.dirs
    <3>1. /\ UNCHANGED <<host, disk, mounted>> /\ pc[p] = "images" /\ pc'[p] = "delimages"
          /\ listed'[p] = View.images /\ promised'[p] = promised[p] \cup ({"images"} \X View.images)
      BY <1>0, <1>1, <1>7, <2>1 DEF ListImages, List
    <3>2. \A i \in Image : /\ <<"images", i>> \in promised'[p] => i \in View.images
                           /\ <<"volumes", i>> \notin promised'[p]
      BY <1>0, <3>1 DEF DeleteStoreInv, PromiseInv
    <3>3. \A i \in View.images : /\ made[i] # None
                                 /\ i \in disk.images => mounted # "no"
      BY <1>0 DEF DeleteStoreInv, OnePlace, View
    <3>4. PromiseInv'
      BY <1>0, <1>3, <3>1, <3>2, <3>3 DEF PromiseInv
    <3>5. DeletedMeansGone'
      BY <1>0, <3>1 DEF DeletedMeansGone
    <3> QED
      BY <1>5, <3>1, <3>4, <3>5 DEF DeleteStoreInv
  <2>2. CASE "images" \notin View.dirs
    <3>1. UNCHANGED <<host, disk, promised>> /\ pc'[p] = "end" /\ ~ok'[p]
      BY <1>0, <1>1, <1>2, <1>7, <2>2 DEF ListImages, List, Abort, Goto
    <3>2. PromiseInv' /\ DeletedMeansGone'
      BY <1>0, <1>3, <3>1 DEF DeleteStoreInv, PromiseInv, DeletedMeansGone
    <3> QED
      BY <1>5, <3>1, <3>2 DEF DeleteStoreInv
  <2> QED
    BY <2>1, <2>2
<1>8. CASE ListVolumes(p)
  <2>1. CASE "volumes" \in View.dirs
    <3>1. /\ UNCHANGED <<host, disk, mounted>> /\ pc[p] = "volumes" /\ pc'[p] = "delvolumes"
          /\ listed'[p] = View.volumes /\ promised'[p] = promised[p] \cup ({"volumes"} \X View.volumes)
      BY <1>0, <1>1, <1>8, <2>1 DEF ListVolumes, List
    <3>2. \A i \in Image : /\ <<"volumes", i>> \in promised'[p] => i \in View.volumes
                           /\ <<"images", i>> \in promised'[p] => <<"images", i>> \in promised[p]
      BY <1>0, <3>1 DEF DeleteStoreInv, PromiseInv
    <3>3. \A i \in View.volumes : /\ made[i] # None
                                  /\ i \in disk.volumes => mounted # "no"
      BY <1>0 DEF DeleteStoreInv, OnePlace, View
    <3>4. \A i \in Image : <<"images", i>> \in promised[p] => made[i] # None /\ i \notin disk.images
      BY <3>1 DEF DeleteStoreInv, PromiseInv
    <3>5. PromiseInv'
      BY <1>0, <1>3, <3>1, <3>2, <3>3, <3>4 DEF PromiseInv
    <3>6. DeletedMeansGone'
      BY <1>0, <3>1 DEF DeletedMeansGone
    <3> QED
      BY <1>5, <3>1, <3>5, <3>6 DEF DeleteStoreInv
  <2>2. CASE "volumes" \notin View.dirs
    <3>1. UNCHANGED <<host, disk, promised>> /\ pc'[p] = "end" /\ ~ok'[p]
      BY <1>0, <1>1, <1>2, <1>8, <2>2 DEF ListVolumes, List, Abort, Goto
    <3>2. PromiseInv' /\ DeletedMeansGone'
      BY <1>0, <1>3, <3>1 DEF DeleteStoreInv, PromiseInv, DeletedMeansGone
    <3> QED
      BY <1>5, <3>1, <3>2 DEF DeleteStoreInv
  <2> QED
    BY <2>1, <2>2
<1>9. CASE DestroyImage(p)
  <2>1. ASSUME NEW i \in listed[p], listed' = [listed EXCEPT ![p] = @ \ {i}],
               SetView([View EXCEPT !.images = @ \ {i}]), UNCHANGED pc
        PROVE  DeleteStoreInv'
    <3>1. /\ pc[p] = "delimages" /\ pc'[p] = "delimages" /\ UNCHANGED <<promised, mounted>>
          /\ listed'[p] = listed[p] \ {i}
      BY <1>0, <1>9, <2>1 DEF DestroyImage
    <3>2. /\ host'.images \subseteq host.images /\ host'.volumes \subseteq host.volumes
          /\ disk'.images \subseteq disk.images /\ disk'.volumes \subseteq disk.volumes
          /\ mounted # "no" => i \notin disk'.images
      <4>1. i \in Image /\ "." \in Names
        BY <1>0 DEF Names
      <4> DEFINE u == [View EXCEPT !.images = @ \ {i}]
      <4>2. u.images \subseteq View.images /\ u.volumes \subseteq View.volumes /\ i \notin u.images
        BY <1>0, <4>1, Shrinks
      <4>3. SetView(u)
        BY <2>1
      <4> QED
        BY <4>2, <4>3 DEF SetView, View
    <3>3. PromiseInv'
      BY <1>0, <1>3, <3>1, <3>2 DEF DeleteStoreInv, PromiseInv
    <3>4. DeletedMeansGone'
      BY <1>0, <3>1 DEF DeletedMeansGone
    <3> QED
      BY <1>4, <3>2, <3>3, <3>4 DEF DeleteStoreInv
  <2>2. ASSUME listed[p] = {}, Goto(p, "volumes"), UNCHANGED <<host, disk, listed>>
        PROVE  DeleteStoreInv'
    <3>1. pc[p] = "delimages" /\ pc'[p] = "volumes" /\ UNCHANGED promised
      BY <1>1, <1>9, <2>2 DEF DestroyImage, Goto
    <3>2. PromiseInv'
      BY <1>0, <1>3, <2>2, <3>1 DEF DeleteStoreInv, PromiseInv
    <3>3. DeletedMeansGone'
      BY <1>0, <3>1 DEF DeletedMeansGone
    <3> QED
      BY <1>5, <2>2, <3>2, <3>3 DEF DeleteStoreInv
  <2> QED
    BY <1>9, <2>1, <2>2 DEF DestroyImage
<1>10. CASE DestroyVolume(p)
  <2>1. ASSUME NEW i \in listed[p], listed' = [listed EXCEPT ![p] = @ \ {i}],
               SetView([View EXCEPT !.volumes = @ \ {i}]), UNCHANGED pc
        PROVE  DeleteStoreInv'
    <3>1. /\ pc[p] = "delvolumes" /\ pc'[p] = "delvolumes" /\ UNCHANGED <<promised, mounted>>
          /\ listed'[p] = listed[p] \ {i}
      BY <1>0, <1>10, <2>1 DEF DestroyVolume
    <3>2. /\ host'.images \subseteq host.images /\ host'.volumes \subseteq host.volumes
          /\ disk'.images \subseteq disk.images /\ disk'.volumes \subseteq disk.volumes
          /\ mounted # "no" => i \notin disk'.volumes
      <4>1. i \in Image /\ "." \in Names
        BY <1>0 DEF Names
      <4> DEFINE u == [View EXCEPT !.volumes = @ \ {i}]
      <4>2. u.images \subseteq View.images /\ u.volumes \subseteq View.volumes /\ i \notin u.volumes
        BY <1>0, <4>1, Shrinks
      <4>3. SetView(u)
        BY <2>1
      <4> QED
        BY <4>2, <4>3 DEF SetView, View
    <3>3. PromiseInv'
      BY <1>0, <1>3, <3>1, <3>2 DEF DeleteStoreInv, PromiseInv
    <3>4. DeletedMeansGone'
      BY <1>0, <3>1 DEF DeletedMeansGone
    <3> QED
      BY <1>4, <3>2, <3>3, <3>4 DEF DeleteStoreInv
  <2>2. ASSUME listed[p] = {}, Goto(p, "unmount"), UNCHANGED <<host, disk, listed>>
        PROVE  DeleteStoreInv'
    <3>1. pc[p] = "delvolumes" /\ pc'[p] = "unmount" /\ UNCHANGED promised
      BY <1>1, <1>10, <2>2 DEF DestroyVolume, Goto
    <3>2. PromiseInv'
      BY <1>0, <1>3, <2>2, <3>1 DEF DeleteStoreInv, PromiseInv
    <3>3. DeletedMeansGone'
      BY <1>0, <3>1 DEF DeletedMeansGone
    <3> QED
      BY <1>5, <2>2, <3>2, <3>3 DEF DeleteStoreInv
  <2> QED
    BY <1>10, <2>1, <2>2 DEF DestroyVolume
<1>11. CASE DeInitFilesystem(p)
  <2>1. /\ UNCHANGED <<host, disk, promised, listed>> /\ pc[p] = "unmount"
        /\ pc'[p] = "removeall" \/ (pc'[p] = "end" /\ ~ok'[p])
    BY <1>0, <1>1, <1>2, <1>11 DEF DeInitFilesystem, Abort, Goto
  <2>2. PromiseInv'
    BY <1>0, <1>3, <2>1 DEF DeleteStoreInv, PromiseInv
  <2>3. DeletedMeansGone'
    BY <1>0, <2>1 DEF DeletedMeansGone
  <2> QED
    BY <1>5, <2>1, <2>2, <2>3 DEF DeleteStoreInv
<1>12. CASE RemoveEntry(p)
  <2>1. Removable \subseteq Names
    BY <1>0 DEF Removable, Names, Tree
  <2>2. /\ host'.images \subseteq host.images /\ host'.volumes \subseteq host.volumes
        /\ disk'.images \subseteq disk.images /\ disk'.volumes \subseteq disk.volumes
    <3>1. ASSUME NEW t, SetView(t), t.images \subseteq View.images, t.volumes \subseteq View.volumes
          PROVE  /\ host'.images \subseteq host.images /\ host'.volumes \subseteq host.volumes
                 /\ disk'.images \subseteq disk.images /\ disk'.volumes \subseteq disk.volumes
      BY <3>1 DEF SetView, View
    <3>2. ASSUME NEW f \in Names
          PROVE  /\ LET u == [View EXCEPT !.ns = None] IN u.images = View.images /\ u.volumes = View.volumes
                 /\ LET u == [View EXCEPT !.dirs = @ \ {f}, !.owner[f] = 0,
                                          !.images = IF f = "images" THEN {} ELSE @,
                                          !.volumes = IF f = "volumes" THEN {} ELSE @]
                    IN u.images \subseteq View.images /\ u.volumes \subseteq View.volumes
      BY <1>0, Shrinks
    <3>3. "." \in Names
      BY DEF Names
    <3> QED
      BY <1>12, <2>1, <3>1, <3>2, <3>3 DEF RemoveEntry
  <2>3. UNCHANGED <<promised, listed, mounted, pc, ok>>
    BY <1>12 DEF RemoveEntry
  <2> QED
    BY <1>3, <2>2, <2>3, ShrinkKeeps
<1>13. CASE RemoveStorePath(p)
  <2>1. /\ UNCHANGED <<disk, promised, listed>> /\ pc[p] = "removeall"
        /\ (pc'[p] = "end" /\ host' = EmptyTree) \/ (pc'[p] = "end" /\ ~ok'[p] /\ host' = host)
    BY <1>0, <1>1, <1>2, <1>13 DEF RemoveStorePath, Abort, Goto
  <2>2. PromiseInv'
    BY <1>0, <1>3, <2>1 DEF DeleteStoreInv, PromiseInv
  <2>3. DeletedMeansGone'
    BY <1>0, <2>1, EmptyOK DEF DeleteStoreInv, PromiseInv, DeletedMeansGone
  <2> QED
    BY <1>4, <2>1, <2>2, <2>3, EmptyOK DEF DeleteStoreInv
<1>14. CASE EndDelete(p)
  <2>1. UNCHANGED <<host, disk, promised, listed>> /\ pc'[p] = "idle"
    BY <1>1, <1>14 DEF EndDelete, Step, Goto
  <2>2. PromiseInv'
    BY <1>0, <1>3, <2>1 DEF DeleteStoreInv, PromiseInv
  <2>3. DeletedMeansGone'
    BY <1>0, <2>1 DEF DeletedMeansGone
  <2> QED
    BY <1>5, <2>1, <2>2, <2>3 DEF DeleteStoreInv
<1> QED
  BY <1>6, <1>7, <1>8, <1>9, <1>10, <1>11, <1>12, <1>13, <1>14 DEF DeleteStore

\* Nothing is promised at the start.
LEMMA InitDelete == Init => DeleteStoreInv
<1> SUFFICES ASSUME Init PROVE DeleteStoreInv
  OBVIOUS
<1>1. OnePlace
  BY EmptyOK DEF Init, OnePlace
<1>2. PromiseInv
  BY EmptyOK DEF Init, PromiseInv, Command
<1>3. DeletedMeansGone
  BY DEF Init, DeletedMeansGone, Command
<1> QED
  BY <1>1, <1>2, <1>3 DEF DeleteStoreInv

\* A delete-store that returns without error has removed every image and
\* volume it listed, whatever any number of init-store and create commands do
\* meanwhile, and whatever fails or is killed; two delete-store commands at
\* once are excluded, since one may unmount what the other has listed.
THEOREM DeletedGone ==
  ASSUME \A p, q \in Removers : p = q
  PROVE  Spec => []DeletedMeansGone
<1>1. DeleteStoreInv /\ Types /\ [Next]_vars => DeleteStoreInv'
  <2>1. ASSUME Types, DeleteStoreInv, UNCHANGED vars PROVE DeleteStoreInv'
    BY <2>1, ShrinkKeeps DEF vars, procVars, storeVars
  <2> QED
    BY <2>1, DeleteSteps, InitBeside, CreateBeside, FaultBeside DEF Next
<1>2. DeleteStoreInv => DeletedMeansGone
  BY DEF DeleteStoreInv
<1> QED
  BY <1>1, <1>2, InitDelete, AlwaysTypes, PTL DEF Spec
==============================================================================
