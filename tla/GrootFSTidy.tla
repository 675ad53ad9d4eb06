----------------------------- MODULE GrootFSTidy -----------------------------
(***************************************************************************)
(* What the store promises, for all constants, as long as calls fail and   *)
(* processes die in the right places only.                                 *)
(*                                                                         *)
(* With any fault but one that hits a clean while it marks and destroys, a *)
(* pull that has returned leaves every layer of the image usable.          *)
(* SoundInv: a layer that is present is usable, unless a clean has it in   *)
(* hand. ParentInv: with a layer all those below it are there, and clean   *)
(* keeps it so, since it takes the layers of an image off its list         *)
(* together.                                                               *)
(*                                                                         *)
(* With no fault at all a store at rest holds whole volumes only, and a    *)
(* clean takes away all it found unused, or nothing; MoveVolume and        *)
(* CreateVolume change the parts of a volume one after the other and undo  *)
(* nothing, so that with a fault both can fail. TidyInv: of every volume   *)
(* all parts are there or none, except of those a command has in hand, and *)
(* for these it says how far the command is. GarbageInv: what was unused   *)
(* when clean looked is still in its list, in hand or gone, or all of it   *)
(* is left.                                                                *)
(***************************************************************************)
EXTENDS GrootFSImages

\* No call fails, no process is killed, and no clean is cut short.
Faultless == \A b \in Budgets : b.fails = 0 /\ b.crashes = 0 /\ b.timeouts = 0

\* The parts of a volume belong together: all there, or none.
Settled(n) ==
  /\ VolumeExists(n) <=> link[n] # None
  /\ VolumeExists(n) => sym[link[n]] = n
  /\ n = Final(n.chain) => (n \in meta <=> VolumeExists(n))

\* Where MoveVolume has moved the link file and not yet the directory.
MovePC == {"mvunlink", "mvsymlink", "mvdir"}

\* A create, or a clean, has changed some of the parts of n, and not the rest.
CreateHolds(p, n) ==
  \/ cpc[p] \in {"symlink", "linkfile"} \cup MovePC /\ n = TempVolume(p)
  \/ cpc[p] \in {"mvlink"} \cup MovePC /\ n = Final(Layer(p))

CleanHolds(g, n) ==
  \/ gpc[g] \in MarkPC /\ n \in {cur[g], GcName(cur[g])}
  \/ gpc[g] \in DestroyPC /\ n = cur[g]

Held(n) == (\E p \in Creators : CreateHolds(p, n)) \/ (\E g \in Cleaners : CleanHolds(g, n))

PartsInv == \A n \in Name : Held(n) \/ Settled(n)

\* A symlink is in the link file of its volume, or is about to be.
SymInv ==
  \A t \in Token : sym[t] # None =>
    \/ link[sym[t]] = t
    \/ \E p \in Creators : cpc[p] \in {"linkfile", "mvunlink"} /\ t = job[p].token
    \/ \E g \in Cleaners : gpc[g] = "mvunlink" /\ t = link[GcName(cur[g])]

\* What a create has done so far to the volume it is making.
CreateHand(p) ==
  /\ cpc[p] \notin {"dvsym", "dvlink", "dvmeta"}
  /\ cpc[p] \in {"symlink", "linkfile"} \cup MovePC => link[TempVolume(p)] = None
  /\ cpc[p] = "mvlink" => link[Final(Layer(p))] = None
  /\ cpc[p] \in {"mvlink"} \cup MovePC => Final(Layer(p)) \in meta

\* What a clean has done so far to the volume in hand.
CleanHand(g) ==
  LET n == cur[g]  m == GcName(cur[g]) IN
  /\ gpc[g] \in MovePC => VolumeExists(n) /\ ~VolumeExists(m)
  /\ gpc[g] = "mvmeta" => ~VolumeExists(n) /\ VolumeExists(m)
  /\ gpc[g] \in MarkPC =>
       /\ link[m] # None
       /\ sym[link[m]] = CASE gpc[g] = "mvunlink" -> n
                           [] gpc[g] = "mvsymlink" -> None
                           [] OTHER -> m
       /\ n = Final(n.chain) => n \in meta
  /\ gpc[g] = "dvlink" /\ link[n] # None => sym[link[n]] = None
  /\ gpc[g] \in {"dvmeta", "dvdir"} => link[n] = None

\* A clean destroys what it has marked, and leaves none of it.
Swept(g) ==
  /\ gpc[g] \in {"mark"} \cup MarkPC =>
       \A n \in Name : ~n.gc /\ VolumeExists(n) => ~VolumeExists(GcName(n))
  /\ gpc[g] \in {"destroy"} \cup DestroyPC =>
       \A n \in Name : n.gc /\ VolumeExists(n) =>
         n \in queue[g] \/ (gpc[g] \in DestroyPC /\ n = cur[g])
MarkedInv ==
  /\ \A n \in Name : n.gc /\ VolumeExists(n) => \E g \in Cleaners : gpc[g] \in SweepPC
  /\ \A g \in Cleaners : Swept(g)

TidyInv ==
  /\ PartsInv /\ SymInv /\ MarkedInv
  /\ \A p \in Creators : CreateHand(p)
  /\ \A g \in Cleaners : CleanHand(g)

\* What a clean that marks knows of the volume in hand: its gc. name is free,
\* and the short id of a layer still leads to it.
MarkHand(g) ==
  LET n == cur[g]  m == GcName(cur[g]) IN
  /\ gpc[g] \in MovePC => ~VolumeExists(m)
  /\ gpc[g] = "mvunlink" /\ n = Final(n.chain) => sym[link[m]] = n

\* With a layer of an image all those below it are in a set of layers.
Closed(S) ==
  \A s \in Image : \A i, j \in 1 .. Len(s) : i < j /\ s[j] \in S => s[i] \in S

Present == {c \in Chain : VolumeExists(Final(c))}

\* What remains of TidyInv when calls fail and processes die: a layer that is
\* present is usable, unless a clean has it in hand.
SoundInv ==
  /\ MarkedInv
  /\ \A g \in Cleaners : MarkHand(g)
  /\ \A c \in Present :
       Usable(Final(c)) \/ \E g \in Cleaners : gpc[g] \in MovePC /\ cur[g] = Final(c)
  /\ \A p \in Creators : cpc[p] \in {"mvlink"} \cup MovePC => Final(Layer(p)) \in meta

\* The layers a clean will leave, as far as it has read the dependencies.
Kept(g) ==
  {c \in Present : Final(c) \notin queue[g] /\ ~(gpc[g] \in MovePC /\ cur[g] = Final(c))}

\* A create that goes back up has all the layers below.
Below(p) ==
  /\ cpc[p] \in BuildPC \ {"reprobe"} =>
       \A k \in 1 .. job[p].index - 1 : job[p].image[k] \in Present
  /\ cpc[p] \in {"mkimage", "build"} => Layers(job[p].image) \subseteq Present

ParentInv ==
  /\ (\A g \in Cleaners : gpc[g] \notin {"mark"} \cup MarkPC) => Closed(Present)
  /\ \A g \in Cleaners : gpc[g] \in {"deps", "mark"} \cup MarkPC => Closed(Kept(g))
  /\ \A p \in Creators : Below(p)
  /\ \A i \in Id : depFile[i] = "whole" => \E s \in Image : deps[i] = Layers(s)

\* What was garbage when a clean looked is gone in the end, or all there.
Looked(g) ==
  /\ gpc[g] \in {"deps", "mark", "unlock"} \cup MarkPC => \A n \in garbage[g] : n.gc = FALSE
  /\ gpc[g] = "deps" =>
       /\ \A n \in garbage[g] : n \in queue[g] /\ Movable(n)
       /\ \A i \in ids[g] : depFile[i] = "whole" => \A c \in deps[i] : Final(c) \notin garbage[g]
  /\ gpc[g] \in {"mark", "unlock"} \cup MarkPC =>
       \/ gpc[g] \in {"mark", "unlock"} /\ queue[g] = {} /\ \A n \in garbage[g] : Movable(n)
       \/ \A n \in garbage[g] :
            n \in queue[g] \/ ~VolumeExists(n) \/ (gpc[g] \in MovePC /\ n = cur[g])
  /\ gpc[g] = "unlock" => queue[g] = {}

GarbageInv == \A g \in Cleaners : Looked(g)

------------------------------------------------------------------------------
(* Without faults *)

\* Nothing happens to a command.
LEMMA NoFaults ==
  ASSUME Faultless, Types
  PROVE  /\ ~CallFails /\ ~Killed /\ ~TimedOut
         /\ \A p \in Creators : ~CreateFault(p)
         /\ \A g \in Cleaners : ~CleanFault(g)
         /\ \A d \in Deleters : ~DeleteFault(d)
<1>1. ~CallFails /\ ~Killed /\ ~TimedOut
  BY DEF Faultless, Types, TypeOK, BudgetTypeOK, CallFails, Killed, TimedOut
<1>2. \A p \in Creators : ~CreateFault(p)
  BY <1>1 DEF CreateFault, FetchBaseImageInfoFails, UnpackFails, PullFails, CreateImageFails,
     SetOwnershipFails, RegisterFails, UndoFails, KillCreate
<1>3. \A g \in Cleaners : ~CleanFault(g)
  BY <1>1 DEF CleanFault, UnusedVolumesFails, MarkFails, GcVolumesFails, MarkNextFails,
     DestroyNextFails, DestroyMetaFails, DestroyFails, CleaningTimeout, KillClean
<1>4. \A d \in Deleters : ~DeleteFault(d)
  BY <1>1 DEF DeleteFault, DeleteFails, KillDelete
<1> QED
  BY <1>1, <1>2, <1>3, <1>4

\* Where a create has a volume halfway between two places.
HoldPC == {"symlink", "linkfile", "mvlink"} \cup MovePC

\* Who holds a volume without the gc. prefix while a create is at work.
LEMMA HeldBy ==
  ASSUME Types, LockInv, NEW p \in Creators, cpc[p] \in BuildPC
  PROVE  /\ \A q \in Creators \ {p}, n \in Name : CreateHolds(q, n) => n.chain # Layer(p) /\ n.gc = FALSE
         /\ \A g \in Cleaners : gpc[g] \notin {"mark"} \cup MarkPC
         /\ \A g \in Cleaners, n \in Name : CleanHolds(g, n) => n.gc = TRUE /\ gpc[g] \in DestroyPC
<1>1. Creating(p)
  BY DEF Creating, BuildPC
<1>2. \A g \in Cleaners : gpc[g] \notin {"mark"} \cup MarkPC
  BY <1>1, Exclusion DEF Marking, MarkPC
<1>3. \A g \in Cleaners, n \in Name : CleanHolds(g, n) => n.gc = TRUE /\ gpc[g] \in DestroyPC
  BY <1>2 DEF CleanHolds, Types, CleanNames
<1>4. ASSUME NEW q \in Creators \ {p}, NEW n \in Name, CreateHolds(q, n)
      PROVE  n.chain # Layer(p) /\ n.gc = FALSE
  <2>1. cpc[q] \in BuildPC /\ cpc[q] \in PullPC
    BY <1>4 DEF CreateHolds, BuildPC, PullPC, MovePC
  <2>2. Layer(q) # Layer(p)
    BY <2>1, Exclusion
  <2>3. /\ TempVolume(q).chain = Layer(q) /\ TempVolume(q).gc = FALSE
        /\ Final(Layer(q)).chain = Layer(q) /\ Final(Layer(q)).gc = FALSE
    BY <2>1, NameFacts DEF TempVolume
  <2>4. n = TempVolume(q) \/ n = Final(Layer(q))
    BY <1>4 DEF CreateHolds
  <2> QED
    BY <2>2, <2>3, <2>4
<1> QED
  BY <1>2, <1>3, <1>4

\* The settled parts of a volume that is not touched stay settled.
LEMMA UntouchedSettled ==
  ASSUME NEW n, Untouched(n), Settled(n)
  PROVE  Settled(n)'
BY DEF Untouched, Settled, VolumeExists

\* A create changes the volumes V of its layer and the short id t, and knows
\* afterwards where it has put them.
CreateChange(p, V, t) ==
  /\ V \subseteq Name
  /\ \A n \in V : n.chain = Layer(p) /\ n.gc = FALSE
  /\ \A n \in Name \ V : /\ vol'[n] = vol[n] /\ link'[n] = link[n]
                         /\ (n \in meta' <=> n \in meta)
                         /\ link[n] # t /\ ~CreateHolds(p, n)
  /\ \A n \in V : link[n] \in {None, t}
  /\ \A n \in V : Settled(n)' \/ CreateHolds(p, n)'
  /\ \A u \in Token : u # t => sym'[u] = sym[u]
  /\ t \in Token => \/ sym'[t] = None
                    \/ link'[sym'[t]] = t
                    \/ cpc'[p] \in {"linkfile", "mvunlink"} /\ t = job'[p].token
  /\ cpc[p] \in {"linkfile", "mvunlink"} => t = job[p].token
  /\ CreateHand(p)'

\* Such a change of a create keeps the parts of the volumes together.
LEMMA CreateTidy ==
  ASSUME NEW p \in Creators, Types, LockInv, VolumeInv, TidyInv, cpc[p] \in BuildPC,
         UNCHANGED cleanerVars,
         \A q \in Creators \ {p} : cpc'[q] = cpc[q] /\ job'[q] = job[q],
         NEW V, NEW t, CreateChange(p, V, t)
  PROVE  TidyInv'
<1> USE DEF CreateChange
<1>1. \A n \in Name \ V : Untouched(n)
  BY DEF Untouched, Types, TypeOK, VolTypeOK
<1>2. /\ UNCHANGED <<gpc, cur, queue>>
      /\ \A g \in Cleaners : gpc[g] \notin {"mark"} \cup MarkPC
  BY HeldBy DEF cleanerVars
<1>3. PartsInv'
  <2> SUFFICES ASSUME NEW n \in Name, ~Settled(n)'
               PROVE  Held(n)'
    BY DEF PartsInv
  <2>1. CASE n \in V
    BY <2>1 DEF Held
  <2>2. CASE n \notin V
    <3>1. ~Settled(n) /\ ~CreateHolds(p, n)
      BY <1>1, <2>2, UntouchedSettled
    <3>2. CASE \E q \in Creators : CreateHolds(q, n)
      <4>1. PICK q \in Creators : CreateHolds(q, n)
        BY <3>2
      <4>2. CreateHolds(q, n)'
        BY <3>1, <4>1 DEF CreateHolds, TempVolume, Layer
      <4> QED
        BY <4>2 DEF Held
    <3>3. CASE \E g \in Cleaners : CleanHolds(g, n)
      BY <1>2, <3>3 DEF CleanHolds, Held
    <3> QED
      BY <3>1, <3>2, <3>3 DEF TidyInv, PartsInv, Held
  <2> QED
    BY <2>1, <2>2
<1>4. SymInv'
  <2> SUFFICES ASSUME NEW u \in Token, sym'[u] # None
               PROVE  \/ link'[sym'[u]] = u
                      \/ \E q \in Creators : cpc'[q] \in {"linkfile", "mvunlink"} /\ u = job'[q].token
    BY DEF SymInv
  <2>1. CASE u = t
    BY <2>1
  <2>2. CASE u # t
    <3>1. sym'[u] = sym[u] /\ sym[u] \in Name
      BY <2>2 DEF Types, TypeOK, VolTypeOK
    <3>2. CASE link[sym[u]] = u
      <4>1. sym[u] \notin V
        BY <2>2, <3>2, NoneAssumption
      <4> QED
        BY <3>1, <3>2, <4>1
    <3>3. CASE \E q \in Creators : cpc[q] \in {"linkfile", "mvunlink"} /\ u = job[q].token
      BY <2>2, <3>3
    <3> QED
      BY <1>2, <3>1, <3>2, <3>3 DEF TidyInv, SymInv, MarkPC
  <2> QED
    BY <2>1, <2>2
<1>5. MarkedInv'
  BY <1>2 DEF TidyInv, MarkedInv, Swept, VolumeExists
<1>6. \A q \in Creators : CreateHand(q)'
  <2> SUFFICES ASSUME NEW q \in Creators, q # p
               PROVE  CreateHand(q)'
    OBVIOUS
  <2>1. CreateHand(q) /\ cpc'[q] = cpc[q] /\ Layer(q)' = Layer(q) /\ TempVolume(q)' = TempVolume(q)
    BY DEF TidyInv, Layer, TempVolume
  <2>2. CASE cpc[q] \in HoldPC
    <3>1. cpc[q] \in BuildPC /\ cpc[q] \in PullPC
      BY <2>2 DEF HoldPC, MovePC, BuildPC, PullPC
    <3>2. Layer(q) # Layer(p)
      BY <3>1, Exclusion
    <3>3. /\ TempVolume(q) \in Name /\ TempVolume(q).chain = Layer(q)
          /\ Final(Layer(q)) \in Name /\ Final(Layer(q)).chain = Layer(q)
      BY <3>1, NameFacts DEF TempVolume
    <3> QED
      BY <2>1, <3>2, <3>3 DEF CreateHand
  <2>3. CASE cpc[q] \notin HoldPC
    BY <2>1, <2>3 DEF CreateHand, HoldPC
  <2> QED
    BY <2>2, <2>3
<1>7. \A g \in Cleaners : CleanHand(g)'
  <2> SUFFICES ASSUME NEW g \in Cleaners, gpc[g] \in DestroyPC
               PROVE  CleanHand(g)'
    BY <1>2 DEF CleanHand, MovePC, MarkPC, DestroyPC
  <2>1. cur[g] \in Name \ V
    BY DEF Types, CleanNames
  <2>2. Untouched(cur[g]) /\ CleanHand(g)
    BY <1>1, <2>1 DEF TidyInv
  <2> QED
    BY <1>2, <2>2 DEF CleanHand, Untouched, DestroyPC, MarkPC, MovePC
<1> QED
  BY <1>3, <1>4, <1>5, <1>6, <1>7 DEF TidyInv

\* What a create that downloads knows of its temporary and its final volume.
LEMMA HandFacts ==
  ASSUME NEW p \in Creators, Types, LockInv, VolumeInv, LinkInv, TidyInv, cpc[p] \in BuildPC \ {"reprobe"}
  PROVE  /\ \A n \in Name : n.chain = Layer(p) /\ n.gc = FALSE /\ ~CreateHolds(p, n) => Settled(n)
         /\ cpc[p] \in TempPC => \A n \in Name : n \notin {TempVolume(p), Final(Layer(p))} => link[n] # job[p].token
         /\ \A n \in Name : CreateHolds(p, n) => n \in {TempVolume(p), Final(Layer(p))}
<1>1. \A n \in Name : n.chain = Layer(p) /\ n.gc = FALSE /\ ~CreateHolds(p, n) => Settled(n)
  BY HeldBy DEF TidyInv, PartsInv, Held
<1>2. ASSUME cpc[p] \in TempPC, NEW n \in Name, n \notin {TempVolume(p), Final(Layer(p))},
             link[n] = job[p].token
      PROVE  FALSE
  <2>1. /\ TempVolume(p) \in Name /\ Final(Layer(p)) \in Name /\ job[p].token # None
        /\ Linked(p) /\ ShortId(p) /\ LinksApart
    BY BuildFacts DEF VolumeInv, Download, LinkInv
  <2>2. CASE cpc[p] \in {"symlink", "linkfile"}
    BY <1>2, <2>1, <2>2 DEF ShortId
  <2>3. CASE Unpacking(p)
    BY <1>2, <2>1, <2>3 DEF Linked, LinksApart
  <2>4. CASE Moving(p)
    BY <1>2, <2>1, <2>4 DEF Linked, LinksApart
  <2> QED
    BY <1>2, <2>2, <2>3, <2>4 DEF TempPC, FillPC, FilledPC, Unpacking, Moving
<1>3. \A n \in Name : CreateHolds(p, n) => n \in {TempVolume(p), Final(Layer(p))}
  BY DEF CreateHolds
<1> QED
  BY <1>1, <1>2, <1>3

\* A create that neither had a volume halfway nor has one now, and changes none.
LEMMA QuietTidy ==
  ASSUME NEW p \in Creators, TidyInv, UNCHANGED <<volVars, cleanerVars>>,
         \A q \in Creators \ {p} : cpc'[q] = cpc[q] /\ job'[q] = job[q],
         cpc[p] \notin HoldPC, cpc'[p] \notin HoldPC \cup {"dvsym", "dvlink", "dvmeta"}
  PROVE  TidyInv'
<1>1. UNCHANGED <<vol, link, sym, meta, gpc, cur, queue>>
  BY DEF volVars, cleanerVars
<1>2. \A q \in Creators : /\ \A n : CreateHolds(q, n) => CreateHolds(q, n)'
                          /\ CreateHand(q)'
                          /\ \A t : cpc[q] \in {"linkfile", "mvunlink"} /\ t = job[q].token =>
                                      cpc'[q] \in {"linkfile", "mvunlink"} /\ t = job'[q].token
  <2> SUFFICES ASSUME NEW q \in Creators
               PROVE  /\ \A n : CreateHolds(q, n) => CreateHolds(q, n)'
                      /\ CreateHand(q)'
                      /\ cpc[q] \in {"linkfile", "mvunlink"} =>
                           cpc'[q] \in {"linkfile", "mvunlink"} /\ job[q].token = job'[q].token
    OBVIOUS
  <2>1. CASE q = p
    BY <2>1 DEF CreateHolds, CreateHand, HoldPC, MovePC
  <2>2. CASE q # p
    <3>1. cpc'[q] = cpc[q] /\ job'[q] = job[q] /\ Layer(q)' = Layer(q) /\ TempVolume(q)' = TempVolume(q)
      BY <2>2 DEF Layer, TempVolume
    <3> QED
      BY <1>1, <3>1 DEF CreateHolds, CreateHand, TidyInv
  <2> QED
    BY <2>1, <2>2
<1>3. \A g \in Cleaners : CleanHand(g)'
  BY <1>1 DEF TidyInv, CleanHand, VolumeExists
<1>4. PartsInv'
  BY <1>1, <1>2 DEF TidyInv, PartsInv, Held, CleanHolds, Settled, VolumeExists
<1>5. SymInv'
  BY <1>1, <1>2 DEF TidyInv, SymInv
<1>6. MarkedInv'
  BY <1>1 DEF TidyInv, MarkedInv, Swept, VolumeExists
<1> QED
  BY <1>2, <1>3, <1>4, <1>5, <1>6 DEF TidyInv

\* CreateVolume: the directory appears ...
LEMMA MkdirTidy ==
  ASSUME NEW p \in Creators, Types, LockInv, VolumeInv, LinkInv, TidyInv, Create(p), StreamAndMkdir(p)
  PROVE  TidyInv'
<1>1. /\ cpc[p] \in BuildPC \ {"reprobe"} /\ UNCHANGED cleanerVars
      /\ \A q \in Creators \ {p} : cpc'[q] = cpc[q] /\ job'[q] = job[q]
  BY CreateFrame DEF CreateTouchesVolumes
<1>2. Layer(p) \in Chain
  BY <1>1, BuildFacts DEF PullPC
<1>3. /\ vol \in [Name -> {"absent", "partial", "whole"}] /\ link \in [Name -> Token \cup {None}]
      /\ sym \in [Token -> Name \cup {None}] /\ cpc \in [Creators -> CreatorPC]
      /\ job \in [Creators -> Job]
  BY DEF Types, TypeOK, VolTypeOK, CreatorTypeOK
<1>4. PICK t \in Token : /\ Fresh(t) /\ job' = [job EXCEPT ![p].token = t]
                         /\ cpc[p] = "stream" /\ cpc' = [cpc EXCEPT ![p] = "symlink"]
                         /\ MakeVolumeDir(Incomplete(Layer(p), t))
  BY DEF StreamAndMkdir, Step
<1>5. PICK nv : nv = Incomplete(Layer(p), t)
  OBVIOUS
<1>6. /\ nv \in Name /\ nv.chain = Layer(p) /\ nv.gc = FALSE /\ nv.tmp = t /\ t # None
  BY <1>2, <1>5, NameFacts, NoneAssumption
<1>7. TempVolume(p)' = nv /\ job'[p].token = t /\ cpc'[p] = "symlink"
  BY <1>3, <1>4, <1>5 DEF TempVolume, Layer, Job
<1>8. \A n \in Name : ~CreateHolds(p, n)
  BY <1>4 DEF CreateHolds, MovePC
<1>9. link[nv] = None
  <2>1. Settled(nv)
    BY <1>1, <1>6, <1>8, HandFacts
  <2> QED
    BY <2>1, <1>4, <1>5, <1>6 DEF Fresh, Settled
<1>10. /\ \A n \in Name \ {nv} : vol'[n] = vol[n]
       /\ UNCHANGED <<link, sym, meta>>
  BY <1>3, <1>4, <1>5 DEF MakeVolumeDir
<1>11. CreateHolds(p, nv)'
  BY <1>7 DEF CreateHolds
<1>12. CreateHand(p)'
  BY <1>7, <1>9, <1>10 DEF CreateHand, MovePC
<1>13. sym[t] = None /\ \A n \in Name : link[n] # t
  BY <1>4 DEF Fresh
<1>14. CreateChange(p, {nv}, t)
  BY <1>4, <1>6, <1>8, <1>9, <1>10, <1>11, <1>12, <1>13 DEF CreateChange
<1> QED
  BY <1>1, <1>14, CreateTidy

\* ... then the symlink, the link file, the files.
LEMMA MakeTidy ==
  ASSUME NEW p \in Creators, Types, LockInv, VolumeInv, LinkInv, TidyInv, Create(p),
         CreateSymlink(p) \/ CreateLinkFile(p) \/ Unpack(p)
  PROVE  TidyInv'
<1> USE DEF Step
<1>0. PICK tv, fv, tok : tv = TempVolume(p) /\ fv = Final(Layer(p)) /\ tok = job[p].token
  OBVIOUS
<1>1. /\ cpc[p] \in BuildPC \ {"reprobe"} /\ UNCHANGED cleanerVars
      /\ \A q \in Creators \ {p} : cpc'[q] = cpc[q] /\ job'[q] = job[q]
  BY CreateFrame DEF CreateTouchesVolumes
<1>2. /\ tok \in Token /\ tok # None /\ tv \in Name /\ fv \in Name /\ fv # tv
      /\ tv.chain = Layer(p) /\ tv.gc = FALSE /\ fv.chain = Layer(p) /\ fv.gc = FALSE
      /\ vol[fv] = "absent" /\ tv.tmp = tok /\ Layer(p) \in Chain
  BY <1>0, <1>1, BuildFacts, NameFacts DEF PullPC, TempVolume
<1>3. /\ vol \in [Name -> {"absent", "partial", "whole"}] /\ link \in [Name -> Token \cup {None}]
      /\ sym \in [Token -> Name \cup {None}] /\ cpc \in [Creators -> CreatorPC]
      /\ job \in [Creators -> Job]
  BY DEF Types, TypeOK, VolTypeOK, CreatorTypeOK
<1>4. Download(p) /\ ShortId(p) /\ CreateHand(p)
  BY DEF VolumeInv, LinkInv, TidyInv
<1>5. /\ \A n \in Name : n.chain = Layer(p) /\ n.gc = FALSE /\ ~CreateHolds(p, n) => Settled(n)
      /\ cpc[p] \in TempPC => \A n \in Name : n \notin {tv, fv} => link[n] # tok
      /\ \A n \in Name : CreateHolds(p, n) => n \in {tv, fv}
  BY <1>0, <1>1, HandFacts
<1>6. /\ cpc[p] \in TempPC /\ UNCHANGED <<job, meta>> /\ TempVolume(p)' = tv /\ Layer(p)' = Layer(p)
      /\ cpc[p] \notin {"mvlink"} \cup MovePC /\ cpc'[p] \notin {"mvlink", "dvsym", "dvlink", "dvmeta"} \cup MovePC
  BY <1>0, <1>3 DEF CreateSymlink, CreateLinkFile, Unpack, MakeSymlink, WriteLinkFile, FillVolume,
     TempPC, FillPC, FilledPC, MovePC, TempVolume, Layer
<1>7. /\ fv \notin {tv} /\ ~CreateHolds(p, fv) /\ Settled(fv) /\ link[fv] = None
  <2>1. ~CreateHolds(p, fv)
    BY <1>0, <1>2, <1>6 DEF CreateHolds
  <2>2. Settled(fv)
    BY <1>2, <1>5, <2>1
  <2> QED
    BY <1>2, <2>1, <2>2 DEF Settled, VolumeExists
<1>8. tv # Final(tv.chain)
  BY <1>0, <1>2
<1>9. /\ \A n \in Name \ {tv} : vol'[n] = vol[n] /\ link'[n] = link[n] /\ (n \in meta' <=> n \in meta)
      /\ \A u \in Token : u # tok => sym'[u] = sym[u]
      /\ link[tv] \in {None, tok} /\ (Settled(tv)' \/ CreateHolds(p, tv)') /\ CreateHand(p)'
      /\ (link'[tv] = tok /\ sym'[tok] = tv) \/ cpc'[p] = "linkfile"
  <2>1. CASE CreateSymlink(p)
    <3>1. /\ cpc[p] = "symlink" /\ cpc'[p] = "linkfile" /\ sym' = [sym EXCEPT ![tok] = tv]
          /\ UNCHANGED <<vol, link, meta>>
      BY <1>0, <1>3, <2>1 DEF CreateSymlink, MakeSymlink
    <3>2. link[tv] = None
      BY <1>0, <1>4, <3>1 DEF CreateHand
    <3>3. CreateHolds(p, tv)'
      BY <1>6, <3>1 DEF CreateHolds
    <3>4. CreateHand(p)'
      BY <1>6, <3>1, <3>2 DEF CreateHand, MovePC
    <3> QED
      BY <1>2, <1>3, <3>1, <3>2, <3>3, <3>4
  <2>2. CASE CreateLinkFile(p)
    <3>1. /\ cpc[p] = "linkfile" /\ cpc'[p] = "unpack" /\ link' = [link EXCEPT ![tv] = tok]
          /\ UNCHANGED <<vol, sym, meta>>
      BY <1>0, <1>3, <2>2 DEF CreateLinkFile, WriteLinkFile
    <3>2. link[tv] = None /\ sym[tok] = tv /\ vol[tv] = "partial"
      BY <1>0, <1>4, <3>1 DEF CreateHand, Download, Linked, Temporary, FillPC
    <3>3. Settled(tv)'
      BY <1>2, <1>3, <1>8, <3>1, <3>2 DEF Settled, VolumeExists
    <3>4. CreateHand(p)'
      BY <1>6, <3>1 DEF CreateHand, MovePC
    <3> QED
      BY <1>2, <1>3, <3>1, <3>2, <3>3, <3>4
  <2>3. CASE Unpack(p)
    <3>1. /\ cpc[p] = "unpack" /\ cpc'[p] = "meta" /\ vol' = [vol EXCEPT ![tv] = "whole"]
          /\ UNCHANGED <<link, sym, meta>>
      BY <1>0, <1>3, <2>3 DEF Unpack, FillVolume
    <3>2. link[tv] = tok /\ sym[tok] = tv
      BY <1>0, <1>4, <3>1 DEF Download, Linked, Unpacking
    <3>3. Settled(tv)'
      BY <1>2, <1>3, <1>8, <3>1, <3>2 DEF Settled, VolumeExists
    <3>4. CreateHand(p)'
      BY <1>6, <3>1 DEF CreateHand, MovePC
    <3> QED
      BY <1>2, <1>3, <3>1, <3>2, <3>3, <3>4
  <2> QED
    BY <2>1, <2>2, <2>3
<1>10. \A n \in Name \ {tv} : link[n] # tok /\ ~CreateHolds(p, n)
  BY <1>2, <1>5, <1>6, <1>7
<1>11. tok = job[p].token /\ tok = job'[p].token
  BY <1>0, <1>6
<1>12. CreateChange(p, {tv}, tok)
  BY <1>2, <1>9, <1>10, <1>11 DEF CreateChange
<1> QED
  BY <1>1, <1>12, CreateTidy

\* finalizeVolume: the metadata appears, then the link file moves, the symlink
\* and the directory.
LEMMA FinalizeTidy ==
  ASSUME NEW p \in Creators, Types, LockInv, VolumeInv, LinkInv, TidyInv, Create(p),
         \/ FinalizeMeta(p) \/ FinalizeLinkFile(p) \/ FinalizeUnlink(p)
         \/ FinalizeSymlink(p) \/ FinalizeDir(p)
  PROVE  TidyInv'
<1> USE DEF Step
<1>0. PICK tv, fv, tok : tv = TempVolume(p) /\ fv = Final(Layer(p)) /\ tok = job[p].token
  OBVIOUS
<1>1. /\ cpc[p] \in BuildPC \ {"reprobe"} /\ UNCHANGED cleanerVars
      /\ \A q \in Creators \ {p} : cpc'[q] = cpc[q] /\ job'[q] = job[q]
  BY CreateFrame DEF CreateTouchesVolumes
<1>2. /\ tok \in Token /\ tok # None /\ tv \in Name /\ fv \in Name /\ fv # tv
      /\ tv.chain = Layer(p) /\ tv.gc = FALSE /\ fv.chain = Layer(p) /\ fv.gc = FALSE
      /\ vol[fv] = "absent" /\ tv.tmp = tok /\ Layer(p) \in Chain
  BY <1>0, <1>1, BuildFacts, NameFacts DEF PullPC, TempVolume
<1>3. /\ vol \in [Name -> {"absent", "partial", "whole"}] /\ link \in [Name -> Token \cup {None}]
      /\ sym \in [Token -> Name \cup {None}] /\ cpc \in [Creators -> CreatorPC]
      /\ job \in [Creators -> Job]
  BY DEF Types, TypeOK, VolTypeOK, CreatorTypeOK
<1>4. Download(p) /\ ShortId(p) /\ CreateHand(p)
  BY DEF VolumeInv, LinkInv, TidyInv
<1>5. /\ \A n \in Name : n.chain = Layer(p) /\ n.gc = FALSE /\ ~CreateHolds(p, n) => Settled(n)
      /\ cpc[p] \in TempPC => \A n \in Name : n \notin {tv, fv} => link[n] # tok
      /\ \A n \in Name : CreateHolds(p, n) => n \in {tv, fv}
  BY <1>0, <1>1, HandFacts
<1>6. cpc[p] \in FilledPC
  BY DEF FinalizeMeta, FinalizeLinkFile, FinalizeUnlink, FinalizeSymlink, FinalizeDir, FilledPC
<1>7. /\ tv # Final(tv.chain) /\ vol[tv] = "whole"
      /\ \A n \in Name \ {tv, fv} : link[n] # tok /\ ~CreateHolds(p, n)
  BY <1>0, <1>2, <1>4, <1>5, <1>6 DEF TempPC, Download, Temporary
<1>8. SUFFICES /\ \A n \in Name \ {tv, fv} : /\ vol'[n] = vol[n] /\ link'[n] = link[n]
                                              /\ (n \in meta' <=> n \in meta)
               /\ link[tv] \in {None, tok} /\ link[fv] \in {None, tok}
               /\ Settled(tv)' \/ CreateHolds(p, tv)'
               /\ Settled(fv)' \/ CreateHolds(p, fv)'
               /\ \A u \in Token : u # tok => sym'[u] = sym[u]
               /\ \/ sym'[tok] = None \/ link'[sym'[tok]] = tok
                  \/ cpc'[p] = "mvunlink" /\ tok = job'[p].token
               /\ CreateHand(p)'
  <2>1. CreateChange(p, {tv, fv}, tok)
    BY <1>0, <1>2, <1>7, <1>8 DEF CreateChange
  <2> QED
    BY <1>1, <2>1, CreateTidy
<1>9. CASE FinalizeMeta(p)
  <2>1. /\ cpc[p] = "meta" /\ cpc'[p] = "mvlink" /\ meta' = meta \cup {fv}
        /\ UNCHANGED <<vol, link, sym, job>>
    BY <1>0, <1>3, <1>9 DEF FinalizeMeta, WriteVolumeMeta
  <2>2. ~CreateHolds(p, fv) /\ link[tv] = tok /\ sym[tok] = tv
    BY <1>0, <1>4, <2>1 DEF CreateHolds, MovePC, Download, Linked, Unpacking
  <2>3. link[fv] = None
    BY <1>2, <1>5, <2>2 DEF Settled, VolumeExists
  <2>4. Settled(tv)'
    BY <1>2, <1>7, <2>1, <2>2 DEF Settled, VolumeExists
  <2>5. /\ TempVolume(p)' = tv /\ Final(Layer(p))' = fv
    BY <1>0, <2>1 DEF TempVolume, Layer
  <2>6. CreateHolds(p, fv)' /\ CreateHand(p)'
    BY <2>1, <2>3, <2>5 DEF CreateHolds, CreateHand, MovePC
  <2> QED
    BY <2>1, <2>2, <2>3, <2>4, <2>6
<1>10. CASE FinalizeLinkFile(p) \/ FinalizeUnlink(p) \/ FinalizeSymlink(p)
  <2>1. /\ cpc[p] = "mvlink" => Movable(tv) /\ link[tv] = tok /\ link[fv] = None
        /\ cpc[p] = "mvunlink" => sym[tok] # None
        /\ cpc[p] \in MovePC => link[tv] = None /\ link[fv] = tok
        /\ cpc[p] = "mvunlink" => sym[tok] = tv
        /\ fv \in meta \/ cpc[p] = "meta"
    <3>1. cpc[p] = "mvlink" => Movable(tv) /\ link[tv] = tok /\ link[fv] = None
      BY <1>0, <1>2, <1>4, <1>7 DEF CreateHand, Download, Linked, Unpacking, Movable, VolumeExists
    <3>2. cpc[p] \in MovePC => link[tv] = None /\ link[fv] = tok
      BY <1>0, <1>4 DEF CreateHand, Download, Linked, Moving, MovePC
    <3>3. cpc[p] = "mvunlink" => sym[tok] = tv /\ sym[tok] # None
      BY <1>0, <1>2, <1>4, NoneIsNoName DEF Download, Linked
    <3>4. fv \in meta \/ cpc[p] = "meta"
      BY <1>0, <1>4, <1>6 DEF CreateHand, FilledPC, MovePC
    <3> QED
      BY <3>1, <3>2, <3>3, <3>4
  <2>2. /\ cpc[p] # "meta" /\ cpc'[p] \in MovePC /\ UNCHANGED <<vol, meta, job>>
        /\ link' = IF cpc[p] = "mvlink" THEN [link EXCEPT ![fv] = tok, ![tv] = None] ELSE link
        /\ sym' = CASE cpc[p] = "mvlink" -> sym
                    [] cpc[p] = "mvunlink" -> [sym EXCEPT ![tok] = None]
                    [] OTHER -> [sym EXCEPT ![tok] = fv]
        /\ cpc[p] \in {"mvlink", "mvunlink", "mvsymlink"}
        /\ cpc[p] = "mvlink" => cpc'[p] = "mvunlink"
    <3>1. CASE FinalizeLinkFile(p)
      BY <1>0, <1>3, <2>1, <3>1 DEF FinalizeLinkFile, MoveLinkFile, MovePC
    <3>2. CASE FinalizeUnlink(p)
      BY <1>0, <1>3, <2>1, <3>2 DEF FinalizeUnlink, RemoveSymlink, MovePC
    <3>3. CASE FinalizeSymlink(p)
      BY <1>0, <1>3, <2>1, <3>3 DEF FinalizeSymlink, MakeSymlink, MovePC
    <3> QED
      BY <1>10, <3>1, <3>2, <3>3
  <2>3. /\ TempVolume(p)' = tv /\ Final(Layer(p))' = fv
    BY <1>0, <2>2 DEF TempVolume, Layer
  <2>4. link'[tv] = None /\ link'[fv] = tok
    BY <1>2, <1>3, <2>1, <2>2 DEF MovePC
  <2>5. CreateHolds(p, fv)' /\ CreateHolds(p, tv)'
    BY <2>2, <2>3 DEF CreateHolds
  <2>6. CreateHand(p)'
    BY <2>1, <2>2, <2>3, <2>4 DEF CreateHand, MovePC
  <2>7. \A n \in Name \ {tv, fv} : vol'[n] = vol[n] /\ link'[n] = link[n] /\ (n \in meta' <=> n \in meta)
    BY <1>3, <2>2
  <2>8. \A u \in Token : u # tok => sym'[u] = sym[u]
    BY <1>3, <2>2
  <2>9. \/ sym'[tok] = None \/ link'[sym'[tok]] = tok
        \/ cpc'[p] = "mvunlink" /\ tok = job'[p].token
    BY <1>0, <1>2, <1>3, <2>2, <2>4
  <2>10. link[tv] \in {None, tok} /\ link[fv] \in {None, tok}
    BY <2>1, <2>2 DEF MovePC
  <2> QED
    BY <2>5, <2>6, <2>7, <2>8, <2>9, <2>10
<1>11. CASE FinalizeDir(p)
  <2>1. /\ cpc[p] = "mvdir" /\ UNCHANGED <<link, sym, meta>>
        /\ vol' = [vol EXCEPT ![fv] = "whole", ![tv] = "absent"] /\ LayerDone(p)
    BY <1>0, <1>2, <1>3, <1>7, <1>11 DEF FinalizeDir, RenameVolumeDir, VolumeExists
  <2>2. link[tv] = None /\ link[fv] = tok /\ sym[tok] = fv /\ fv \in meta
    BY <1>0, <1>4, <2>1 DEF CreateHand, Download, Linked, Moving, MovePC, ShortId
  <2>3. Settled(tv)'
    BY <1>2, <1>3, <1>7, <2>1, <2>2 DEF Settled, VolumeExists
  <2>4. Settled(fv)'
    BY <1>2, <1>3, <2>1, <2>2 DEF Settled, VolumeExists
  <2>5. cpc'[p] \in {"mkimage", "stream"}
    BY <1>3, <2>1 DEF LayerDone
  <2>6. CreateHand(p)'
    BY <2>5 DEF CreateHand, MovePC
  <2>7. \A n \in Name \ {tv, fv} : vol'[n] = vol[n] /\ link'[n] = link[n] /\ (n \in meta' <=> n \in meta)
    BY <1>3, <2>1
  <2> QED
    BY <2>1, <2>2, <2>3, <2>4, <2>6, <2>7
<1> QED
  BY <1>9, <1>10, <1>11

\* Every step of a create keeps the parts of the volumes together.
LEMMA CreateKeepsTidy ==
  ASSUME Faultless, NEW p \in Creators, Types, LockInv, VolumeInv, LinkInv, TidyInv, Create(p)
  PROVE  TidyInv'
<1>1. /\ UNCHANGED volVars \/ CreateTouchesVolumes(p)
      /\ UNCHANGED cleanerVars
      /\ \A q \in Creators \ {p} : cpc'[q] = cpc[q] /\ job'[q] = job[q]
  BY CreateFrame
<1>2. ~CreateFault(p) /\ cpc[p] \notin {"dvsym", "dvlink", "dvmeta"} /\ cpc \in [Creators -> CreatorPC]
  BY NoFaults DEF TidyInv, CreateHand, Types, TypeOK, CreatorTypeOK
<1>3. CASE CreateTouchesVolumes(p)
  <2>1. ~(DestroyVolumeSymlink(p) \/ DestroyVolumeLinkFile(p) \/ DestroyVolumeMeta(p))
    BY <1>2 DEF DestroyVolumeSymlink, DestroyVolumeLinkFile, DestroyVolumeMeta, Step
  <2> QED
    BY <1>3, <2>1, MkdirTidy, MakeTidy, FinalizeTidy DEF CreateTouchesVolumes
<1>4. CASE ~CreateTouchesVolumes(p)
  <2>1. \/ \E i \in Id, image \in Image : StartCreate(p, i, image)
        \/ LockGlobalShared(p) \/ ProbeVolume(p) \/ LockChain(p) \/ ReprobeHit(p) \/ ReprobeMiss(p)
        \/ MkdirImage(p) \/ MkdirImageExists(p) \/ CreateImage(p) \/ CreateImageNotReady(p)
        \/ SetOwnership(p) \/ RegisterOpen(p) \/ RegisterWrite(p)
        \/ UndoUnmount(p) \/ UndoRemove(p) \/ EndCreate(p)
    BY <1>2, <1>4 DEF Create, CreateStep, CreateTouchesVolumes
  <2>2. cpc[p] \notin HoldPC /\ cpc'[p] \notin HoldPC \cup {"dvsym", "dvlink", "dvmeta"}
    BY <1>2, <2>1 DEF StartCreate, LockGlobalShared, ProbeVolume, LockChain, ReprobeHit, ReprobeMiss,
       MkdirImage, MkdirImageExists, CreateImage, CreateImageNotReady, SetOwnership, RegisterOpen,
       RegisterWrite, UndoUnmount, UndoRemove, EndCreate, Step, LayerDone, HoldPC, MovePC
  <2> QED
    BY <1>1, <1>4, <2>2, QuietTidy
<1> QED
  BY <1>3, <1>4

------------------------------------------------------------------------------
(* Cleans *)

\* While a clean is past its gc lock the others wait for theirs.
LEMMA GcAlone ==
  ASSUME Types, LockInv, NEW g \in Cleaners, gpc[g] \notin {"idle", "gclock"}
  PROVE  \A h \in Cleaners \ {g} : gpc[h] \in {"idle", "gclock"}
<1>1. GCLockKey \in LockKey
  BY DEF LockKey
<1> QED
  BY <1>1 DEF LockInv, CleanerLocks, FlockInv

\* A clean changes the volumes V and the short id t, and knows afterwards
\* where it has put them.
CleanChange(g, V, t) ==
  /\ V \subseteq Name
  /\ Marking(g) \/ \A n \in V : n.gc = TRUE
  /\ \A n \in Name \ V : /\ vol'[n] = vol[n] /\ link'[n] = link[n]
                         /\ (n \in meta' <=> n \in meta)
                         /\ (t # None => link[n] # t) /\ ~CleanHolds(g, n)
  /\ \A n \in V : link[n] \in {None, t}
  /\ \A n \in V : Settled(n)' \/ CleanHolds(g, n)'
  /\ \A u \in Token : u # t => sym'[u] = sym[u]
  /\ t \in Token => \/ sym'[t] = None
                    \/ link'[sym'[t]] = t
                    \/ gpc'[g] = "mvunlink" /\ t = link'[GcName(cur'[g])]
  /\ gpc[g] = "mvunlink" => t = link[GcName(cur[g])]
  /\ gpc'[g] \in SweepPC
  /\ CleanHand(g)' /\ Swept(g)'

\* Such a change of a clean does, too.
LEMMA CleanTidy ==
  ASSUME NEW g \in Cleaners, Types, LockInv, TidyInv, gpc[g] \notin {"idle", "gclock"},
         UNCHANGED creatorVars,
         \A h \in Cleaners \ {g} : gpc'[h] = gpc[h] /\ cur'[h] = cur[h] /\ queue'[h] = queue[h],
         NEW V, NEW t, CleanChange(g, V, t)
  PROVE  TidyInv'
<1> USE DEF CleanChange
<1>1. \A n \in Name \ V : Untouched(n)
  BY DEF Untouched, Types, TypeOK, VolTypeOK
<1>2. /\ UNCHANGED <<cpc, job>>
      /\ \A h \in Cleaners \ {g} : gpc[h] \in {"idle", "gclock"} /\ gpc'[h] \in {"idle", "gclock"}
  BY GcAlone DEF creatorVars
<1>3. PartsInv'
  <2> SUFFICES ASSUME NEW n \in Name, ~Settled(n)'
               PROVE  Held(n)'
    BY DEF PartsInv
  <2>1. CASE n \in V
    BY <2>1 DEF Held
  <2>2. CASE n \notin V
    <3>1. ~Settled(n) /\ ~CleanHolds(g, n)
      BY <1>1, <2>2, UntouchedSettled
    <3>2. \A h \in Cleaners : ~CleanHolds(h, n)
      BY <1>2, <3>1 DEF CleanHolds, MarkPC, DestroyPC
    <3>3. PICK q \in Creators : CreateHolds(q, n)
      BY <3>1, <3>2 DEF TidyInv, PartsInv, Held
    <3>4. CreateHolds(q, n)'
      BY <1>2, <3>3 DEF CreateHolds, TempVolume, Layer
    <3> QED
      BY <3>4 DEF Held
  <2> QED
    BY <2>1, <2>2
<1>4. SymInv'
  <2> SUFFICES ASSUME NEW u \in Token, sym'[u] # None
               PROVE  \/ link'[sym'[u]] = u
                      \/ \E q \in Creators : cpc'[q] \in {"linkfile", "mvunlink"} /\ u = job'[q].token
                      \/ \E h \in Cleaners : gpc'[h] = "mvunlink" /\ u = link'[GcName(cur'[h])]
    BY DEF SymInv
  <2>1. CASE u = t
    BY <2>1
  <2>2. CASE u # t
    <3>1. sym'[u] = sym[u] /\ sym[u] \in Name
      BY <2>2 DEF Types, TypeOK, VolTypeOK
    <3>2. CASE link[sym[u]] = u
      <4>1. sym[u] \notin V
        BY <2>2, <3>2, NoneAssumption
      <4> QED
        BY <3>1, <3>2, <4>1
    <3>3. CASE \E q \in Creators : cpc[q] \in {"linkfile", "mvunlink"} /\ u = job[q].token
      BY <1>2, <3>3
    <3>4. ~\E h \in Cleaners : gpc[h] = "mvunlink" /\ u = link[GcName(cur[h])]
      BY <1>2, <2>2
    <3> QED
      BY <3>1, <3>2, <3>3, <3>4 DEF TidyInv, SymInv
  <2> QED
    BY <2>1, <2>2
<1>5. MarkedInv'
  <2>1. \A h \in Cleaners \ {g} : Swept(h)'
    BY <1>2 DEF Swept, MarkPC, DestroyPC
  <2> QED
    BY <2>1 DEF MarkedInv
<1>6. \A q \in Creators : CreateHand(q)'
  <2> SUFFICES ASSUME NEW q \in Creators
               PROVE  CreateHand(q)'
    OBVIOUS
  <2>1. CreateHand(q) /\ cpc'[q] = cpc[q] /\ Layer(q)' = Layer(q) /\ TempVolume(q)' = TempVolume(q)
    BY <1>2 DEF TidyInv, Layer, TempVolume
  <2>2. CASE cpc[q] \in HoldPC
    <3>1. cpc[q] \in PullPC /\ Creating(q)
      BY <2>2 DEF HoldPC, MovePC, BuildPC, PullPC, Creating
    <3>2. \A n \in V : n.gc = TRUE
      BY <3>1, Exclusion
    <3>3. /\ TempVolume(q) \in Name \ V /\ Final(Layer(q)) \in Name \ V
      BY <3>1, <3>2, NameFacts DEF TempVolume
    <3> QED
      BY <2>1, <3>3 DEF CreateHand
  <2>3. CASE cpc[q] \notin HoldPC
    BY <2>1, <2>3 DEF CreateHand, HoldPC
  <2> QED
    BY <2>2, <2>3
<1>7. \A h \in Cleaners : CleanHand(h)'
  <2>1. \A h \in Cleaners \ {g} : CleanHand(h)'
    BY <1>2 DEF CleanHand, MovePC, MarkPC
  <2> QED
    BY <2>1
<1> QED
  BY <1>3, <1>4, <1>5, <1>6, <1>7 DEF TidyInv

\* The name a clean gives to what it marks.
LEMMA GcNames ==
  /\ \A n \in Name : GcName(n) \in Name /\ GcName(n).gc = TRUE
  /\ \A n \in Name : n.gc = TRUE => n # Final(n.chain)
  /\ \A n, k \in Name : n.gc = FALSE /\ k.gc = FALSE /\ GcName(k) = GcName(n) => k = n
BY DEF Name, GcName, Final

\* The volumes a marking clean does not have in hand are settled.
LEMMA MarkFacts ==
  ASSUME NEW g \in Cleaners, Types, LockInv, TidyInv, Marking(g)
  PROVE  \A n \in Name : ~CleanHolds(g, n) => Settled(n)
<1>1. \A q \in Creators, n \in Name : ~CreateHolds(q, n)
  BY Exclusion DEF Creating, CreateHolds, MovePC
<1>2. \A h \in Cleaners \ {g} : gpc[h] \in {"idle", "gclock"}
  BY MarkAlone
<1>3. \A h \in Cleaners \ {g}, n \in Name : ~CleanHolds(h, n)
  BY <1>2 DEF CleanHolds, MarkPC, DestroyPC
<1> QED
  BY <1>1, <1>3 DEF TidyInv, PartsInv, Held

\* MoveVolume takes the link file first.
LEMMA MarkNextTidy ==
  ASSUME NEW g \in Cleaners, Types, LockInv, LinkInv, TidyInv, Clean(g),
         NEW n \in Name, MarkNext(g, n), Movable(n)
  PROVE  TidyInv'
<1>0. PICK m, t : m = GcName(n) /\ t = link[n]
  OBVIOUS
<1>1. /\ UNCHANGED creatorVars
      /\ \A h \in Cleaners \ {g} : gpc'[h] = gpc[h] /\ cur'[h] = cur[h] /\ queue'[h] = queue[h]
  BY CleanFrame
<1>2. /\ vol \in [Name -> {"absent", "partial", "whole"}] /\ link \in [Name -> Token \cup {None}]
      /\ sym \in [Token -> Name \cup {None}] /\ gpc \in [Cleaners -> CleanerPC]
      /\ cur \in [Cleaners -> Name \cup {None}]
  BY DEF Types, TypeOK, VolTypeOK, CleanerTypeOK
<1>3. /\ gpc[g] = "mark" /\ n \in queue[g] /\ gpc'[g] = "mvunlink" /\ cur'[g] = n
      /\ link' = [link EXCEPT ![m] = t, ![n] = None] /\ UNCHANGED <<vol, sym, meta>>
  BY <1>0, <1>2 DEF MarkNext, Goto, MoveLinkFile
<1>4. n.gc = FALSE /\ m \in Name /\ m.gc = TRUE /\ m # n
  BY <1>0, <1>3, GcNames DEF Types, CleanNames
<1>5. Marking(g) /\ \A k \in Name : ~CleanHolds(g, k)
  BY <1>3 DEF Marking, CleanHolds, MarkPC, DestroyPC
<1>6. \A k \in Name : Settled(k)
  BY <1>5, MarkFacts
<1>7. VolumeExists(n) /\ t \in Token /\ t # None /\ sym[t] = n /\ (n = Final(n.chain) => n \in meta)
  BY <1>0, <1>2, <1>6, NoneAssumption DEF Movable, Settled
<1>8. ~VolumeExists(m) /\ link[m] = None
  BY <1>0, <1>3, <1>4, <1>6, <1>7 DEF TidyInv, MarkedInv, Swept, Settled
<1>9. link'[m] = t /\ link'[n] = None /\ \A k \in Name \ {n, m} : link'[k] = link[k]
  BY <1>2, <1>3, <1>4
<1>10. \A k \in Name \ {n, m} : link[k] # t
  BY <1>0, <1>7 DEF LinkInv, LinksApart
<1>11. CleanHolds(g, n)' /\ CleanHolds(g, m)'
  BY <1>0, <1>3 DEF CleanHolds, MarkPC
<1>12. CleanHand(g)'
  BY <1>0, <1>3, <1>7, <1>8, <1>9 DEF CleanHand, MarkPC, MovePC, VolumeExists
<1>13. Swept(g)'
  BY <1>3 DEF TidyInv, MarkedInv, Swept, VolumeExists, MarkPC, DestroyPC
<1>14. gpc'[g] \in SweepPC
  BY <1>3 DEF SweepPC, MarkPC
<1>15. t = link'[GcName(cur'[g])]
  BY <1>0, <1>3, <1>9
<1>16. CleanChange(g, {n, m}, t)
  BY <1>0, <1>3, <1>4, <1>5, <1>8, <1>9, <1>10, <1>11, <1>12, <1>13, <1>14, <1>15 DEF CleanChange
<1>17. gpc[g] \notin {"idle", "gclock"}
  BY <1>3
<1> QED
  BY <1>1, <1>16, <1>17, CleanTidy

\* Then the symlink and the directory follow, and the metadata.
LEMMA MarkTidy ==
  ASSUME NEW g \in Cleaners, Types, LockInv, LinkInv, TidyInv, Clean(g),
         MarkUnlink(g) \/ MarkSymlink(g) \/ MarkDir(g) \/ MarkMeta(g)
  PROVE  TidyInv'
<1> USE DEF At, Goto
<1>0. PICK n, m, t : n = cur[g] /\ m = GcName(n) /\ t = link[m]
  OBVIOUS
<1>1. /\ UNCHANGED creatorVars
      /\ \A h \in Cleaners \ {g} : gpc'[h] = gpc[h] /\ cur'[h] = cur[h] /\ queue'[h] = queue[h]
  BY CleanFrame
<1>2. /\ vol \in [Name -> {"absent", "partial", "whole"}] /\ link \in [Name -> Token \cup {None}]
      /\ sym \in [Token -> Name \cup {None}] /\ gpc \in [Cleaners -> CleanerPC]
      /\ cur \in [Cleaners -> Name \cup {None}]
  BY DEF Types, TypeOK, VolTypeOK, CleanerTypeOK
<1>3. gpc[g] \in MarkPC /\ gpc[g] \notin {"idle", "gclock"} /\ Marking(g)
  BY DEF MarkUnlink, MarkSymlink, MarkDir, MarkMeta, MarkPC, Marking
<1>4. n \in Name /\ n.gc = FALSE /\ m \in Name /\ m.gc = TRUE /\ m # n /\ m # Final(m.chain)
  BY <1>0, <1>3, GcNames DEF Types, CleanNames
<1>5. /\ gpc[g] \in MovePC => VolumeExists(n) /\ ~VolumeExists(m)
      /\ gpc[g] = "mvmeta" => ~VolumeExists(n) /\ VolumeExists(m)
      /\ t # None /\ t \in Token /\ link[m] = t /\ link[n] = None
      /\ sym[t] = CASE gpc[g] = "mvunlink" -> n [] gpc[g] = "mvsymlink" -> None [] OTHER -> m
      /\ n = Final(n.chain) => n \in meta
      /\ Swept(g)
  BY <1>0, <1>2, <1>3, <1>4 DEF TidyInv, CleanHand, LinkInv, InHandUnlinked, MarkedInv
<1>6. \A k \in Name \ {n, m} : link[k] # t /\ ~CleanHolds(g, k)
  BY <1>0, <1>3, <1>4, <1>5 DEF LinkInv, LinksApart, CleanHolds, MarkPC, DestroyPC
<1>7. SUFFICES
        /\ UNCHANGED link
        /\ \A k \in Name \ {n, m} : vol'[k] = vol[k] /\ (k \in meta' <=> k \in meta)
        /\ Settled(n)' \/ CleanHolds(g, n)'
        /\ Settled(m)' \/ CleanHolds(g, m)'
        /\ \A u \in Token : u # t => sym'[u] = sym[u]
        /\ sym'[t] \in {None, m}
        /\ gpc'[g] \in {"mark"} \cup MarkPC
        /\ CleanHand(g)' /\ Swept(g)'
  <2>1. gpc'[g] \in SweepPC
    BY <1>7 DEF SweepPC, MarkPC
  <2>2. CleanChange(g, {n, m}, t)
    BY <1>0, <1>3, <1>4, <1>5, <1>6, <1>7, <2>1 DEF CleanChange
  <2> QED
    BY <1>1, <1>3, <2>2, CleanTidy
<1>8. CASE MarkUnlink(g) \/ MarkSymlink(g)
  <2>1. /\ gpc'[g] \in {"mvsymlink", "mvdir"} /\ cur'[g] = n /\ UNCHANGED <<vol, link, meta>>
        /\ gpc[g] \in MovePC
        /\ sym' = [sym EXCEPT ![t] = IF gpc'[g] = "mvsymlink" THEN None ELSE m]
    <3>1. CASE MarkUnlink(g)
      <4>1. gpc[g] = "mvunlink" /\ sym[t] # None
        BY <1>4, <1>5, <3>1, NoneIsNoName DEF MarkUnlink
      <4> QED
        BY <1>0, <1>2, <3>1, <4>1 DEF MarkUnlink, RemoveSymlink, MovePC
    <3>2. CASE MarkSymlink(g)
      BY <1>0, <1>2, <3>2 DEF MarkSymlink, MakeSymlink, MovePC
    <3> QED
      BY <1>8, <3>1, <3>2
  <2>2. CleanHolds(g, n)' /\ CleanHolds(g, m)'
    BY <1>0, <2>1 DEF CleanHolds, MarkPC
  <2>3. sym'[t] = IF gpc'[g] = "mvsymlink" THEN None ELSE m
    BY <1>2, <1>5, <2>1
  <2>4. CleanHand(g)'
    BY <1>0, <1>5, <2>1, <2>3 DEF CleanHand, MarkPC, MovePC, VolumeExists
  <2>5. Swept(g)'
    BY <1>3, <1>5, <2>1 DEF Swept, MarkPC, DestroyPC, VolumeExists
  <2>6. \A u \in Token : u # t => sym'[u] = sym[u]
    BY <1>2, <2>1
  <2>7. gpc'[g] \in {"mark"} \cup MarkPC
    BY <2>1 DEF MarkPC
  <2> QED
    BY <2>1, <2>2, <2>3, <2>4, <2>5, <2>6, <2>7
<1>9. CASE MarkDir(g)
  <2>1. gpc[g] = "mvdir" /\ gpc'[g] = "mvmeta" /\ cur'[g] = n /\ UNCHANGED <<link, sym, meta>>
    BY <1>0, <1>2, <1>9 DEF MarkDir, RenameVolumeDir
  <2>2. ~VolumeExists(m) /\ VolumeExists(n) /\ sym[t] = m
    BY <1>5, <2>1 DEF MovePC
  <2>3. vol' = [vol EXCEPT ![m] = vol[n], ![n] = "absent"]
    BY <1>0, <1>9, <2>2 DEF MarkDir, RenameVolumeDir
  <2>4. ~VolumeExists(n)' /\ VolumeExists(m)' /\ \A k \in Name \ {n, m} : vol'[k] = vol[k]
    BY <1>2, <1>4, <2>2, <2>3 DEF VolumeExists
  <2>5. CleanHolds(g, n)' /\ CleanHolds(g, m)'
    BY <1>0, <2>1 DEF CleanHolds, MarkPC
  <2>6. CleanHand(g)'
    BY <1>0, <1>5, <2>1, <2>2, <2>4 DEF CleanHand, MarkPC, MovePC
  <2>7. Swept(g)'
    <3>1. \A k \in Name : ~k.gc /\ VolumeExists(k)' => ~VolumeExists(GcName(k))'
      <4> SUFFICES ASSUME NEW k \in Name, ~k.gc, VolumeExists(k)'
                   PROVE  ~VolumeExists(GcName(k))'
        OBVIOUS
      <4>1. k # n /\ k # m /\ k.gc = FALSE
        BY <1>4, <2>4 DEF Name
      <4>2. GcName(k) \in Name \ {n, m}
        BY <1>0, <1>4, <4>1, GcNames
      <4>3. VolumeExists(k) /\ ~VolumeExists(GcName(k))
        BY <1>3, <1>5, <2>4, <4>1 DEF Swept, VolumeExists
      <4> QED
        BY <2>4, <4>2, <4>3 DEF VolumeExists
    <3> QED
      BY <2>1, <3>1 DEF Swept, DestroyPC
  <2>8. gpc'[g] \in {"mark"} \cup MarkPC
    BY <2>1 DEF MarkPC
  <2> QED
    BY <2>1, <2>2, <2>4, <2>5, <2>6, <2>7, <2>8
<1>10. CASE MarkMeta(g)
  <2>1. /\ gpc[g] = "mvmeta" /\ gpc'[g] = "mark" /\ UNCHANGED <<vol, link, sym>>
        /\ meta' = IF n \in meta THEN (meta \ {n}) \cup {m} ELSE meta
    BY <1>0, <1>2, <1>10 DEF MarkMeta, MoveVolumeMeta
  <2>2. ~VolumeExists(n) /\ VolumeExists(m) /\ sym[t] = m
    BY <1>5, <2>1
  <2>3. Settled(n)' /\ Settled(m)'
    BY <1>4, <1>5, <2>1, <2>2 DEF Settled, VolumeExists
  <2>4. CleanHand(g)'
    BY <2>1 DEF CleanHand, MarkPC, MovePC
  <2>5. Swept(g)'
    BY <1>3, <1>5, <2>1 DEF Swept, DestroyPC, VolumeExists
  <2> QED
    BY <2>1, <2>2, <2>3, <2>4, <2>5
<1> QED
  BY <1>8, <1>9, <1>10

\* DestroyVolume: symlink, link file, metadata, directory.
LEMMA DestroyTidy ==
  ASSUME NEW g \in Cleaners, Types, LockInv, LinkInv, TidyInv, Clean(g), DestroyTouchesVolumes(g)
  PROVE  TidyInv'
<1> USE DEF At, Goto
<1>1. /\ UNCHANGED creatorVars
      /\ \A h \in Cleaners \ {g} : gpc'[h] = gpc[h] /\ cur'[h] = cur[h] /\ queue'[h] = queue[h]
  BY CleanFrame
<1>2. /\ vol \in [Name -> {"absent", "partial", "whole"}] /\ link \in [Name -> Token \cup {None}]
      /\ sym \in [Token -> Name \cup {None}] /\ gpc \in [Cleaners -> CleanerPC]
      /\ cur \in [Cleaners -> Name \cup {None}] /\ queue \in [Cleaners -> SUBSET Name]
  BY DEF Types, TypeOK, VolTypeOK, CleanerTypeOK
<1>3. gpc[g] \in {"destroy"} \cup DestroyPC /\ gpc[g] \notin {"idle", "gclock"} \cup MarkPC
  BY DEF DestroyTouchesVolumes, DestroyNext, DestroyLinkFile, DestroyMeta, DestroyDirBegin,
     DestroyDirEnd, DestroyPC, MarkPC
<1>4. PICK n \in Name : /\ n.gc = TRUE
                        /\ (\E k \in Name : DestroyNext(g, k)) => n \in queue[g] /\ DestroyNext(g, n)
                        /\ gpc[g] \in DestroyPC => n = cur[g]
  <2>1. CASE \E k \in Name : DestroyNext(g, k)
    <3>1. PICK k \in Name : DestroyNext(g, k)
      BY <2>1
    <3>2. gpc[g] = "destroy" /\ k \in queue[g]
      BY <3>1 DEF DestroyNext
    <3> QED
      BY <3>1, <3>2 DEF DestroyPC, Types, CleanNames
  <2>2. CASE ~\E k \in Name : DestroyNext(g, k)
    <3>1. gpc[g] \in DestroyPC
      BY <2>2 DEF DestroyTouchesVolumes, DestroyLinkFile, DestroyMeta, DestroyDirBegin,
         DestroyDirEnd, DestroyPC
    <3> QED
      BY <2>2, <3>1 DEF Types, CleanNames
  <2> QED
    BY <2>1, <2>2
<1>5. PICK t : t = link[n]
  OBVIOUS
<1>6. /\ n # Final(n.chain)
      /\ \A k \in Name \ {n} : (t # None => link[k] # t) /\ ~CleanHolds(g, k)
  BY <1>3, <1>4, <1>5, GcNames DEF LinkInv, LinksApart, CleanHolds
<1>7. Swept(g) /\ CleanHand(g)
  BY DEF TidyInv, MarkedInv
<1>8. SUFFICES
        /\ \A k \in Name \ {n} : vol'[k] = vol[k] /\ link'[k] = link[k] /\ (k \in meta' <=> k \in meta)
        /\ Settled(n)' \/ CleanHolds(g, n)'
        /\ \A u \in Token : u # t => sym'[u] = sym[u]
        /\ t \in Token => sym'[t] = None
        /\ gpc'[g] \in {"destroy"} \cup DestroyPC
        /\ CleanHand(g)' /\ Swept(g)'
  <2>1. gpc'[g] \in SweepPC
    BY <1>8 DEF SweepPC, DestroyPC
  <2>2. gpc[g] # "mvunlink"
    BY <1>3 DEF MarkPC
  <2>3. CleanChange(g, {n}, t)
    BY <1>4, <1>5, <1>6, <1>8, <2>1, <2>2 DEF CleanChange
  <2> QED
    BY <1>1, <1>3, <2>3, CleanTidy
<1>9. CASE \E k \in Name : DestroyNext(g, k)
  <2>1. /\ gpc[g] = "destroy" /\ gpc'[g] = "dvlink" /\ cur'[g] = n
        /\ queue'[g] = queue[g] \ {n} /\ UNCHANGED <<vol, link, meta>>
        /\ sym' = IF t = None THEN sym ELSE [sym EXCEPT ![t] = None]
    BY <1>2, <1>4, <1>5, <1>9 DEF DestroyNext, RemoveVolumeSymlink
  <2>2. t \in Token => sym'[t] = None
    BY <1>2, <2>1, NoneAssumption
  <2>3. CleanHolds(g, n)'
    BY <2>1 DEF CleanHolds, DestroyPC
  <2>4. CleanHand(g)'
    BY <1>2, <1>5, <2>1, <2>2 DEF CleanHand, MarkPC, MovePC
  <2>5. Swept(g)'
    BY <1>7, <2>1 DEF Swept, MarkPC, DestroyPC, VolumeExists
  <2>6. \A u \in Token : u # t => sym'[u] = sym[u]
    BY <1>2, <2>1
  <2>7. gpc'[g] \in {"destroy"} \cup DestroyPC
    BY <2>1 DEF DestroyPC
  <2> QED
    BY <2>1, <2>2, <2>3, <2>4, <2>5, <2>6, <2>7
<1>10. CASE DestroyLinkFile(g)
  <2>1. /\ gpc[g] = "dvlink" /\ gpc'[g] = "dvmeta" /\ cur[g] = n /\ cur'[g] = n
        /\ queue'[g] = queue[g] /\ UNCHANGED <<vol, sym, meta>> /\ link' = [link EXCEPT ![n] = None]
    BY <1>2, <1>4, <1>10 DEF DestroyLinkFile, RemoveLinkFile, DestroyPC
  <2>2. t \in Token => sym[t] = None
    BY <1>5, <1>7, <2>1, NoneAssumption DEF CleanHand
  <2>3. CleanHolds(g, n)'
    BY <2>1 DEF CleanHolds, DestroyPC
  <2>4. CleanHand(g)'
    BY <1>2, <2>1 DEF CleanHand, MarkPC, MovePC
  <2>5. Swept(g)'
    BY <1>7, <2>1 DEF Swept, MarkPC, DestroyPC, VolumeExists
  <2>6. gpc'[g] \in {"destroy"} \cup DestroyPC
    BY <2>1 DEF DestroyPC
  <2> QED
    BY <1>2, <2>1, <2>2, <2>3, <2>4, <2>5, <2>6
<1>11. CASE DestroyMeta(g) \/ DestroyDirBegin(g)
  <2>1. /\ gpc[g] \in {"dvmeta", "dvdir"} /\ gpc'[g] = "dvdir" /\ cur[g] = n /\ cur'[g] = n
        /\ queue'[g] = queue[g] /\ UNCHANGED <<link, sym>>
        /\ \A k \in Name \ {n} : vol'[k] = vol[k] /\ (k \in meta' <=> k \in meta)
    BY <1>2, <1>4, <1>11 DEF DestroyMeta, DestroyDirBegin, RemoveVolumeMeta, RemoveVolumeDir,
       DestroyPC, cleanerVars
  <2>2. link[n] = None /\ t \notin Token
    BY <1>5, <1>7, <2>1, NoneAssumption DEF CleanHand
  <2>3. CleanHolds(g, n)'
    BY <2>1 DEF CleanHolds, DestroyPC
  <2>4. CleanHand(g)'
    BY <2>1, <2>2 DEF CleanHand, MarkPC, MovePC
  <2>5. Swept(g)'
    BY <1>7, <2>1 DEF Swept, MarkPC, DestroyPC, VolumeExists
  <2>6. gpc'[g] \in {"destroy"} \cup DestroyPC
    BY <2>1 DEF DestroyPC
  <2> QED
    BY <2>1, <2>2, <2>3, <2>4, <2>5, <2>6
<1>12. CASE DestroyDirEnd(g)
  <2>1. /\ gpc[g] = "dvdir" /\ gpc'[g] = "destroy" /\ cur[g] = n
        /\ queue'[g] = queue[g] /\ UNCHANGED <<link, sym, meta>> /\ vol' = [vol EXCEPT ![n] = "absent"]
    BY <1>2, <1>4, <1>12 DEF DestroyDirEnd, RemoveVolumeDir, DestroyPC
  <2>2. link[n] = None /\ t \notin Token
    BY <1>5, <1>7, <2>1, NoneAssumption DEF CleanHand
  <2>3. Settled(n)'
    BY <1>2, <1>6, <2>1, <2>2 DEF Settled, VolumeExists
  <2>4. CleanHand(g)'
    BY <2>1 DEF CleanHand, MarkPC, MovePC
  <2>5. Swept(g)'
    BY <1>2, <1>7, <2>1 DEF Swept, MarkPC, DestroyPC, VolumeExists
  <2> QED
    BY <1>2, <2>1, <2>2, <2>3, <2>4, <2>5
<1> QED
  BY <1>9, <1>10, <1>11, <1>12 DEF DestroyTouchesVolumes

\* The actions of a clean that change no volume.
CleanQuiet(g) ==
  \/ StartClean(g) \/ LockGC(g) \/ LockGCTimeout(g) \/ Measure(g) \/ LockGlobalExclusive(g)
  \/ LockGlobalTimeout(g) \/ LockGlobalLate(g) \/ ListVolumesAndImages(g)
  \/ (\E i \in Id : ReadDependencies(g, i) \/ ReadDependenciesError(g, i)) \/ DependenciesRead(g)
  \/ (\E n \in Name : MarkNext(g, n) /\ ~Movable(n)) \/ MarkDone(g) \/ UnlockGlobal(g)
  \/ GcVolumes(g) \/ CollectDone(g) \/ EndClean(g)

\* With the faults that hit a clean before it marks, or after it has destroyed.
CalmQuiet(g) ==
  \/ CleanQuiet(g) \/ UnusedVolumesFails(g)
  \/ gpc[g] \notin SweepPC /\ (CleaningTimeout(g) \/ KillClean(g))

\* A clean begins to mark when there is no marked volume, and is over when
\* there is none again.
LEMMA QuietSweep ==
  ASSUME NEW g \in Cleaners, Types, LockInv, MarkedInv, Clean(g), CalmQuiet(g)
  PROVE  /\ UNCHANGED volVars /\ MarkedInv'
         /\ gpc[g] \notin MarkPC \cup DestroyPC /\ gpc'[g] \notin MarkPC \cup DestroyPC
<1> USE DEF At, Goto
<1>1. \A h \in Cleaners \ {g} : gpc'[h] = gpc[h] /\ cur'[h] = cur[h] /\ queue'[h] = queue[h]
  BY CleanFrame
<1>2. gpc \in [Cleaners -> CleanerPC] /\ queue \in [Cleaners -> SUBSET Name]
  BY DEF Types, TypeOK, CleanerTypeOK
<1>3. UNCHANGED volVars
  BY DEF CalmQuiet, CleanQuiet, StartClean, LockGC, LockGCTimeout, Measure, LockGlobalExclusive,
     LockGlobalTimeout, LockGlobalLate, ListVolumesAndImages, ReadDependencies,
     ReadDependenciesError, DependenciesRead, MarkNext, MarkDone, UnlockGlobal, GcVolumes,
     CollectDone, EndClean, UnusedVolumesFails, CleaningTimeout, KillClean
<1>4. /\ gpc[g] \notin MarkPC \cup DestroyPC /\ gpc'[g] \notin MarkPC \cup DestroyPC
      /\ gpc'[g] = "mark" => gpc[g] \in {"list", "deps", "mark"}
      /\ gpc[g] \in SweepPC => gpc'[g] \in SweepPC \/ (gpc[g] = "destroy" /\ queue[g] = {})
      /\ gpc'[g] = "destroy" => queue'[g] = {n \in Volumes : n.gc}
  <2>1. CASE CleanQuiet(g)
    BY <1>2, <2>1 DEF CleanQuiet, StartClean, LockGC, LockGCTimeout, Measure, LockGlobalExclusive,
       LockGlobalTimeout, LockGlobalLate, ListVolumesAndImages, ReadDependencies,
       ReadDependenciesError, DependenciesRead, MarkNext, MarkDone, UnlockGlobal, GcVolumes,
       CollectDone, EndClean, ExitClean, MarkPC, DestroyPC, SweepPC
  <2>2. CASE UnusedVolumesFails(g)
    BY <1>2, <2>2 DEF UnusedVolumesFails, MarkPC, DestroyPC, SweepPC
  <2>3. CASE gpc[g] \notin SweepPC /\ (CleaningTimeout(g) \/ KillClean(g))
    BY <1>2, <2>3 DEF CleaningTimeout, KillClean, ExitClean, MarkPC, DestroyPC, SweepPC
  <2> QED
    BY <2>1, <2>2, <2>3 DEF CalmQuiet
<1>5. \A n \in Name : VolumeExists(n)' <=> VolumeExists(n)
  BY <1>3 DEF VolumeExists, volVars
<1>6. ASSUME NEW n \in Name, n.gc, VolumeExists(n)
      PROVE  \E h \in Cleaners : gpc'[h] \in SweepPC
  <2>1. PICK h \in Cleaners : gpc[h] \in SweepPC
    BY <1>6 DEF MarkedInv
  <2>2. ~(gpc[g] = "destroy" /\ queue[g] = {})
    BY <1>6 DEF MarkedInv, Swept, DestroyPC
  <2> QED
    BY <1>1, <1>4, <2>1, <2>2
<1>7. \A h \in Cleaners \ {g} : Swept(h)'
  BY <1>1, <1>5, GcNames DEF MarkedInv, Swept
<1>8. gpc'[g] = "mark" => \A n \in Name : ~n.gc /\ VolumeExists(n) => ~VolumeExists(GcName(n))
  <2>1. CASE gpc[g] = "mark"
    BY <2>1 DEF MarkedInv, Swept
  <2>2. CASE gpc[g] \in {"list", "deps"}
    <3>1. \A h \in Cleaners : gpc[h] \notin SweepPC
      BY <2>2, GcAlone DEF SweepPC
    <3> QED
      BY <3>1, GcNames DEF MarkedInv
  <2> QED
    BY <1>4, <2>1, <2>2
<1>9. Swept(g)'
  BY <1>4, <1>5, <1>8, GcNames DEF Swept, Volumes
<1> QED
  BY <1>3, <1>4, <1>5, <1>6, <1>7, <1>9 DEF MarkedInv

\* They keep the parts of the volumes together.
LEMMA CleanQuietTidy ==
  ASSUME NEW g \in Cleaners, Types, LockInv, TidyInv, Clean(g), CleanQuiet(g)
  PROVE  TidyInv'
<1>1. /\ UNCHANGED creatorVars
      /\ \A h \in Cleaners \ {g} : gpc'[h] = gpc[h] /\ cur'[h] = cur[h] /\ queue'[h] = queue[h]
  BY CleanFrame
<1>2. MarkedInv
  BY DEF TidyInv
<1>3. /\ UNCHANGED volVars /\ MarkedInv'
      /\ gpc[g] \notin MarkPC \cup DestroyPC /\ gpc'[g] \notin MarkPC \cup DestroyPC
  BY <1>2, QuietSweep DEF CalmQuiet
<1>4. UNCHANGED <<vol, link, sym, meta, cpc, job>>
  BY <1>1, <1>3 DEF volVars, creatorVars
<1>5. PartsInv'
  <2>1. \A n \in Name : Settled(n) => Settled(n)'
    BY <1>4 DEF Settled, VolumeExists
  <2>2. \A h \in Cleaners, n \in Name : CleanHolds(h, n) => CleanHolds(h, n)'
    BY <1>1, <1>3 DEF CleanHolds
  <2>3. \A q \in Creators, n \in Name : CreateHolds(q, n) => CreateHolds(q, n)'
    BY <1>4 DEF CreateHolds, TempVolume, Layer
  <2> QED
    BY <2>1, <2>2, <2>3 DEF TidyInv, PartsInv, Held
<1>6. SymInv'
  BY <1>1, <1>3, <1>4 DEF TidyInv, SymInv, MarkPC
<1>7. \A q \in Creators : CreateHand(q)'
  BY <1>4 DEF TidyInv, CreateHand, TempVolume, Layer
<1>8. \A h \in Cleaners : CleanHand(h)'
  <2>1. CleanHand(g)'
    BY <1>3 DEF CleanHand, MarkPC, MovePC, DestroyPC
  <2>2. \A h \in Cleaners \ {g} : CleanHand(h)'
    BY <1>1, <1>4 DEF TidyInv, CleanHand, VolumeExists
  <2> QED
    BY <2>1, <2>2
<1> QED
  BY <1>3, <1>5, <1>6, <1>7, <1>8 DEF TidyInv

\* Every step of a clean keeps the parts of the volumes together.
LEMMA CleanKeepsTidy ==
  ASSUME Faultless, NEW g \in Cleaners, Types, LockInv, LinkInv, TidyInv, Clean(g)
  PROVE  TidyInv'
<1>1. ~CleanFault(g)
  BY NoFaults
<1>2. \/ CleanQuiet(g) \/ DestroyTouchesVolumes(g)
      \/ MarkUnlink(g) \/ MarkSymlink(g) \/ MarkDir(g) \/ MarkMeta(g)
      \/ \E n \in Name : MarkNext(g, n) /\ Movable(n)
  BY <1>1 DEF Clean, CleanStep, CleanQuiet, DestroyTouchesVolumes
<1> QED
  BY <1>2, CleanQuietTidy, DestroyTidy, MarkTidy, MarkNextTidy

------------------------------------------------------------------------------

\* A step that changes neither volumes nor creates nor cleans.
LEMMA TidyFrame ==
  ASSUME TidyInv, UNCHANGED <<volVars, creatorVars, cleanerVars>>
  PROVE  TidyInv'
BY DEF TidyInv, PartsInv, SymInv, MarkedInv, Swept, Held, Settled, CreateHolds, CleanHolds, CreateHand,
   CleanHand, TempVolume, Layer, VolumeExists, volVars, creatorVars, cleanerVars

\* There is no volume in the initial state.
LEMMA InitTidy == Init => TidyInv
<1> SUFFICES ASSUME Init PROVE TidyInv
  OBVIOUS
<1>1. /\ vol = [n \in Name |-> "absent"] /\ link = [n \in Name |-> None]
      /\ sym = [t \in Token |-> None] /\ meta = {}
      /\ (\A p \in Creators : cpc[p] = "idle") /\ (\A g \in Cleaners : gpc[g] = "idle")
  BY DEF Init, VolInit, CreatorInit, CleanerInit
<1>2. PartsInv /\ SymInv
  BY <1>1 DEF PartsInv, SymInv, Settled, VolumeExists
<1>3. MarkedInv
  BY <1>1 DEF MarkedInv, Swept, VolumeExists, MarkPC, DestroyPC
<1>4. (\A p \in Creators : CreateHand(p)) /\ \A g \in Cleaners : CleanHand(g)
  BY <1>1 DEF CreateHand, CleanHand, MovePC, MarkPC
<1> QED
  BY <1>2, <1>3, <1>4 DEF TidyInv

\* Every step of any command keeps the parts of the volumes together.
LEMMA NextTidy ==
  ASSUME Faultless
  PROVE  Types /\ LockInv /\ VolumeInv /\ LinkInv /\ TidyInv /\ [Next]_vars => TidyInv'
<1> SUFFICES ASSUME Types, LockInv, VolumeInv, LinkInv, TidyInv, [Next]_vars
             PROVE  TidyInv'
  OBVIOUS
<1>1. CASE UNCHANGED vars
  BY <1>1, TidyFrame DEF vars
<1>2. CASE \E d \in Deleters : Delete(d)
  BY <1>2, DeleteFrame, TidyFrame
<1>3. CASE Rest
  BY <1>3, TidyFrame DEF Rest, vars
<1> QED
  BY <1>1, <1>2, <1>3, CreateKeepsTidy, CleanKeepsTidy DEF Next

\* Without faults the parts of the volumes are together at all times.
LEMMA AlwaysTidy ==
  ASSUME Faultless
  PROVE  Spec => [](Types /\ LockInv /\ VolumeInv /\ LinkInv /\ TidyInv)
<1>1. Types /\ LockInv /\ VolumeInv /\ LinkInv /\ TidyInv /\ [Next]_vars => TidyInv'
  BY NextTidy
<1> QED
  BY <1>1, InitTidy, AlwaysLinks, PTL DEF Spec

\* When no call fails, no process is killed and no clean is cut short, a store
\* at rest holds whole volumes only: directory, link file, symlink and, for a
\* published one, metadata are all there or none of them is.
THEOREM RestTidy ==
  ASSUME Faultless
  PROVE  Spec => []StoreAtRest
<1>1. TidyInv /\ Types => StoreAtRest
  <2> SUFFICES ASSUME TidyInv, Types, AllIdle
               PROVE  /\ \A n \in Name : VolumeExists(n) <=> link[n] # None
                      /\ \A n \in Name : VolumeExists(n) => sym[link[n]] = n
                      /\ \A t \in Token : sym[t] # None => link[sym[t]] = t
                      /\ \A c \in Chain : Final(c) \in meta <=> VolumeExists(Final(c))
    BY DEF StoreAtRest
  <2>1. (\A p \in Creators : cpc[p] = "idle") /\ (\A g \in Cleaners : gpc[g] = "idle")
    BY DEF AllIdle
  <2>2. \A n \in Name : ~Held(n)
    BY <2>1 DEF Held, CreateHolds, CleanHolds, MovePC, MarkPC, DestroyPC
  <2>3. \A n \in Name : Settled(n)
    BY <2>2 DEF TidyInv, PartsInv
  <2>4. \A t \in Token : sym[t] # None => link[sym[t]] = t
    BY <2>1 DEF TidyInv, SymInv
  <2>5. \A c \in Chain : Final(c) \in Name /\ Final(c) = Final(Final(c).chain)
    BY NameFacts
  <2> QED
    BY <2>3, <2>4, <2>5 DEF Settled
<1> QED
  BY <1>1, AlwaysTidy, PTL

------------------------------------------------------------------------------
(* Layers and the layers below them *)

\* A create makes at most one layer present, its own, and none absent.
LEMMA CreatePresent ==
  ASSUME NEW p \in Creators, Types, LockInv, VolumeInv, Create(p)
  PROVE  \/ Present' = Present
         \/ FinalizeDir(p) /\ Layer(p) \in Chain /\ Present' = Present \cup {Layer(p)}
<1>1. CASE UNCHANGED volVars
  BY <1>1 DEF Present, VolumeExists, volVars
<1>2. CASE CreateTouchesVolumes(p)
  <2>1. cpc[p] \in BuildPC \ {"reprobe"}
    BY <1>2, CreateFrame
  <2>2. Layer(p) \in Chain /\ vol[Final(Layer(p))] = "absent"
    BY <2>1, BuildFacts
  <2>3. \A c \in Chain : c # Layer(p) => vol'[Final(c)] = vol[Final(c)]
    <3>1. \A n \in Name : n.chain # Layer(p) => vol'[n] = vol[n]
      BY <1>2, CreateCalls
    <3> QED
      BY <3>1, NameFacts
  <2>4. FinalizeDir(p) \/ vol'[Final(Layer(p))] = "absent"
    BY <1>2, CreateCalls
  <2>5. CASE vol'[Final(Layer(p))] = "absent"
    BY <2>2, <2>3, <2>5 DEF Present, VolumeExists
  <2>6. CASE vol'[Final(Layer(p))] # "absent"
    BY <2>2, <2>3, <2>4, <2>6 DEF Present, VolumeExists
  <2> QED
    BY <2>5, <2>6
<1> QED
  BY <1>1, <1>2, CreateFrame

\* After its rename the layer of a create is present.
LEMMA FinalizePresent ==
  ASSUME NEW p \in Creators, Types, LockInv, VolumeInv, FinalizeDir(p)
  PROVE  Layer(p) \in Present'
<1>1. cpc[p] = "mvdir"
  BY DEF FinalizeDir
<1>2. /\ Layer(p) \in Chain /\ vol[Final(Layer(p))] = "absent" /\ Final(Layer(p)) # TempVolume(p)
      /\ Final(Layer(p)) \in Name
  BY <1>1, BuildFacts DEF BuildPC
<1>3. vol[TempVolume(p)] = "whole"
  BY <1>1 DEF VolumeInv, Download, Temporary, FilledPC
<1>4. vol' = [vol EXCEPT ![Final(Layer(p))] = vol[TempVolume(p)], ![TempVolume(p)] = "absent"]
  BY <1>2 DEF FinalizeDir, RenameVolumeDir, VolumeExists
<1>5. vol \in [Name -> {"absent", "partial", "whole"}]
  BY DEF Types, TypeOK, VolTypeOK
<1>6. vol'[Final(Layer(p))] = "whole"
  BY <1>2, <1>3, <1>4, <1>5
<1> QED
  BY <1>2, <1>6 DEF Present, VolumeExists

------------------------------------------------------------------------------
(* With faults, but for a clean that is sweeping *)

\* A create changes no directory with the gc. prefix.
LEMMA CreateGcApart ==
  ASSUME NEW p \in Creators, Types, LockInv, VolumeInv, CreateTouchesVolumes(p)
  PROVE  \A n \in Name : n.gc = TRUE => vol'[n] = vol[n]
<1> SUFFICES ASSUME NEW n \in Name, n.gc = TRUE
             PROVE  vol'[n] = vol[n]
  OBVIOUS
<1>1. cpc[p] \in BuildPC \ {"reprobe"}
  BY DEF CreateTouchesVolumes, StreamAndMkdir, CreateSymlink, CreateLinkFile, Unpack, DestroyVolumeSymlink,
     DestroyVolumeLinkFile, DestroyVolumeMeta, FinalizeMeta, FinalizeLinkFile, FinalizeUnlink,
     FinalizeSymlink, FinalizeDir, Step, BuildPC
<1>0. Layer(p) \in Chain /\ TempVolume(p).gc = FALSE
  BY <1>1, BuildFacts
<1>2. /\ TempVolume(p).gc = FALSE /\ Final(Layer(p)).gc = FALSE
      /\ \A t \in Token : Incomplete(Layer(p), t).gc = FALSE
      /\ vol \in [Name -> {"absent", "partial", "whole"}]
  BY <1>0, NameFacts DEF Types, TypeOK, VolTypeOK
<1>3. CASE StreamAndMkdir(p)
  <2>1. PICK t \in Token : MakeVolumeDir(Incomplete(Layer(p), t))
    BY <1>3 DEF StreamAndMkdir
  <2> QED
    BY <1>2, <2>1 DEF MakeVolumeDir
<1>4. CASE Unpack(p)
  BY <1>2, <1>4 DEF Unpack, FillVolume
<1>5. CASE FinalizeDir(p)
  BY <1>2, <1>5 DEF FinalizeDir, RenameVolumeDir
<1>6. CASE UNCHANGED vol
  BY <1>6
<1>7. \/ StreamAndMkdir(p) \/ Unpack(p) \/ FinalizeDir(p) \/ UNCHANGED vol
  BY DEF CreateTouchesVolumes, CreateSymlink, CreateLinkFile, DestroyVolumeSymlink,
     DestroyVolumeLinkFile, DestroyVolumeMeta, FinalizeMeta, FinalizeLinkFile, FinalizeUnlink,
     FinalizeSymlink, MakeSymlink, WriteLinkFile, RemoveVolumeSymlink, RemoveLinkFile,
     RemoveVolumeMeta, WriteVolumeMeta, MoveLinkFile, RemoveSymlink, volVars
<1> QED
  BY <1>3, <1>4, <1>5, <1>6, <1>7

\* The layer that a create renames to its chain id is usable at once.
LEMMA FinalizeUsable ==
  ASSUME NEW p \in Creators, Types, LockInv, VolumeInv, LinkInv, SoundInv, FinalizeDir(p),
         NEW c \in Chain, c = Layer(p)
  PROVE  Usable(Final(c))'
<1>0. PICK fv, tv, tok : fv = Final(c) /\ tv = TempVolume(p) /\ tok = job[p].token
  OBVIOUS
<1>1. cpc[p] = "mvdir" /\ UNCHANGED <<link, sym, meta>>
  BY DEF FinalizeDir, RenameVolumeDir
<1>2. fv \in Name /\ fv # tv /\ vol[fv] = "absent" /\ tok # None
  BY <1>0, <1>1, BuildFacts DEF BuildPC
<1>3. vol[tv] = "whole" /\ link[fv] = tok /\ sym[tok] = fv /\ fv \in meta
  BY <1>0, <1>1 DEF VolumeInv, Download, Temporary, FilledPC, Linked, Moving, LinkInv, ShortId, SoundInv, MovePC
<1>4. vol' = [vol EXCEPT ![fv] = vol[tv], ![tv] = "absent"]
  BY <1>0, <1>2 DEF FinalizeDir, RenameVolumeDir, VolumeExists
<1>5. vol \in [Name -> {"absent", "partial", "whole"}]
  BY DEF Types, TypeOK, VolTypeOK
<1>6. vol'[fv] = "whole" /\ link'[fv] = tok /\ sym'[tok] = fv /\ fv \in meta'
  BY <1>1, <1>2, <1>3, <1>4, <1>5
<1> QED
  BY <1>0, <1>2, <1>6 DEF Usable

\* Metadata stays with the layer a create is moving.
LEMMA OwnMeta ==
  ASSUME NEW p \in Creators, Types, SoundInv, Create(p), cpc'[p] \in {"mvlink"} \cup MovePC
  PROVE  Final(Layer(p))' \in meta'
<1> USE DEF Step, MovePC
<1>0. cpc \in [Creators -> CreatorPC] /\ job \in [Creators -> Job]
  BY DEF Types, TypeOK, CreatorTypeOK
<1>1. CASE FinalizeMeta(p)
  BY <1>1 DEF FinalizeMeta, WriteVolumeMeta, Layer
<1>2. CASE FinalizeLinkFile(p) \/ FinalizeUnlink(p) \/ FinalizeSymlink(p)
  <2>1. UNCHANGED <<job, meta>> /\ cpc[p] \in {"mvlink"} \cup MovePC
    BY <1>2 DEF FinalizeLinkFile, FinalizeUnlink, FinalizeSymlink, MoveLinkFile, RemoveSymlink,
       MakeSymlink, volVars
  <2> QED
    BY <2>1 DEF SoundInv, Layer
<1>3. CASE ProbeVolume(p) \/ ReprobeHit(p) \/ FinalizeDir(p)
  BY <1>0, <1>3 DEF ProbeVolume, ReprobeHit, FinalizeDir, LayerDone
<1>4. CASE \/ \E i \in Id, image \in Image : StartCreate(p, i, image)
           \/ LockGlobalShared(p) \/ LockChain(p) \/ ReprobeMiss(p)
           \/ StreamAndMkdir(p) \/ CreateSymlink(p) \/ CreateLinkFile(p) \/ Unpack(p)
           \/ DestroyVolumeSymlink(p) \/ DestroyVolumeLinkFile(p) \/ DestroyVolumeMeta(p)
           \/ UnpackFails(p) \/ PullFails(p) \/ FetchBaseImageInfoFails(p)
  BY <1>0, <1>4 DEF StartCreate, LockGlobalShared, LockChain, ReprobeMiss, StreamAndMkdir, CreateSymlink,
     CreateLinkFile, Unpack, DestroyVolumeSymlink, DestroyVolumeLinkFile, DestroyVolumeMeta,
     UnpackFails, PullFails, FetchBaseImageInfoFails, GiveUpPull
<1>5. CASE \/ MkdirImage(p) \/ MkdirImageExists(p) \/ CreateImage(p) \/ CreateImageNotReady(p)
           \/ CreateImageFails(p) \/ SetOwnership(p) \/ SetOwnershipFails(p)
           \/ RegisterOpen(p) \/ RegisterWrite(p) \/ RegisterFails(p) \/ UndoUnmount(p)
           \/ UndoRemove(p) \/ UndoFails(p) \/ EndCreate(p) \/ KillCreate(p)
  BY <1>0, <1>5 DEF MkdirImage, MkdirImageExists, CreateImage, CreateImageNotReady,
     CreateImageFails, SetOwnership, SetOwnershipFails, RegisterOpen, RegisterWrite, RegisterFails,
     UndoUnmount, UndoRemove, UndoFails, EndCreate, KillCreate
<1> QED
  BY <1>1, <1>2, <1>3, <1>4, <1>5 DEF Create, CreateStep, CreateFault

\* Every step of a create, failing and dying ones included, leaves the layers
\* that are present usable.
LEMMA CreateSound ==
  ASSUME NEW p \in Creators, Types, LockInv, VolumeInv, LinkInv, SoundInv, Create(p)
  PROVE  SoundInv'
<1>1. /\ UNCHANGED volVars \/ CreateTouchesVolumes(p)
      /\ CreateTouchesVolumes(p) => cpc[p] \in BuildPC \ {"reprobe"}
      /\ UNCHANGED <<gpc, queue, cur>>
      /\ \A q \in Creators \ {p} : cpc'[q] = cpc[q] /\ job'[q] = job[q]
  BY CreateFrame DEF cleanerVars
<1>2. ASSUME NEW g \in Cleaners, gpc[g] \in {"mark"} \cup MarkPC
      PROVE  UNCHANGED <<vol, link, sym, meta>>
  <2>1. Marking(g)
    BY <1>2 DEF Marking, MarkPC
  <2>2. ~Creating(p)
    BY <2>1, Exclusion
  <2>3. UNCHANGED volVars
    BY <1>1, <2>2 DEF Creating, BuildPC
  <2> QED
    BY <2>3 DEF volVars
<1>3. \A n \in Name : n.gc = TRUE => vol'[n] = vol[n]
  BY <1>1, CreateGcApart DEF volVars
<1>4. MarkedInv'
  <2>1. \A n \in Name : n.gc => (VolumeExists(n)' <=> VolumeExists(n))
    BY <1>3 DEF VolumeExists, Name
  <2>2. ASSUME NEW g \in Cleaners
        PROVE  Swept(g)'
    <3>1. Swept(g)
      BY DEF SoundInv, MarkedInv
    <3>2. gpc[g] \in {"mark"} \cup MarkPC => \A n \in Name : ~n.gc /\ VolumeExists(n)' => ~VolumeExists(GcName(n))'
      BY <1>2, <3>1 DEF Swept, VolumeExists
    <3> QED
      BY <1>1, <2>1, <3>1, <3>2 DEF Swept
  <2> QED
    BY <1>1, <2>1, <2>2 DEF SoundInv, MarkedInv
<1>5. \A g \in Cleaners : MarkHand(g)'
  <2> SUFFICES ASSUME NEW g \in Cleaners, gpc[g] \in MovePC
               PROVE  MarkHand(g)'
    BY <1>1 DEF MarkHand, MovePC
  <2>1. UNCHANGED <<vol, link, sym, meta>>
    BY <1>2 DEF MovePC, MarkPC
  <2> QED
    BY <1>1, <2>1 DEF SoundInv, MarkHand, VolumeExists
<1>6. ASSUME NEW c \in Present'
      PROVE  Usable(Final(c))' \/ \E g \in Cleaners : gpc'[g] \in MovePC /\ cur'[g] = Final(c)
  <2>1. c \in Chain
    BY <1>6 DEF Present
  <2>2. CASE c \in Present
    <3>1. CASE Usable(Final(c))
      BY <2>1, <3>1, CreateProtects
    <3>2. CASE ~Usable(Final(c))
      BY <1>1, <2>2, <3>2 DEF SoundInv
    <3> QED
      BY <3>1, <3>2
  <2>3. CASE c \notin Present
    <3>1. FinalizeDir(p) /\ c = Layer(p)
      BY <1>6, <2>3, CreatePresent
    <3> QED
      BY <2>1, <3>1, FinalizeUsable
  <2> QED
    BY <2>2, <2>3
<1>7. ASSUME NEW q \in Creators, cpc'[q] \in {"mvlink"} \cup MovePC
      PROVE  Final(Layer(q))' \in meta'
  <2>1. CASE q = p
    BY <1>7, <2>1, OwnMeta
  <2>2. CASE q # p
    <3>1. /\ cpc[q] \in {"mvlink"} \cup MovePC /\ Layer(q)' = Layer(q)
      BY <1>1, <1>7, <2>2 DEF Layer
    <3>2. cpc[q] \in BuildPC /\ cpc[q] \in PullPC /\ Final(Layer(q)) \in meta
      BY <3>1 DEF BuildPC, PullPC, MovePC, SoundInv
    <3>3. CASE UNCHANGED volVars
      BY <3>1, <3>2, <3>3 DEF volVars
    <3>4. CASE CreateTouchesVolumes(p)
      <4>1. Layer(q) # Layer(p)
        BY <1>1, <2>2, <3>2, <3>4, Exclusion
      <4>2. Final(Layer(q)) \in Name /\ Final(Layer(q)).chain = Layer(q)
        BY <3>2, NameFacts
      <4>3. Final(Layer(q)) \in meta'
        BY <3>2, <3>4, <4>1, <4>2, CreateCalls
      <4> QED
        BY <3>1, <4>3
    <3> QED
      BY <1>1, <3>3, <3>4
  <2> QED
    BY <2>1, <2>2
<1> QED
  BY <1>4, <1>5, <1>6, <1>7 DEF SoundInv

\* A clean that destroys loses sight of no marked volume ...
LEMMA DestroySwept ==
  ASSUME NEW g \in Cleaners, Types, Swept(g), DestroyTouchesVolumes(g)
  PROVE  /\ Swept(g)'
         /\ gpc[g] \in {"destroy"} \cup DestroyPC /\ gpc'[g] \in {"destroy"} \cup DestroyPC
<1> USE DEF At, Goto
<1>1. /\ vol \in [Name -> {"absent", "partial", "whole"}] /\ gpc \in [Cleaners -> CleanerPC]
      /\ cur \in [Cleaners -> Name \cup {None}] /\ queue \in [Cleaners -> SUBSET Name]
  BY DEF Types, TypeOK, VolTypeOK, CleanerTypeOK
<1>2. ASSUME NEW n \in Name, DestroyNext(g, n)
      PROVE  /\ gpc[g] = "destroy" /\ gpc'[g] = "dvlink" /\ UNCHANGED vol
             /\ queue'[g] = queue[g] \ {n} /\ cur'[g] = n
  BY <1>1, <1>2 DEF DestroyNext, RemoveVolumeSymlink
<1>3. CASE \E n \in Name : DestroyNext(g, n)
  BY <1>2, <1>3 DEF Swept, DestroyPC, MarkPC, VolumeExists
<1>4. CASE DestroyLinkFile(g) \/ DestroyMeta(g)
  <2>1. /\ gpc[g] \in {"dvlink", "dvmeta"} /\ gpc'[g] \in {"dvmeta", "dvdir"}
        /\ UNCHANGED <<vol, queue, cur>>
    BY <1>1, <1>4 DEF DestroyLinkFile, DestroyMeta, RemoveLinkFile, RemoveVolumeMeta
  <2> QED
    BY <2>1 DEF Swept, DestroyPC, MarkPC, VolumeExists
<1>5. CASE DestroyDirBegin(g)
  <2>1. gpc[g] = "dvdir" /\ UNCHANGED <<gpc, queue, cur>> /\ vol' = [vol EXCEPT ![cur[g]] = "partial"]
    BY <1>5 DEF DestroyDirBegin, RemoveVolumeDir, cleanerVars
  <2> QED
    BY <1>1, <2>1 DEF Swept, DestroyPC, MarkPC, VolumeExists
<1>6. CASE DestroyDirEnd(g)
  <2>1. /\ gpc[g] = "dvdir" /\ gpc'[g] = "destroy" /\ UNCHANGED queue
        /\ vol' = [vol EXCEPT ![cur[g]] = "absent"]
    BY <1>1, <1>6 DEF DestroyDirEnd, RemoveVolumeDir
  <2> QED
    BY <1>1, <2>1 DEF Swept, DestroyPC, MarkPC, VolumeExists
<1> QED
  BY <1>3, <1>4, <1>5, <1>6 DEF DestroyTouchesVolumes

\* ... and one that marks makes no volume of a name that is marked already.
LEMMA MarkSwept ==
  ASSUME NEW g \in Cleaners, Types, Swept(g), MarkTouchesVolumes(g)
  PROVE  /\ Swept(g)'
         /\ gpc[g] \in {"mark"} \cup MarkPC /\ gpc'[g] \in {"mark"} \cup MarkPC
<1> USE DEF At, Goto
<1>1. vol \in [Name -> {"absent", "partial", "whole"}] /\ gpc \in [Cleaners -> CleanerPC]
  BY DEF Types, TypeOK, VolTypeOK, CleanerTypeOK
<1>2. gpc[g] \in {"mark"} \cup MarkPC /\ gpc'[g] \in {"mark"} \cup MarkPC
  BY <1>1 DEF MarkTouchesVolumes, MarkNext, MarkUnlink, MarkSymlink, MarkDir, MarkMeta, MarkPC
<1>3. CASE ~MarkDir(g)
  <2>1. UNCHANGED vol
    BY <1>3 DEF MarkTouchesVolumes, MarkNext, MarkUnlink, MarkSymlink, MarkMeta, MoveLinkFile,
       RemoveSymlink, MakeSymlink, MoveVolumeMeta, volVars
  <2> QED
    BY <1>2, <2>1 DEF Swept, MarkPC, DestroyPC, VolumeExists
<1>4. CASE MarkDir(g)
  <2>0. PICK n, m : n = cur[g] /\ m = GcName(n)
    OBVIOUS
  <2>1. gpc[g] = "mvdir" /\ RenameVolumeDir(n, m)
    BY <1>4, <2>0 DEF MarkDir
  <2>2. n \in Name /\ n.gc = FALSE /\ m \in Name /\ m.gc = TRUE
    BY <2>0, <2>1, GcNames DEF Types, CleanNames, MarkPC
  <2>3. \A k \in Name : ~k.gc /\ VolumeExists(k)' => ~VolumeExists(GcName(k))'
    <3>1. CASE UNCHANGED vol
      BY <1>2, <3>1 DEF Swept, VolumeExists
    <3>2. CASE vol' = [vol EXCEPT ![m] = vol[n], ![n] = "absent"]
      <4> SUFFICES ASSUME NEW k \in Name, ~k.gc, VolumeExists(k)'
                   PROVE  ~VolumeExists(GcName(k))'
        OBVIOUS
      <4>1. vol'[n] = "absent" /\ \A l \in Name \ {n, m} : vol'[l] = vol[l]
        BY <1>1, <2>2, <3>2
      <4>2. k # n /\ k # m /\ k.gc = FALSE
        BY <2>2, <4>1 DEF VolumeExists, Name
      <4>3. GcName(k) \in Name \ {n, m}
        BY <2>0, <2>2, <4>2, GcNames
      <4>4. VolumeExists(k) /\ ~VolumeExists(GcName(k))
        BY <1>2, <4>1, <4>2 DEF Swept, VolumeExists
      <4> QED
        BY <4>1, <4>3, <4>4 DEF VolumeExists
    <3> QED
      BY <2>1, <3>1, <3>2 DEF RenameVolumeDir
  <2> QED
    BY <1>2, <2>3 DEF Swept, MarkPC, DestroyPC
<1> QED
  BY <1>2, <1>3, <1>4

\* What a clean can do, if nothing befalls it while it sweeps.
LEMMA CalmClean ==
  ASSUME NEW g \in Cleaners, Clean(g), gpc[g] \in SweepPC => ~CleanFault(g)
  PROVE  CalmQuiet(g) \/ DestroyTouchesVolumes(g) \/ MarkTouchesVolumes(g)
<1>1. CASE CleanFault(g)
  <2>1. gpc[g] \notin SweepPC
    BY <1>1
  <2> QED
    BY <1>1, <2>1 DEF CleanFault, CalmQuiet, SweepPC, MarkFails, GcVolumesFails, MarkNextFails,
       DestroyNextFails, DestroyMetaFails, DestroyFails, At
<1>2. CASE ~CleanFault(g)
  BY <1>2 DEF Clean, CleanStep, CalmQuiet, CleanQuiet, DestroyTouchesVolumes, MarkTouchesVolumes
<1> QED
  BY <1>1, <1>2

\* A marking clean knows the name its volume gets to be free, and finds the
\* short id of a layer where it left it.
LEMMA MarkHands ==
  ASSUME NEW g \in Cleaners, Types, LinkInv, SoundInv, MarkTouchesVolumes(g)
  PROVE  MarkHand(g)'
<1> USE DEF At, Goto
<1>1. /\ vol \in [Name -> {"absent", "partial", "whole"}] /\ link \in [Name -> Token \cup {None}]
      /\ gpc \in [Cleaners -> CleanerPC] /\ cur \in [Cleaners -> Name \cup {None}]
  BY DEF Types, TypeOK, VolTypeOK, CleanerTypeOK
<1>2. MarkHand(g) /\ Swept(g)
  BY DEF SoundInv, MarkedInv
<1>3. ASSUME NEW n \in Name, MarkNext(g, n)
      PROVE  MarkHand(g)'
  <2>1. CASE ~Movable(n)
    BY <1>1, <1>3, <2>1 DEF MarkNext, MarkHand, MovePC
  <2>2. CASE Movable(n)
    <3>1. PICK m : m = GcName(n)
      OBVIOUS
    <3>2. /\ gpc[g] = "mark" /\ n \in queue[g] /\ gpc'[g] = "mvunlink" /\ cur'[g] = n /\ UNCHANGED <<vol, sym>>
          /\ link' = [link EXCEPT ![m] = link[n], ![n] = None]
      BY <1>1, <1>3, <2>2, <3>1 DEF MarkNext, MoveLinkFile
    <3>3. n.gc = FALSE /\ m \in Name /\ m.gc = TRUE /\ m # n
      BY <3>1, <3>2, GcNames DEF Types, CleanNames
    <3>4. ~VolumeExists(m) /\ link'[m] = link[n]
      BY <1>1, <1>2, <2>2, <3>1, <3>2, <3>3 DEF Swept, Movable
    <3>5. n = Final(n.chain) => sym[link[n]] = n
      <4>1. n.chain \in Chain
        BY DEF Name
      <4> QED
        BY <2>2, <4>1 DEF LinkInv, Reached, Movable
    <3> QED
      BY <3>1, <3>2, <3>4, <3>5 DEF MarkHand, VolumeExists
  <2> QED
    BY <2>1, <2>2
<1>4. CASE MarkUnlink(g) \/ MarkSymlink(g)
  <2>1. /\ gpc[g] \in MovePC /\ UNCHANGED vol
        /\ \/ gpc'[g] = "mark"
           \/ gpc'[g] \in {"mvsymlink", "mvdir"} /\ cur'[g] = cur[g]
    BY <1>1, <1>4 DEF MarkUnlink, MarkSymlink, RemoveSymlink, MakeSymlink, volVars, MovePC
  <2> QED
    BY <1>2, <2>1 DEF MarkHand, MovePC, VolumeExists
<1>5. CASE MarkDir(g) \/ MarkMeta(g)
  BY <1>1, <1>5 DEF MarkDir, MarkMeta, MarkHand, MovePC
<1> QED
  BY <1>3, <1>4, <1>5 DEF MarkTouchesVolumes

\* A layer that a clean marks is usable, in hand, or gone.
LEMMA MarkUsable ==
  ASSUME NEW g \in Cleaners, Types, LockInv, LinkInv, SoundInv, Clean(g), MarkTouchesVolumes(g),
         NEW c \in Present'
  PROVE  Usable(Final(c))' \/ (gpc'[g] \in MovePC /\ cur'[g] = Final(c))
<1> USE DEF At, Goto
<1>0. PICK f : f = Final(c)
  OBVIOUS
<1>1. c \in Chain /\ f \in Name /\ f.gc = FALSE /\ f = Final(f.chain) /\ f # None /\ vol'[f] # "absent"
  BY <1>0, NameFacts, NoneIsNoName DEF Present, VolumeExists
<1>2. /\ vol \in [Name -> {"absent", "partial", "whole"}]
      /\ gpc \in [Cleaners -> CleanerPC] /\ cur \in [Cleaners -> Name \cup {None}]
  BY DEF Types, TypeOK, VolTypeOK, CleanerTypeOK
<1>3. Marking(g)
  BY MarkTouches
<1>4. \A h \in Cleaners \ {g} : gpc[h] \notin MovePC
  BY <1>3, MarkAlone DEF MovePC
<1>5. VolumeExists(f) => Usable(f) \/ (gpc[g] \in MovePC /\ cur[g] = f)
  BY <1>0, <1>1, <1>4 DEF SoundInv, Present
<1>6. CASE ~MarkTarget(g, f)
  <2>1. VolumeExists(f)
    <3>1. PICK n \in Name : /\ MarkTarget(g, n) /\ n.gc = FALSE
                            /\ \A m \in Name : m.gc = FALSE /\ m # n => Untouched(m)
      BY MarkTouches
    <3>2. Untouched(f)
      BY <1>1, <1>6, <3>1
    <3> QED
      BY <1>1, <3>2 DEF Untouched, VolumeExists
  <2>2. Usable(f)
    BY <1>5, <1>6, <2>1 DEF MarkTarget, MovePC, MarkPC
  <2> QED
    BY <1>0, <1>1, <1>6, <2>2, CleanProtects
<1>7. ASSUME MarkTarget(g, f), NEW n \in Name, MarkNext(g, n)
      PROVE  Usable(Final(c))' \/ (gpc'[g] \in MovePC /\ cur'[g] = Final(c))
  <2>1. gpc[g] = "mark" /\ UNCHANGED vol
    BY <1>7 DEF MarkNext, MoveLinkFile, volVars
  <2>2. Usable(f)
    BY <1>1, <1>5, <2>1 DEF VolumeExists, MovePC
  <2>3. CASE n = f
    <3>1. Movable(n)
      BY <2>2, <2>3 DEF Usable, Movable, VolumeExists
    <3> QED
      BY <1>0, <1>2, <1>7, <2>3, <3>1 DEF MarkNext, MovePC
  <2>4. CASE n # f
    <3>1. PICK k \in Name : /\ MarkTarget(g, k) /\ k.gc = FALSE
                            /\ \A m \in Name : m.gc = FALSE /\ m # k => Untouched(m)
                            /\ gpc'[g] \in MarkPC => cur'[g] = k
      BY MarkTouches
    <3>2. CASE Movable(n)
      <4>1. gpc'[g] \in MarkPC /\ cur'[g] = n
        BY <1>2, <1>7, <3>2 DEF MarkNext, MarkPC
      <4>2. Untouched(f)
        BY <1>1, <2>4, <3>1, <4>1
      <4> QED
        BY <1>0, <2>2, <4>2, UntouchedUsable
    <3>3. CASE ~Movable(n)
      <4>1. UNCHANGED volVars
        BY <1>7, <3>3 DEF MarkNext
      <4> QED
        BY <1>0, <2>2, <4>1, QuietTouches, UntouchedUsable
    <3> QED
      BY <3>2, <3>3
  <2> QED
    BY <2>3, <2>4
<1>8. ASSUME MarkTarget(g, f), MarkUnlink(g) \/ MarkSymlink(g) \/ MarkDir(g) \/ MarkMeta(g)
      PROVE  Usable(Final(c))' \/ (gpc'[g] \in MovePC /\ cur'[g] = Final(c))
  <2>1. gpc[g] \in MarkPC /\ cur[g] = f
    BY <1>8 DEF MarkTarget, MarkUnlink, MarkSymlink, MarkDir, MarkMeta, MarkPC
  <2>2. link[f] = None /\ ~Usable(f)
    BY <2>1 DEF LinkInv, InHandUnlinked, Usable
  <2>3. CASE MarkUnlink(g)
    <3>1. gpc[g] = "mvunlink" /\ sym[link[GcName(f)]] = f
      BY <1>1, <2>1, <2>3 DEF MarkUnlink, SoundInv, MarkHand
    <3> QED
      BY <1>0, <1>1, <1>2, <2>1, <2>3, <3>1 DEF MarkUnlink, MovePC
  <2>4. CASE MarkSymlink(g)
    BY <1>0, <1>2, <2>1, <2>4 DEF MarkSymlink, MovePC
  <2>5. CASE MarkDir(g)
    <3>1. gpc[g] = "mvdir" /\ RenameVolumeDir(f, GcName(f))
      BY <2>1, <2>5 DEF MarkDir
    <3>2. ~VolumeExists(GcName(f)) /\ GcName(f) \in Name /\ GcName(f).gc = TRUE
      BY <1>1, <2>1, <3>1, GcNames DEF SoundInv, MarkHand, MovePC
    <3>3. vol' = [vol EXCEPT ![GcName(f)] = vol[f], ![f] = "absent"]
      BY <3>1, <3>2 DEF RenameVolumeDir
    <3> QED
      BY <1>1, <1>2, <3>2, <3>3
  <2>6. CASE MarkMeta(g)
    <3>1. gpc[g] = "mvmeta" /\ UNCHANGED vol
      BY <2>6 DEF MarkMeta, MoveVolumeMeta
    <3> QED
      BY <1>1, <1>5, <2>2, <3>1 DEF VolumeExists, MovePC
  <2> QED
    BY <1>8, <2>3, <2>4, <2>5, <2>6
<1> QED
  BY <1>6, <1>7, <1>8 DEF MarkTouchesVolumes

\* While a clean sweeps, the others wait for the gc lock.
LEMMA SweepMarked ==
  ASSUME NEW g \in Cleaners, Types, LockInv, MarkedInv, Clean(g), gpc[g] \in SweepPC,
         gpc'[g] \in SweepPC, Swept(g)'
  PROVE  MarkedInv'
<1>1. \A h \in Cleaners \ {g} : gpc'[h] = gpc[h]
  BY CleanFrame
<1>2. \A h \in Cleaners \ {g} : gpc[h] \in {"idle", "gclock"}
  BY GcAlone DEF SweepPC
<1>3. \A h \in Cleaners \ {g} : Swept(h)'
  BY <1>1, <1>2 DEF Swept, MarkPC, DestroyPC
<1> QED
  BY <1>3 DEF MarkedInv

\* Every step of a clean leaves the layers that are present usable, if nothing
\* befalls it while it sweeps.
LEMMA CleanSound ==
  ASSUME NEW g \in Cleaners, Types, LockInv, VolumeInv, LinkInv, SoundInv, Clean(g),
         gpc[g] \in SweepPC => ~CleanFault(g)
  PROVE  SoundInv'
<1>1. /\ UNCHANGED <<cpc, job>>
      /\ \A h \in Cleaners \ {g} : gpc'[h] = gpc[h] /\ cur'[h] = cur[h] /\ queue'[h] = queue[h]
  BY CleanFrame DEF creatorVars
<1>2. MarkedInv /\ Swept(g)
  BY DEF SoundInv, MarkedInv
<1>3. CalmQuiet(g) \/ DestroyTouchesVolumes(g) \/ MarkTouchesVolumes(g)
  BY CalmClean
<1>4. /\ CalmQuiet(g) => /\ UNCHANGED volVars /\ MarkedInv'
                         /\ gpc[g] \notin MarkPC \cup DestroyPC /\ gpc'[g] \notin MarkPC \cup DestroyPC
      /\ DestroyTouchesVolumes(g) =>
           /\ Swept(g)' /\ gpc[g] \in {"destroy"} \cup DestroyPC /\ gpc'[g] \in {"destroy"} \cup DestroyPC
      /\ MarkTouchesVolumes(g) =>
           /\ Swept(g)' /\ gpc[g] \in {"mark"} \cup MarkPC /\ gpc'[g] \in {"mark"} \cup MarkPC
  BY <1>2, QuietSweep, DestroySwept, MarkSwept
<1>5. MarkedInv'
  BY <1>2, <1>3, <1>4, SweepMarked DEF SweepPC, MarkPC, DestroyPC
<1>6. ASSUME NEW h \in Cleaners PROVE MarkHand(h)'
  <2>1. CASE h = g
    BY <1>3, <1>4, <2>1, MarkHands DEF MarkHand, MovePC, MarkPC, DestroyPC
  <2>2. CASE h # g /\ gpc[h] \in MovePC
    <3>1. gpc[g] \in {"idle", "gclock"}
      BY <2>2, GcAlone DEF MovePC
    <3>2. UNCHANGED <<vol, link, sym, meta>>
      BY <1>3, <1>4, <3>1 DEF MarkPC, DestroyPC, volVars
    <3> QED
      BY <1>1, <2>2, <3>2 DEF SoundInv, MarkHand, VolumeExists
  <2>3. CASE h # g /\ gpc[h] \notin MovePC
    BY <1>1, <2>3 DEF MarkHand, MovePC
  <2> QED
    BY <2>1, <2>2, <2>3
<1>7. ASSUME ~MarkTouchesVolumes(g), NEW n \in Name, n.gc = FALSE PROVE Untouched(n)
  BY <1>3, <1>4, <1>7, QuietTouches, DestroyTouches
<1>8. ASSUME NEW c \in Present'
      PROVE  Usable(Final(c))' \/ \E h \in Cleaners : gpc'[h] \in MovePC /\ cur'[h] = Final(c)
  <2>1. CASE MarkTouchesVolumes(g)
    BY <2>1, MarkUsable
  <2>2. CASE ~MarkTouchesVolumes(g)
    <3>1. c \in Chain /\ Final(c) \in Name /\ Final(c).gc = FALSE
      BY NameFacts DEF Present
    <3>2. (Usable(Final(c))' <=> Usable(Final(c))) /\ (VolumeExists(Final(c))' <=> VolumeExists(Final(c)))
      BY <1>7, <2>2, <3>1, UntouchedUsable
    <3>3. c \in Present
      BY <3>1, <3>2 DEF Present
    <3>4. gpc[g] \notin MovePC
      BY <1>3, <1>4, <2>2 DEF MovePC, MarkPC, DestroyPC
    <3> QED
      BY <1>1, <3>2, <3>3, <3>4 DEF SoundInv
  <2> QED
    BY <2>1, <2>2
<1>9. ASSUME NEW p \in Creators, cpc'[p] \in {"mvlink"} \cup MovePC
      PROVE  Final(Layer(p))' \in meta'
  <2>1. cpc[p] \in {"mvlink"} \cup MovePC /\ Layer(p)' = Layer(p)
    BY <1>1, <1>9 DEF Layer
  <2>2. Final(Layer(p)) \in meta /\ Creating(p) /\ cpc[p] \in PullPC
    BY <2>1 DEF SoundInv, Creating, PullPC, BuildPC, MovePC
  <2>3. ~MarkTouchesVolumes(g)
    BY <2>2, Exclusion, MarkTouches
  <2>4. Final(Layer(p)) \in Name /\ Final(Layer(p)).gc = FALSE
    BY <2>2, NameFacts
  <2> QED
    BY <1>7, <2>1, <2>2, <2>3, <2>4 DEF Untouched
<1> QED
  BY <1>5, <1>6, <1>8, <1>9 DEF SoundInv

\* A step that changes neither volumes nor creates nor cleans.
LEMMA SoundFrame ==
  ASSUME SoundInv, UNCHANGED <<volVars, creatorVars, cleanerVars>>
  PROVE  SoundInv'
BY DEF SoundInv, MarkedInv, Swept, MarkHand, Present, Usable, Layer, VolumeExists, volVars, creatorVars,
   cleanerVars

\* There is no layer in the initial state.
LEMMA InitSound == Init => SoundInv
<1> SUFFICES ASSUME Init PROVE SoundInv
  OBVIOUS
<1>1. /\ vol = [n \in Name |-> "absent"]
      /\ (\A p \in Creators : cpc[p] = "idle") /\ (\A g \in Cleaners : gpc[g] = "idle")
  BY DEF Init, VolInit, CreatorInit, CleanerInit
<1>2. MarkedInv
  BY <1>1 DEF MarkedInv, Swept, VolumeExists, MarkPC, DestroyPC
<1>3. Present = {}
  BY <1>1 DEF Present, VolumeExists, Final, Name
<1> QED
  BY <1>1, <1>2, <1>3 DEF SoundInv, MarkHand, MovePC

\* Every step of any command leaves the layers that are present usable, if
\* nothing befalls a clean while it sweeps.
LEMMA NextSound ==
  Types /\ LockInv /\ VolumeInv /\ LinkInv /\ SoundInv /\ [CalmNext]_vars => SoundInv'
<1> SUFFICES ASSUME Types, LockInv, VolumeInv, LinkInv, SoundInv, [CalmNext]_vars
             PROVE  SoundInv'
  OBVIOUS
<1>1. CASE UNCHANGED vars
  BY <1>1, SoundFrame DEF vars
<1>2. CASE \E d \in Deleters : Delete(d)
  BY <1>2, DeleteFrame, SoundFrame
<1>3. CASE Rest
  BY <1>3, SoundFrame DEF Rest, vars
<1> QED
  BY <1>1, <1>2, <1>3, CreateSound, CleanSound DEF CalmNext, Next

\* They are usable, or in the hands of a clean, at all times.
LEMMA AlwaysSound == CalmSpec => [](Types /\ LockInv /\ VolumeInv /\ LinkInv /\ SoundInv)
<1>1. [CalmNext]_vars => [Next]_vars
  BY DEF CalmNext
<1>2. CalmSpec => Spec
  BY <1>1, PTL DEF CalmSpec, Spec
<1> QED
  BY <1>2, InitSound, NextSound, AlwaysLinks, PTL DEF CalmSpec

\* A chain id stands for the layers below it: in a closed set they are there
\* with the layer at buildLayer's index.
LEMMA BelowIn ==
  ASSUME NEW p \in Creators, Types, Creating(p), NEW S, Closed(S), Layer(p) \in S
  PROVE  \A k \in 1 .. job[p].index : job[p].image[k] \in S
<1>1. job[p].image \in Image /\ job[p].index \in 1 .. Len(job[p].image)
  BY DEF Types, TypeOK, CreatorTypeOK, Job, IndexOK
<1>2. Len(job[p].image) \in Nat
  BY <1>1, ImageTypes
<1> QED
  BY <1>1, <1>2 DEF Closed, Layer

\* A closed set of layers stays closed with a layer whose lower ones it has.
LEMMA ClosedWith ==
  ASSUME NEW S, NEW S2, NEW s \in Image, NEW j \in 1 .. Len(s), Closed(S), S2 = S \cup {s[j]},
         \A k \in 1 .. j - 1 : s[k] \in S
  PROVE  Closed(S2)
<1> SUFFICES ASSUME NEW r \in Image, NEW a \in 1 .. Len(r), NEW b \in 1 .. Len(r), a < b, r[b] \in S2
             PROVE  r[a] \in S2
  BY DEF Closed
<1>0. /\ Len(s) \in Nat /\ Len(r) \in Nat /\ DOMAIN r = 1 .. Len(r) /\ DOMAIN s = 1 .. Len(s)
  BY ImageTypes
<1>1. CASE r[b] \in S
  BY <1>1 DEF Closed
<1>2. CASE r[b] = s[j]
  <2>1. b = j /\ \A k \in 1 .. b : r[k] = s[k]
    BY <1>0, <1>2, ImageAssumption
  <2>2. r[a] = s[a] /\ a \in 1 .. j - 1
    BY <1>0, <2>1
  <2> QED
    BY <2>2
<1> QED
  BY <1>1, <1>2

\* The step of a create that changes buildLayer's index upwards, or leaves it.
BuildLayerReturns(p) == LayerDone(p) /\ (ProbeVolume(p) \/ ReprobeHit(p) \/ FinalizeDir(p))

\* The other steps: what is below was below before.
LEMMA CreateBelow ==
  ASSUME NEW p \in Creators, Types, Create(p), ~BuildLayerReturns(p)
  PROVE  /\ cpc'[p] \in BuildPC \ {"reprobe"} =>
              /\ cpc[p] \in BuildPC \ {"reprobe"} \/ job[p].index = 1
              /\ job'[p].index = job[p].index /\ job'[p].image = job[p].image
         /\ cpc'[p] \in {"mkimage", "build"} => cpc[p] \in {"mkimage", "build"} /\ UNCHANGED job
<1> USE DEF Step, BuildPC
<1>0. /\ cpc \in [Creators -> CreatorPC] /\ job \in [Creators -> Job]
      /\ job[p].index \in Nat /\ (Creating(p) => job[p].index \in 1 .. Len(job[p].image))
  BY DEF Types, TypeOK, CreatorTypeOK, Job, IndexOK
<1>1. CASE \E i \in Id, image \in Image : StartCreate(p, i, image)
  BY <1>0, <1>1 DEF StartCreate
<1>2. CASE LockGlobalShared(p) \/ LockChain(p)
  BY <1>0, <1>2 DEF LockGlobalShared, LockChain
<1>3. CASE ProbeVolume(p)
  <2>1. cpc' = [cpc EXCEPT ![p] = "clock"]
    BY <1>3 DEF ProbeVolume, BuildLayerReturns
  <2> QED
    BY <1>0, <2>1
<1>4. CASE ReprobeHit(p) \/ FinalizeDir(p)
  BY <1>4 DEF ReprobeHit, FinalizeDir, BuildLayerReturns
<1>5. CASE ReprobeMiss(p)
  <2>1. Creating(p)
    BY <1>5 DEF ReprobeMiss, Creating
  <2> QED
    BY <1>0, <1>5, <2>1 DEF ReprobeMiss
<1>6. CASE StreamAndMkdir(p)
  <2>1. cpc[p] = "stream" /\ \E t \in Token : job' = [job EXCEPT ![p].token = t]
    BY <1>6 DEF StreamAndMkdir
  <2>2. job'[p].index = job[p].index /\ job'[p].image = job[p].image
    BY <1>0, <2>1 DEF Job
  <2>3. cpc'[p] = "symlink"
    BY <1>0, <1>6 DEF StreamAndMkdir
  <2> QED
    BY <2>1, <2>2, <2>3
<1>7. CASE \/ CreateSymlink(p) \/ CreateLinkFile(p) \/ Unpack(p) \/ FinalizeMeta(p)
           \/ FinalizeSymlink(p) \/ DestroyVolumeSymlink(p) \/ DestroyVolumeLinkFile(p) \/ UnpackFails(p)
  BY <1>0, <1>7 DEF CreateSymlink, CreateLinkFile, Unpack, FinalizeMeta, FinalizeSymlink,
     DestroyVolumeSymlink, DestroyVolumeLinkFile, UnpackFails
<1>8. CASE FinalizeLinkFile(p) \/ FinalizeUnlink(p)
  BY <1>0, <1>8 DEF FinalizeLinkFile, FinalizeUnlink, GiveUpPull
<1>9. CASE DestroyVolumeMeta(p) \/ PullFails(p)
  BY <1>0, <1>9 DEF DestroyVolumeMeta, PullFails, GiveUpPull
<1>10. CASE \/ MkdirImage(p) \/ MkdirImageExists(p) \/ CreateImage(p) \/ CreateImageNotReady(p)
            \/ CreateImageFails(p) \/ SetOwnership(p) \/ SetOwnershipFails(p)
  BY <1>0, <1>10 DEF MkdirImage, MkdirImageExists, CreateImage, CreateImageNotReady,
     CreateImageFails, SetOwnership, SetOwnershipFails
<1>11. CASE \/ RegisterOpen(p) \/ RegisterWrite(p) \/ RegisterFails(p) \/ UndoUnmount(p)
            \/ UndoRemove(p) \/ UndoFails(p)
  BY <1>0, <1>11 DEF RegisterOpen, RegisterWrite, RegisterFails, UndoUnmount, UndoRemove, UndoFails
<1>12. CASE EndCreate(p) \/ KillCreate(p) \/ FetchBaseImageInfoFails(p)
  BY <1>0, <1>12 DEF EndCreate, KillCreate, FetchBaseImageInfoFails
<1> QED
  BY <1>1, <1>2, <1>3, <1>4, <1>5, <1>6, <1>7, <1>8, <1>9, <1>10, <1>11, <1>12
     DEF Create, CreateStep, CreateFault

\* Every step of a create keeps the layers below the present ones present.
LEMMA CreateParents ==
  ASSUME NEW p \in Creators, Types, LockInv, VolumeInv, ParentInv, Create(p)
  PROVE  ParentInv'
<1>1. /\ UNCHANGED volVars \/ CreateTouchesVolumes(p)
      /\ CreateTouchesVolumes(p) => Creating(p)
      /\ UNCHANGED <<gpc, queue, cur>>
      /\ \A q \in Creators \ {p} : cpc'[q] = cpc[q] /\ job'[q] = job[q]
  BY CreateFrame DEF cleanerVars, Creating, BuildPC
<1>2. \/ Present' = Present
      \/ FinalizeDir(p) /\ Layer(p) \in Chain /\ Present' = Present \cup {Layer(p)}
  BY CreatePresent
<1>3. job[p].image \in Image /\ (Creating(p) => job[p].index \in 1 .. Len(job[p].image))
  BY DEF Types, TypeOK, CreatorTypeOK, Job, IndexOK
<1>4. (\A g \in Cleaners : gpc[g] \notin {"mark"} \cup MarkPC) => Closed(Present')
  <2> SUFFICES ASSUME \A g \in Cleaners : gpc[g] \notin {"mark"} \cup MarkPC
               PROVE  Closed(Present')
    OBVIOUS
  <2>1. Closed(Present)
    BY DEF ParentInv
  <2>2. CASE Present' = Present
    BY <2>1, <2>2
  <2>3. CASE FinalizeDir(p) /\ Present' = Present \cup {Layer(p)}
    <3>1. cpc[p] = "mvdir" /\ Creating(p)
      BY <2>3 DEF FinalizeDir, Creating
    <3>2. \A k \in 1 .. job[p].index - 1 : job[p].image[k] \in Present
      BY <3>1 DEF ParentInv, Below, BuildPC
    <3>3. Present' = Present \cup {job[p].image[job[p].index]}
      BY <2>3 DEF Layer
    <3> QED
      BY <1>3, <2>1, <3>1, <3>2, <3>3, ClosedWith
  <2> QED
    BY <1>2, <2>2, <2>3
<1>5. \A g \in Cleaners : gpc[g] \in {"deps", "mark"} \cup MarkPC => Closed(Kept(g))'
  <2>1. CASE Creating(p)
    <3>1. \A g \in Cleaners : gpc[g] \notin {"deps", "mark"} \cup MarkPC
      BY <2>1, Exclusion DEF Marking, MarkPC
    <3> QED
      BY <3>1
  <2>2. CASE ~Creating(p)
    <3>1. UNCHANGED vol
      BY <1>1, <2>2 DEF volVars
    <3>2. \A g \in Cleaners : Kept(g)' = Kept(g)
      BY <1>1, <3>1 DEF Kept, Present, VolumeExists
    <3> QED
      BY <3>2 DEF ParentInv, Closed
  <2> QED
    BY <2>1, <2>2
<1>6. \A q \in Creators \ {p} : Below(q)'
  <2>1. Present \subseteq Present'
    BY <1>2
  <2> QED
    BY <1>1, <2>1 DEF ParentInv, Below
<1>7. Below(p)'
  <2>1. CASE BuildLayerReturns(p)
    <3>1. Creating(p) /\ Layer(p) \in Chain
      BY <2>1, KeyFacts DEF BuildLayerReturns, ProbeVolume, ReprobeHit, FinalizeDir, Creating
    <3>2. Closed(Present')
      BY <1>4, <3>1, Exclusion DEF Marking, MarkPC
    <3>3. Layer(p) \in Present'
      <4>1. CASE FinalizeDir(p)
        BY <4>1, FinalizePresent
      <4>2. CASE ProbeVolume(p)
        <5>1. cpc[p] = "probe" /\ UNCHANGED volVars
          BY <4>2 DEF ProbeVolume
        <5>2. VolumeExists(Final(Layer(p)))
          <6>1. SUFFICES ASSUME ~VolumeExists(Final(Layer(p))) PROVE FALSE
            OBVIOUS
          <6>2. cpc'[p] = "clock"
            BY <4>2, <6>1 DEF ProbeVolume, Types, TypeOK, CreatorTypeOK
          <6>3. cpc'[p] \in {"mkimage", "stream"}
            BY <2>1 DEF BuildLayerReturns, LayerDone, Types, TypeOK, CreatorTypeOK
          <6> QED
            BY <6>2, <6>3
        <5> QED
          BY <3>1, <5>1, <5>2 DEF Present, VolumeExists, volVars
      <4>3. CASE ReprobeHit(p)
        BY <3>1, <4>3 DEF ReprobeHit, Present, VolumeExists, volVars
      <4> QED
        BY <2>1, <4>1, <4>2, <4>3 DEF BuildLayerReturns
    <3>4. \A k \in 1 .. job[p].index : job[p].image[k] \in Present'
      BY <3>1, <3>2, <3>3, BelowIn
    <3>5. LayerDone(p) /\ job \in [Creators -> Job] /\ cpc \in [Creators -> CreatorPC]
      BY <2>1 DEF BuildLayerReturns, Types, TypeOK, CreatorTypeOK
    <3>6. job[p].index \in Nat /\ Len(job[p].image) \in Nat /\ DOMAIN job[p].image = 1 .. Len(job[p].image)
      BY <1>3, <3>1, ImageTypes
    <3>7. CASE job[p].index = Len(job[p].image)
      <4>1. cpc'[p] = "mkimage" /\ UNCHANGED job
        BY <3>5, <3>7 DEF LayerDone
      <4>2. Layers(job[p].image) \subseteq Present'
        BY <3>4, <3>6, <3>7 DEF Layers
      <4> QED
        BY <4>1, <4>2 DEF Below, BuildPC
    <3>8. CASE job[p].index # Len(job[p].image)
      <4>1. cpc'[p] = "stream" /\ job'[p].index = job[p].index + 1 /\ job'[p].image = job[p].image
        BY <3>5, <3>8 DEF LayerDone, Job
      <4>2. \A k \in 1 .. job'[p].index - 1 : job'[p].image[k] \in Present'
        BY <3>4, <3>6, <4>1
      <4> QED
        BY <4>1, <4>2 DEF Below, BuildPC
    <3> QED
      BY <3>7, <3>8
  <2>2. CASE ~BuildLayerReturns(p)
    <3>1. Below(p) /\ Present \subseteq Present'
      BY <1>2 DEF ParentInv
    <3>2. cpc'[p] \in BuildPC \ {"reprobe"} => \A k \in 1 .. job'[p].index - 1 : job'[p].image[k] \in Present'
      <4>1. CASE job[p].index = 1
        BY <2>2, <4>1, CreateBelow
      <4>2. CASE job[p].index # 1
        BY <2>2, <3>1, <4>2, CreateBelow DEF Below
      <4> QED
        BY <4>1, <4>2
    <3>3. cpc'[p] \in {"mkimage", "build"} => Layers(job'[p].image) \subseteq Present'
      BY <2>2, <3>1, CreateBelow DEF Below
    <3> QED
      BY <3>2, <3>3 DEF Below
  <2> QED
    BY <2>1, <2>2
<1>8. \A i \in Id : depFile'[i] = "whole" => \E s \in Image : deps'[i] = Layers(s)
  <2>0. depFile \in [Id -> {"none", "torn", "whole"}] /\ deps \in [Id -> SUBSET Chain] /\ job[p].id \in Id
    BY DEF Types, TypeOK, ImgTypeOK, CreatorTypeOK, Job
  <2>1. CASE RegisterWrite(p)
    BY <1>3, <2>0, <2>1 DEF ParentInv, RegisterWrite, WriteDepFile
  <2>2. CASE RegisterOpen(p)
    BY <2>0, <2>2 DEF ParentInv, RegisterOpen, OpenDepFile
  <2>3. CASE MkdirImage(p) \/ CreateImage(p) \/ UndoUnmount(p) \/ UndoRemove(p)
    BY <2>3 DEF ParentInv, MkdirImage, MakeImageDir, CreateImage, BuildRootfs, UndoUnmount,
       UnmountImage, UndoRemove, RemoveImageDir
  <2>4. CASE UNCHANGED imgVars
    BY <2>4 DEF ParentInv, imgVars
  <2> QED
    BY <2>1, <2>2, <2>3, <2>4, CreateImageFrame DEF CreateTouchesImages
<1>9. (\A g \in Cleaners : gpc'[g] \notin {"mark"} \cup MarkPC) => Closed(Present)'
  BY <1>1, <1>4 DEF Closed
<1> QED
  BY <1>1, <1>5, <1>6, <1>7, <1>8, <1>9 DEF ParentInv

\* The actions of a clean that has to keep a closed set of layers.
MarksLayers(g) ==
  \/ ListVolumesAndImages(g)
  \/ (\E i \in Id : ReadDependencies(g, i) \/ ReadDependenciesError(g, i)) \/ DependenciesRead(g)
  \/ UnusedVolumesFails(g)
  \/ (\E n \in Name : MarkNext(g, n))
  \/ MarkUnlink(g) \/ MarkSymlink(g) \/ MarkDir(g) \/ MarkMeta(g)

\* The others; and only its rename takes a layer away.
LEMMA CleanPresent ==
  ASSUME NEW g \in Cleaners, Types, LinkInv, Clean(g),
         gpc[g] \in SweepPC => ~CleanFault(g)
  PROVE  /\ gpc'[g] \in {"deps", "mark"} \cup MarkPC => MarksLayers(g)
         /\ gpc[g] \in {"mark"} \cup MarkPC => gpc'[g] \in {"mark"} \cup MarkPC \/ MarkDone(g)
         /\ MarkDir(g) \/ Present' = Present
         /\ MarksLayers(g) => Marking(g)
<1> USE DEF At, Goto
<1>0. gpc \in [Cleaners -> CleanerPC]
  BY DEF Types, TypeOK, CleanerTypeOK
<1>1. CASE DestroyTouchesVolumes(g)
  <2>1. \A c \in Chain : Untouched(Final(c))
    BY <1>1, DestroyTouches, NameFacts
  <2>2. Present' = Present
    BY <2>1 DEF Present, Untouched, VolumeExists
  <2>3. /\ gpc'[g] \in {"destroy"} \cup DestroyPC /\ gpc[g] \in {"destroy"} \cup DestroyPC
    BY <1>0, <1>1 DEF DestroyTouchesVolumes, DestroyNext, DestroyLinkFile, DestroyMeta, DestroyDirBegin,
       DestroyDirEnd, DestroyPC, cleanerVars
  <2>4. ~MarksLayers(g)
    BY <2>3 DEF MarksLayers, ListVolumesAndImages, ReadDependencies, ReadDependenciesError,
       DependenciesRead, UnusedVolumesFails, MarkNext, MarkUnlink, MarkSymlink, MarkDir, MarkMeta, DestroyPC
  <2> QED
    BY <2>2, <2>3, <2>4 DEF DestroyPC, MarkPC
<1>2. CASE MarksLayers(g)
  <2>1. Marking(g)
    BY <1>2 DEF MarksLayers, ListVolumesAndImages, ReadDependencies, ReadDependenciesError,
       DependenciesRead, UnusedVolumesFails, MarkNext, MarkUnlink, MarkSymlink, MarkDir, MarkMeta, Marking
  <2>2. gpc'[g] \in {"deps", "mark"} \cup MarkPC /\ (gpc'[g] = "deps" => gpc[g] \in {"list", "deps"})
    BY <1>0, <1>2 DEF MarksLayers, ListVolumesAndImages, ReadDependencies, ReadDependenciesError,
       DependenciesRead, UnusedVolumesFails, MarkNext, MarkUnlink, MarkSymlink, MarkDir, MarkMeta, MarkPC
  <2>3. MarkDir(g) \/ UNCHANGED vol
    BY <1>2 DEF MarksLayers, ListVolumesAndImages, ReadDependencies, ReadDependenciesError,
       DependenciesRead, UnusedVolumesFails, MarkNext, MarkUnlink, MarkSymlink, MarkMeta, volVars, MoveLinkFile,
       RemoveSymlink, MakeSymlink, MoveVolumeMeta
  <2>4. MarkDir(g) \/ Present' = Present
    BY <2>3 DEF Present, VolumeExists
  <2> QED
    BY <1>2, <2>1, <2>2, <2>4 DEF MarkPC
<1>3. CASE ~DestroyTouchesVolumes(g) /\ ~MarksLayers(g)
  <2>1. \/ StartClean(g) \/ LockGC(g) \/ LockGCTimeout(g) \/ Measure(g) \/ LockGlobalExclusive(g)
        \/ LockGlobalTimeout(g) \/ LockGlobalLate(g) \/ MarkDone(g) \/ UnlockGlobal(g)
        \/ GcVolumes(g) \/ CollectDone(g) \/ EndClean(g)
        \/ gpc[g] \notin SweepPC /\ (CleaningTimeout(g) \/ KillClean(g))
    BY <1>3, CalmClean DEF CalmQuiet, CleanQuiet, MarksLayers, MarkTouchesVolumes
  <2>2. UNCHANGED volVars
    BY <2>1 DEF StartClean, LockGC, LockGCTimeout, Measure, LockGlobalExclusive, LockGlobalTimeout,
       LockGlobalLate, MarkDone, UnlockGlobal, GcVolumes, CollectDone, EndClean,
       CleaningTimeout, KillClean
  <2>3. /\ gpc'[g] \notin {"deps", "mark"} \cup MarkPC
        /\ gpc[g] \in {"mark"} \cup MarkPC => MarkDone(g)
    BY <1>0, <2>1 DEF StartClean, LockGC, LockGCTimeout, Measure, LockGlobalExclusive, LockGlobalTimeout,
       LockGlobalLate, MarkDone, UnlockGlobal, GcVolumes, CollectDone, EndClean, ExitClean,
       CleaningTimeout, KillClean, SweepPC, MarkPC
  <2> QED
    BY <1>3, <2>2, <2>3 DEF Present, VolumeExists, volVars
<1> QED
  BY <1>1, <1>2, <1>3

\* What a clean keeps stays closed: it takes the layers of an image off its
\* list together, and none of those it keeps away.
LEMMA CleanKept ==
  ASSUME NEW g \in Cleaners, Types, LockInv, LinkInv, SoundInv, ParentInv, Clean(g), MarksLayers(g)
  PROVE  Closed(Kept(g)')
<1> USE DEF At, Goto
<1>0. /\ gpc \in [Cleaners -> CleanerPC] /\ queue \in [Cleaners -> SUBSET Name]
      /\ cur \in [Cleaners -> Name \cup {None}] /\ vol \in [Name -> {"absent", "partial", "whole"}]
      /\ \A c \in Chain : Final(c) \in Name /\ Final(c).gc = FALSE
  BY NameFacts DEF Types, TypeOK, CleanerTypeOK, VolTypeOK
<1>a. gpc[g] \in {"list", "deps"} => Closed(Present)
  <2> SUFFICES ASSUME gpc[g] \in {"list", "deps"} PROVE Closed(Present)
    OBVIOUS
  <2>1. \A h \in Cleaners : gpc[h] \notin {"mark"} \cup MarkPC
    BY GcAlone DEF MarkPC
  <2> QED
    BY <2>1 DEF ParentInv
<1>b. gpc[g] \in {"deps", "mark"} \cup MarkPC => Closed(Kept(g))
  BY DEF ParentInv
<1>c. MarkHand(g)
  BY DEF SoundInv
<1>1. CASE ListVolumesAndImages(g)
  <2>1. gpc'[g] = "deps" /\ queue'[g] = {n \in Volumes : ~n.gc} /\ UNCHANGED vol
    BY <1>0, <1>1 DEF ListVolumesAndImages, volVars
  <2>2. Kept(g)' = {}
    BY <1>0, <2>1 DEF Kept, Present, Volumes, VolumeExists
  <2> QED
    BY <2>2 DEF Closed
<1>2. ASSUME NEW i \in Id, ReadDependencies(g, i)
      PROVE  Closed(Kept(g)')
  <2>1. /\ gpc[g] = "deps" /\ gpc'[g] = "deps" /\ UNCHANGED vol /\ depFile[i] = "whole"
        /\ queue'[g] = queue[g] \ {Final(c) : c \in deps[i]}
    BY <1>0, <1>2 DEF ReadDependencies, volVars
  <2>2. PICK s \in Image : deps[i] = Layers(s)
    BY <2>1 DEF ParentInv
  <2>3. Kept(g)' = Kept(g) \cup (Present \cap Layers(s))
    <3>1. ASSUME NEW c \in Chain, NEW d \in Chain, Final(c) = Final(d)
          PROVE  c = d
      <4>1. Final(c).chain = c /\ Final(d).chain = d
        BY NameFacts
      <4> QED
        BY <3>1, <4>1
    <3>2. Layers(s) \subseteq Chain
      BY ImageTypes
    <3>3. \A c \in Chain : Final(c) \in {Final(d) : d \in deps[i]} <=> c \in Layers(s)
      BY <2>2, <3>1, <3>2
    <3>4. Kept(g)' = {c \in Present : Final(c) \notin queue'[g]}
      BY <2>1 DEF Kept, Present, VolumeExists, MovePC
    <3>5. Kept(g) = {c \in Present : Final(c) \notin queue[g]}
      BY <2>1 DEF Kept, MovePC
    <3>6. Present \subseteq Chain
      BY DEF Present
    <3>7. PICK D : D = {Final(d) : d \in deps[i]}
      OBVIOUS
    <3>8. \A c \in Chain : Final(c) \in D <=> c \in Layers(s)
      BY <3>3, <3>7
    <3>9. Kept(g)' = {c \in Present : Final(c) \notin queue[g] \ D}
      BY <2>1, <3>4, <3>7
    <3> HIDE <2>1, <3>7
    <3> QED
      BY <3>5, <3>6, <3>8, <3>9
  <2>4. Closed(Present) /\ Closed(Kept(g))
    BY <1>a, <1>b, <2>1
  <2>5. ASSUME NEW r \in Image, NEW a \in 1 .. Len(r), NEW b \in 1 .. Len(r), a < b,
               r[b] \in Present, r[b] \in Layers(s)
        PROVE  r[a] \in Present \cap Layers(s)
    <3>0. /\ Len(s) \in Nat /\ Len(r) \in Nat /\ DOMAIN r = 1 .. Len(r) /\ DOMAIN s = 1 .. Len(s)
      BY ImageTypes
    <3>1. PICK j \in DOMAIN s : r[b] = s[j]
      BY <2>5 DEF Layers
    <3>2. b = j /\ \A k \in 1 .. b : r[k] = s[k]
      BY <3>0, <3>1, ImageAssumption
    <3>3. r[a] = s[a] /\ a \in DOMAIN s
      BY <2>5, <3>0, <3>2
    <3> QED
      BY <2>4, <2>5, <3>3 DEF Closed, Layers
  <2> QED
    BY <2>3, <2>4, <2>5 DEF Closed
<1>3. ASSUME NEW i \in Id, ReadDependenciesError(g, i)
      PROVE  Closed(Kept(g)')
  <2>1. gpc[g] = "deps" /\ gpc'[g] = "mark" /\ UNCHANGED vol /\ queue'[g] = {}
    BY <1>0, <1>3 DEF ReadDependenciesError, volVars
  <2>2. Kept(g)' = Present
    BY <2>1 DEF Kept, Present, VolumeExists, MovePC
  <2> QED
    BY <1>a, <2>1, <2>2
<1>4. CASE DependenciesRead(g)
  <2>1. gpc[g] = "deps" /\ gpc'[g] = "mark" /\ UNCHANGED vol /\ queue'[g] = queue[g]
    BY <1>0, <1>4 DEF DependenciesRead, volVars
  <2>2. Kept(g)' = Kept(g)
    BY <2>1 DEF Kept, Present, VolumeExists, MovePC
  <2> QED
    BY <1>b, <2>1, <2>2
<1>5. ASSUME NEW n \in Name, MarkNext(g, n)
      PROVE  Closed(Kept(g)')
  <2>1. gpc[g] = "mark" /\ n \in queue[g] /\ queue'[g] = queue[g] \ {n} /\ UNCHANGED vol
    BY <1>0, <1>5 DEF MarkNext, MoveLinkFile, volVars
  <2>2. CASE Movable(n)
    <3>1. gpc'[g] = "mvunlink" /\ cur'[g] = n
      BY <1>0, <1>5, <2>2 DEF MarkNext
    <3>2. Kept(g)' = Kept(g)
      BY <2>1, <3>1 DEF Kept, Present, VolumeExists, MovePC
    <3> QED
      BY <1>b, <2>1, <3>2
  <2>3. CASE ~Movable(n)
    <3>1. gpc'[g] = "mark"
      BY <1>0, <1>5, <2>1, <2>3 DEF MarkNext
    <3>2. \A h \in Cleaners : gpc[h] \notin MovePC
      BY <2>1, GcAlone DEF MovePC
    <3>3. \A c \in Present : Final(c) # n
      BY <2>3, <3>2 DEF SoundInv, Usable, Movable, VolumeExists
    <3>4. Kept(g)' = Kept(g)
      BY <2>1, <3>1, <3>3 DEF Kept, Present, VolumeExists, MovePC
    <3> QED
      BY <1>b, <2>1, <3>4
  <2> QED
    BY <2>2, <2>3
<1>6. CASE MarkUnlink(g) \/ MarkSymlink(g)
  <2>1. /\ gpc[g] \in MovePC /\ queue'[g] = queue[g] /\ UNCHANGED vol
        /\ \/ gpc'[g] \in MovePC /\ cur'[g] = cur[g]
           \/ gpc'[g] \notin MovePC /\ \A c \in Chain : cur[g] # Final(c)
    <3>1. CASE MarkUnlink(g)
      <4>1. gpc[g] = "mvunlink" /\ queue'[g] = queue[g] /\ UNCHANGED vol
        BY <3>1 DEF MarkUnlink, RemoveSymlink, volVars
      <4>2. CASE sym[link[GcName(cur[g])]] # None
        BY <1>0, <3>1, <4>1, <4>2 DEF MarkUnlink, MovePC
      <4>3. CASE sym[link[GcName(cur[g])]] = None
        <5>1. gpc'[g] \notin MovePC
          BY <1>0, <3>1, <4>3 DEF MarkUnlink, MovePC
        <5>2. cur[g] # Final(cur[g].chain)
          BY <1>c, <4>1, <4>3, NoneIsNoName DEF MarkHand, MarkPC, Types, CleanNames
        <5>3. \A c \in Chain : Final(c) = Final(Final(c).chain)
          BY NameFacts
        <5> QED
          BY <4>1, <5>1, <5>2, <5>3 DEF MovePC
      <4> QED
        BY <4>2, <4>3
    <3>2. CASE MarkSymlink(g)
      BY <1>0, <3>2 DEF MarkSymlink, MakeSymlink, MovePC
    <3> QED
      BY <1>6, <3>1, <3>2
  <2>2. Kept(g)' = Kept(g)
    BY <2>1 DEF Kept, Present, VolumeExists
  <2> QED
    BY <1>b, <2>1, <2>2 DEF MovePC, MarkPC
<1>7. CASE MarkDir(g)
  <2>1. /\ gpc[g] = "mvdir" /\ gpc'[g] = "mvmeta" /\ queue'[g] = queue[g]
        /\ RenameVolumeDir(cur[g], GcName(cur[g]))
    BY <1>0, <1>7 DEF MarkDir
  <2>2. cur[g] \in Name /\ cur[g].gc = FALSE /\ ~VolumeExists(GcName(cur[g]))
    BY <1>c, <2>1 DEF MarkHand, MovePC, MarkPC, Types, CleanNames
  <2>3. GcName(cur[g]) \in Name /\ GcName(cur[g]).gc = TRUE
    BY <2>2, GcNames
  <2>4. vol' = [vol EXCEPT ![GcName(cur[g])] = vol[cur[g]], ![cur[g]] = "absent"]
    BY <2>1, <2>2 DEF RenameVolumeDir
  <2>5. \A c \in Chain : vol'[Final(c)] = IF Final(c) = cur[g] THEN "absent" ELSE vol[Final(c)]
    BY <1>0, <2>2, <2>3, <2>4
  <2>6. Kept(g)' = Kept(g)
    BY <2>1, <2>5 DEF Kept, Present, VolumeExists, MovePC
  <2> QED
    BY <1>b, <2>1, <2>6 DEF MarkPC
<1>8. CASE MarkMeta(g)
  <2>1. gpc[g] = "mvmeta" /\ gpc'[g] = "mark" /\ UNCHANGED vol /\ queue'[g] = queue[g]
    BY <1>0, <1>8 DEF MarkMeta, MoveVolumeMeta
  <2>2. Kept(g)' = Kept(g)
    BY <2>1 DEF Kept, Present, VolumeExists, MovePC
  <2> QED
    BY <1>b, <2>1, <2>2 DEF MarkPC
<1>9. CASE UnusedVolumesFails(g)
  <2>1. gpc[g] \in {"list", "deps"} /\ gpc'[g] = "mark" /\ UNCHANGED vol /\ queue'[g] = {}
    BY <1>0, <1>9 DEF UnusedVolumesFails, volVars
  <2>2. Kept(g)' = Present
    BY <2>1 DEF Kept, Present, VolumeExists, MovePC
  <2> QED
    BY <1>a, <2>1, <2>2
<1> QED
  BY <1>1, <1>2, <1>3, <1>4, <1>5, <1>6, <1>7, <1>8, <1>9 DEF MarksLayers

\* Every step of a clean keeps the layers below the present ones present.
LEMMA CleanParents ==
  ASSUME NEW g \in Cleaners, Types, LockInv, LinkInv, SoundInv, ParentInv, Clean(g),
         gpc[g] \in SweepPC => ~CleanFault(g)
  PROVE  ParentInv'
<1>1. /\ gpc'[g] \in {"deps", "mark"} \cup MarkPC => MarksLayers(g)
      /\ gpc[g] \in {"mark"} \cup MarkPC => gpc'[g] \in {"mark"} \cup MarkPC \/ MarkDone(g)
      /\ MarkDir(g) \/ Present' = Present
      /\ MarksLayers(g) => Marking(g)
  BY CleanPresent
<1>2. /\ UNCHANGED <<creatorVars, imgVars>>
      /\ \A h \in Cleaners \ {g} : gpc'[h] = gpc[h] /\ cur'[h] = cur[h] /\ queue'[h] = queue[h]
  BY CleanFrame
<1>3. UNCHANGED <<cpc, job, depFile, deps>>
  BY <1>2 DEF creatorVars, imgVars
<1>4. MarkDir(g) => gpc[g] = "mvdir" /\ gpc'[g] = "mvmeta"
  BY DEF MarkDir, At, Goto, Types, TypeOK, CleanerTypeOK
<1>5. (\A h \in Cleaners : gpc'[h] \notin {"mark"} \cup MarkPC) => Closed(Present')
  <2> SUFFICES ASSUME \A h \in Cleaners : gpc'[h] \notin {"mark"} \cup MarkPC
               PROVE  Closed(Present')
    OBVIOUS
  <2>1. Present' = Present
    BY <1>1, <1>4 DEF MarkPC
  <2>2. CASE MarkDone(g)
    <3>1. gpc[g] = "mark" /\ queue[g] = {}
      BY <2>2 DEF MarkDone, At
    <3>2. Kept(g) = Present
      BY <3>1 DEF Kept, MovePC
    <3> QED
      BY <2>1, <3>1, <3>2 DEF ParentInv
  <2>3. CASE ~MarkDone(g)
    <3>1. \A h \in Cleaners : gpc[h] \notin {"mark"} \cup MarkPC
      BY <1>1, <1>2, <2>3
    <3> QED
      BY <2>1, <3>1 DEF ParentInv
  <2> QED
    BY <2>2, <2>3
<1>6. gpc'[g] \in {"deps", "mark"} \cup MarkPC => Closed(Kept(g)')
  BY <1>1, CleanKept
<1>7. ASSUME NEW h \in Cleaners \ {g}, gpc'[h] \in {"deps", "mark"} \cup MarkPC
      PROVE  Closed(Kept(h)')
  <2>1. gpc[h] \in {"deps", "mark"} \cup MarkPC /\ gpc[h] \notin {"idle", "gclock"}
    BY <1>2, <1>7 DEF MarkPC
  <2>2. gpc[g] \in {"idle", "gclock"}
    BY <2>1, GcAlone
  <2>3. Present' = Present
    BY <1>1, <1>4, <2>2
  <2>4. Kept(h)' = Kept(h)
    BY <1>2, <2>3 DEF Kept
  <2> QED
    BY <2>1, <2>4 DEF ParentInv
<1>8. ASSUME NEW q \in Creators
      PROVE  Below(q)'
  <2>1. CASE Present' = Present
    BY <1>3, <2>1 DEF ParentInv, Below
  <2>2. CASE MarkDir(g)
    <3>1. ~Creating(q)
      BY <1>4, <2>2, Exclusion DEF Marking
    <3> QED
      BY <1>3, <3>1 DEF Below, BuildPC, Creating
  <2> QED
    BY <1>1, <2>1, <2>2
<1>9. \A i \in Id : depFile'[i] = "whole" => \E s \in Image : deps'[i] = Layers(s)
  BY <1>3 DEF ParentInv
<1>10. \A h \in Cleaners : gpc'[h] \in {"deps", "mark"} \cup MarkPC => Closed(Kept(h)')
  BY <1>6, <1>7
<1> QED
  BY <1>5, <1>8, <1>9, <1>10 DEF ParentInv, Closed

\* A step that changes neither volumes nor creates nor cleans, and adds no
\* dependency file.
LEMMA ParentFrame ==
  ASSUME ParentInv, UNCHANGED <<volVars, creatorVars, cleanerVars>>,
         \A i \in Id : depFile'[i] = "whole" => depFile[i] = "whole" /\ deps'[i] = deps[i]
  PROVE  ParentInv'
<1>1. UNCHANGED <<vol, cpc, job, gpc, queue, cur>>
  BY DEF volVars, creatorVars, cleanerVars
<1>2. Present' = Present /\ \A g \in Cleaners : Kept(g)' = Kept(g)
  BY <1>1 DEF Present, Kept, VolumeExists
<1>3. \A p \in Creators : Below(p)'
  BY <1>1, <1>2 DEF ParentInv, Below
<1> QED
  BY <1>1, <1>2, <1>3 DEF ParentInv, Closed

\* Every step of any command keeps the layers below the present ones present.
LEMMA NextParents ==
  Types /\ LockInv /\ VolumeInv /\ LinkInv /\ SoundInv /\ ParentInv /\ [CalmNext]_vars => ParentInv'
<1> SUFFICES ASSUME Types, LockInv, VolumeInv, LinkInv, SoundInv, ParentInv, [CalmNext]_vars
             PROVE  ParentInv'
  OBVIOUS
<1>1. CASE UNCHANGED vars \/ Rest
  <2>1. UNCHANGED <<volVars, imgVars, creatorVars, cleanerVars>>
    BY <1>1 DEF Rest, vars
  <2> QED
    BY <2>1, ParentFrame DEF imgVars
<1>2. ASSUME NEW d \in Deleters, Delete(d)
      PROVE  ParentInv'
  <2>1. ImgTypeOK /\ victim[d] \in Id
    BY DEF Types, TypeOK, DeleterTypeOK
  <2>2. \/ UNCHANGED imgVars \/ UnmountImage(victim[d]) \/ RemoveImageDir(victim[d])
        \/ RemoveDepFile(victim[d])
    BY <1>2 DEF Delete, DeleteStep, DeleteFault, StartDelete, DestroyImage, RemoveImage,
       DeleteFails, Deregister, KillDelete
  <2>3. \A i \in Id : depFile'[i] = "whole" => depFile[i] = "whole" /\ deps'[i] = deps[i]
    BY <2>1, <2>2 DEF ImgTypeOK, imgVars, UnmountImage, RemoveImageDir, RemoveDepFile
  <2> QED
    BY <1>2, <2>3, DeleteFrame, ParentFrame
<1> QED
  BY <1>1, <1>2, CreateParents, CleanParents DEF CalmNext, Next

\* There is no layer, and no dependency file, in the initial state.
LEMMA InitParents == Init => ParentInv
<1> SUFFICES ASSUME Init PROVE ParentInv
  OBVIOUS
<1>1. /\ vol = [n \in Name |-> "absent"] /\ depFile = [i \in Id |-> "none"]
      /\ (\A p \in Creators : cpc[p] = "idle") /\ (\A g \in Cleaners : gpc[g] = "idle")
  BY DEF Init, VolInit, ImgInit, CreatorInit, CleanerInit
<1>2. Present = {}
  BY <1>1 DEF Present, VolumeExists, Final, Name
<1> QED
  BY <1>1, <1>2 DEF ParentInv, Closed, Below, BuildPC, MarkPC

\* The layers below a present one are present at all times, but for those a
\* clean has begun to mark.
LEMMA AlwaysParents ==
  CalmSpec => [](Types /\ LockInv /\ VolumeInv /\ LinkInv /\ SoundInv /\ ParentInv)
<1>1. Init => ParentInv
  BY InitParents
<1> QED
  BY <1>1, NextParents, AlwaysSound, PTL DEF CalmSpec

\* A pull that has returned leaves every layer of the image for CreateImage to
\* stack on: whole, with metadata, and reachable through its short id.  That is
\* so whichever calls of creates, deletes and cleans have failed and wherever
\* their processes have died or run out of time, as long as no clean has come
\* to grief between its first rename and its last removal.
THEOREM PullSurvives == CalmSpec => []PulledLayersUsable
<1>1. Types /\ LockInv /\ SoundInv /\ ParentInv => PulledLayersUsable
  <2> SUFFICES ASSUME Types, LockInv, SoundInv, ParentInv,
                      NEW p \in Creators, cpc[p] = "build", NEW c \in Layers(job[p].image)
               PROVE  Usable(Final(c))
    BY DEF PulledLayersUsable
  <2>1. c \in Present
    BY DEF ParentInv, Below
  <2>2. \A g \in Cleaners : gpc[g] \notin MovePC
    BY Exclusion DEF Creating, Marking, MovePC
  <2> QED
    BY <2>1, <2>2 DEF SoundInv
<1> QED
  BY <1>1, AlwaysParents, PTL

\* Without any fault every behaviour is one of those.
LEMMA FaultlessCalm ==
  ASSUME Faultless
  PROVE  Spec => CalmSpec
<1>1. Types /\ [Next]_vars => [CalmNext]_vars
  BY NoFaults DEF CalmNext
<1> QED
  BY <1>1, AlwaysLinks, PTL DEF Spec, CalmSpec

\* In particular this is so when no call fails, no process is killed and no
\* clean is cut short.
THEOREM PullComplete ==
  ASSUME Faultless
  PROVE  Spec => []PulledLayersUsable
BY FaultlessCalm, PullSurvives, PTL

------------------------------------------------------------------------------
(* What clean takes away *)

\* A step that changes neither the volumes nor what a clean knows of them.
LEMMA LookedFrame ==
  ASSUME NEW g \in Cleaners, Looked(g), UNCHANGED volVars,
         gpc'[g] = gpc[g] /\ queue'[g] = queue[g] /\ cur'[g] = cur[g] /\ ids'[g] = ids[g]
           /\ garbage'[g] = garbage[g],
         \A i \in ids[g] : depFile'[i] = "whole" => depFile[i] = "whole" /\ deps'[i] = deps[i]
  PROVE  Looked(g)'
BY DEF Looked, volVars, VolumeExists, Movable

\* What a clean has seen to be garbage it takes away, or leaves altogether.
LEMMA MarkLooked ==
  ASSUME NEW g \in Cleaners, Types, LockInv, LinkInv, TidyInv, Looked(g), Clean(g), MarksLayers(g),
         ~CleanFault(g)
  PROVE  Looked(g)'
<1> USE DEF At, Goto
<1>0. /\ gpc \in [Cleaners -> CleanerPC] /\ queue \in [Cleaners -> SUBSET Name]
      /\ cur \in [Cleaners -> Name \cup {None}] /\ vol \in [Name -> {"absent", "partial", "whole"}]
      /\ ids \in [Cleaners -> SUBSET Id] /\ garbage \in [Cleaners -> SUBSET Name]
      /\ UNCHANGED imgVars
  BY CleanFrame DEF Types, TypeOK, CleanerTypeOK, VolTypeOK
<1>c. CleanHand(g)
  BY DEF TidyInv
<1>1. CASE ListVolumesAndImages(g)
  <2>1. /\ gpc[g] = "list" /\ gpc'[g] = "deps" /\ queue'[g] = {n \in Volumes : ~n.gc} /\ UNCHANGED <<vol, link>>
        /\ ids'[g] = ImageIDs
        /\ garbage'[g] = {n \in Volumes : ~n.gc /\ (n = Final(n.chain) => ~InUse(n.chain))}
    BY <1>0, <1>1 DEF ListVolumesAndImages, volVars
  <2>2. \A n \in Name : Settled(n)
    <3>1. Marking(g) /\ \A n \in Name : ~CleanHolds(g, n)
      BY <2>1 DEF Marking, CleanHolds, MarkPC, DestroyPC
    <3> QED
      BY <3>1, MarkFacts
  <2>3. \A n \in garbage'[g] : n.gc = FALSE /\ n \in queue'[g] /\ Movable(n)'
    <3>1. \A n \in garbage'[g] : n \in Name /\ VolumeExists(n) /\ n.gc = FALSE /\ n \in queue'[g]
      BY <2>1 DEF Volumes, Name
    <3> QED
      BY <2>1, <2>2, <3>1 DEF Settled, Movable, VolumeExists
  <2>4. ASSUME NEW i \in ids'[g], depFile'[i] = "whole", NEW c \in deps'[i]
        PROVE  Final(c) \notin garbage'[g]
    <3>1. i \in ImageIDs /\ depFile[i] = "whole" /\ c \in deps[i]
      BY <1>0, <2>1, <2>4 DEF imgVars
    <3>2. c \in Chain
      BY <3>1 DEF ImageIDs, Types, TypeOK, ImgTypeOK
    <3>3. Final(c).chain = c
      BY <3>2, NameFacts
    <3>4. InUse(c)
      BY <3>1 DEF InUse
    <3> QED
      BY <2>1, <3>3, <3>4
  <2> QED
    BY <2>1, <2>3, <2>4 DEF Looked, MarkPC
<1>2. ASSUME NEW i \in Id, ReadDependencies(g, i)
      PROVE  Looked(g)'
  <2>1. /\ gpc[g] = "deps" /\ gpc'[g] = "deps" /\ UNCHANGED <<vol, link>> /\ depFile[i] = "whole" /\ i \in ids[g]
        /\ queue'[g] = queue[g] \ {Final(c) : c \in deps[i]} /\ ids'[g] = ids[g] \ {i}
        /\ garbage'[g] = garbage[g]
    BY <1>0, <1>2 DEF ReadDependencies, volVars
  <2>2. \A c \in deps[i] : Final(c) \notin garbage[g]
    BY <2>1 DEF Looked
  <2>3. \A n \in garbage[g] : n.gc = FALSE /\ n \in queue'[g] /\ Movable(n)'
    BY <2>1, <2>2 DEF Looked, Movable, VolumeExists
  <2>4. \A j \in ids'[g] : depFile'[j] = "whole" => \A c \in deps'[j] : Final(c) \notin garbage[g]
    BY <1>0, <2>1 DEF Looked, imgVars
  <2> QED
    BY <2>1, <2>3, <2>4 DEF Looked, MarkPC
<1>3. ASSUME NEW i \in Id, ReadDependenciesError(g, i)
      PROVE  Looked(g)'
  <2>1. /\ gpc[g] = "deps" /\ gpc'[g] = "mark" /\ UNCHANGED <<vol, link>> /\ queue'[g] = {}
        /\ garbage'[g] = garbage[g]
    BY <1>0, <1>3 DEF ReadDependenciesError, volVars
  <2> QED
    BY <2>1 DEF Looked, Movable, VolumeExists, MarkPC
<1>4. CASE DependenciesRead(g)
  <2>1. /\ gpc[g] = "deps" /\ gpc'[g] = "mark" /\ UNCHANGED <<vol, link>> /\ queue'[g] = queue[g]
        /\ garbage'[g] = garbage[g]
    BY <1>0, <1>4 DEF DependenciesRead, volVars
  <2> QED
    BY <2>1 DEF Looked, Movable, VolumeExists, MarkPC
<1>5. ASSUME NEW n \in Name, MarkNext(g, n)
      PROVE  Looked(g)'
  <2>1. /\ gpc[g] = "mark" /\ n \in queue[g] /\ queue'[g] = queue[g] \ {n} /\ UNCHANGED vol
        /\ garbage'[g] = garbage[g]
    BY <1>0, <1>5 DEF MarkNext, MoveLinkFile, volVars
  <2>2. /\ \A m \in garbage[g] : m \in queue[g] \/ ~VolumeExists(m)
        /\ \A m \in garbage[g] : m.gc = FALSE
    BY <2>1 DEF Looked, MovePC
  <2>3. CASE Movable(n)
    <3>1. gpc'[g] = "mvunlink" /\ cur'[g] = n
      BY <1>0, <1>5, <2>3 DEF MarkNext
    <3> QED
      BY <2>1, <2>2, <3>1 DEF Looked, VolumeExists, MovePC
  <2>4. CASE ~Movable(n)
    <3>1. gpc'[g] = "mark"
      BY <1>0, <1>5, <2>1, <2>4 DEF MarkNext
    <3>2. Marking(g) /\ ~CleanHolds(g, n)
      BY <2>1 DEF Marking, CleanHolds, MarkPC, DestroyPC
    <3>3. ~VolumeExists(n)
      BY <2>4, <3>2, MarkFacts DEF Settled, Movable
    <3> QED
      BY <2>1, <2>2, <3>1, <3>3 DEF Looked, VolumeExists, MovePC
  <2> QED
    BY <2>3, <2>4
<1>6. CASE MarkUnlink(g) \/ MarkSymlink(g)
  <2>1. /\ gpc[g] \in MovePC /\ gpc'[g] \in MovePC /\ cur'[g] = cur[g] /\ queue'[g] = queue[g] /\ UNCHANGED vol
        /\ garbage'[g] = garbage[g]
    <3>1. CASE MarkUnlink(g)
      <4>1. gpc[g] = "mvunlink" /\ sym[link[GcName(cur[g])]] = cur[g] /\ cur[g] # None
        BY <1>c, <3>1, NoneIsNoName DEF MarkUnlink, CleanHand, MarkPC, Types, CleanNames
      <4> QED
        BY <1>0, <3>1, <4>1 DEF MarkUnlink, RemoveSymlink, MovePC
    <3>2. CASE MarkSymlink(g)
      BY <1>0, <3>2 DEF MarkSymlink, MakeSymlink, MovePC
    <3> QED
      BY <1>6, <3>1, <3>2
  <2> QED
    BY <2>1 DEF Looked, VolumeExists, MovePC, MarkPC
<1>7. CASE MarkDir(g)
  <2>1. /\ gpc[g] = "mvdir" /\ gpc'[g] = "mvmeta" /\ queue'[g] = queue[g] /\ garbage'[g] = garbage[g]
        /\ RenameVolumeDir(cur[g], GcName(cur[g]))
    BY <1>0, <1>7 DEF MarkDir
  <2>2. cur[g] \in Name /\ cur[g].gc = FALSE /\ ~VolumeExists(GcName(cur[g]))
    BY <1>c, <2>1 DEF CleanHand, MovePC, MarkPC, Types, CleanNames
  <2>3. GcName(cur[g]) \in Name /\ GcName(cur[g]).gc = TRUE
    BY <2>2, GcNames
  <2>4. vol' = [vol EXCEPT ![GcName(cur[g])] = vol[cur[g]], ![cur[g]] = "absent"]
    BY <2>1, <2>2 DEF RenameVolumeDir
  <2>5. /\ \A n \in garbage[g] : n.gc = FALSE /\ n \in Name
        /\ \A n \in garbage[g] : n \in queue[g] \/ ~VolumeExists(n) \/ n = cur[g]
    BY <1>0, <2>1 DEF Looked, MarkPC
  <2>6. \A n \in garbage[g] : vol'[n] = IF n = cur[g] THEN "absent" ELSE vol[n]
    BY <1>0, <2>2, <2>3, <2>4, <2>5
  <2> QED
    BY <2>1, <2>5, <2>6 DEF Looked, VolumeExists, MovePC
<1>8. CASE MarkMeta(g)
  <2>1. /\ gpc[g] = "mvmeta" /\ gpc'[g] = "mark" /\ UNCHANGED vol /\ queue'[g] = queue[g]
        /\ garbage'[g] = garbage[g]
    BY <1>0, <1>8 DEF MarkMeta, MoveVolumeMeta
  <2> QED
    BY <2>1 DEF Looked, VolumeExists, MovePC, MarkPC
<1> QED
  BY <1>1, <1>2, <1>3, <1>4, <1>5, <1>6, <1>7, <1>8 DEF MarksLayers, CleanFault

\* Every step of a clean keeps what each clean knows of the garbage.
LEMMA CleanGarbage ==
  ASSUME Faultless, NEW g \in Cleaners, Types, LockInv, LinkInv, TidyInv, GarbageInv, Clean(g)
  PROVE  GarbageInv'
<1> USE DEF At, Goto
<1>0. ~CleanFault(g) /\ gpc \in [Cleaners -> CleanerPC]
  BY NoFaults DEF Types, TypeOK, CleanerTypeOK
<1>1. gpc'[g] \in {"deps", "mark"} \cup MarkPC => MarksLayers(g)
  BY <1>0, CleanPresent
<1>2. Looked(g)'
  <2>1. CASE MarksLayers(g)
    BY <1>0, <2>1, MarkLooked DEF GarbageInv
  <2>2. CASE MarkDone(g)
    <3>1. /\ gpc[g] = "mark" /\ gpc'[g] = "unlock" /\ queue[g] = {} /\ queue'[g] = {}
          /\ garbage'[g] = garbage[g] /\ UNCHANGED <<vol, link>>
      BY <1>0, <2>2 DEF MarkDone, volVars
    <3> QED
      BY <3>1 DEF GarbageInv, Looked, VolumeExists, Movable, MovePC, MarkPC
  <2>3. CASE gpc'[g] \notin {"deps", "mark", "unlock"} \cup MarkPC
    BY <2>3 DEF Looked
  <2>4. gpc'[g] = "unlock" => MarkDone(g)
    BY <1>0 DEF Clean, CleanStep, StartClean, LockGC, LockGCTimeout, Measure, LockGlobalExclusive,
       LockGlobalTimeout, LockGlobalLate, ListVolumesAndImages, ReadDependencies, ReadDependenciesError,
       DependenciesRead, MarkNext, MarkUnlink, MarkSymlink, MarkDir, MarkMeta, UnlockGlobal, GcVolumes,
       DestroyNext, DestroyLinkFile, DestroyMeta, DestroyDirBegin, DestroyDirEnd, CollectDone, EndClean,
       ExitClean, cleanerVars
  <2> QED
    BY <1>1, <2>1, <2>2, <2>3, <2>4
<1>3. ASSUME NEW h \in Cleaners \ {g}
      PROVE  Looked(h)'
  <2>1. /\ UNCHANGED imgVars /\ gpc'[h] = gpc[h] /\ cur'[h] = cur[h]
        /\ queue'[h] = queue[h] /\ ids'[h] = ids[h]
    BY CleanFrame
  <2>2. CASE gpc[h] \in {"idle", "gclock"}
    BY <2>1, <2>2 DEF Looked, MarkPC
  <2>3. CASE gpc[h] \notin {"idle", "gclock"}
    <3>1. gpc[g] \in {"idle", "gclock"}
      BY <2>3, GcAlone
    <3>2. StartClean(g) \/ LockGC(g) \/ LockGCTimeout(g)
      BY <1>0, <3>1 DEF Clean, CleanStep, Measure, LockGlobalExclusive,
         LockGlobalTimeout, LockGlobalLate, ListVolumesAndImages, ReadDependencies, ReadDependenciesError,
         DependenciesRead, MarkNext, MarkUnlink, MarkSymlink, MarkDir, MarkMeta, MarkDone, UnlockGlobal,
         GcVolumes, DestroyNext, DestroyLinkFile, DestroyMeta, DestroyDirBegin, DestroyDirEnd,
         CollectDone, EndClean
    <3>3. UNCHANGED volVars /\ garbage'[h] = garbage[h]
      BY <3>2 DEF StartClean, LockGC, LockGCTimeout, ExitClean, Types, TypeOK, CleanerTypeOK
    <3> QED
      BY <2>1, <3>3, LookedFrame DEF GarbageInv, imgVars
  <2> QED
    BY <2>2, <2>3
<1> QED
  BY <1>2, <1>3 DEF GarbageInv

\* No create is at work while a clean looks for garbage and marks it.
LEMMA CreateGarbage ==
  ASSUME NEW p \in Creators, Types, LockInv, GarbageInv, Create(p)
  PROVE  GarbageInv'
<1> SUFFICES ASSUME NEW g \in Cleaners PROVE Looked(g)'
  BY DEF GarbageInv
<1>1. /\ UNCHANGED cleanerVars
      /\ UNCHANGED volVars \/ Creating(p)
  BY CreateFrame DEF Creating, BuildPC
<1>2. CASE ~Marking(g)
  BY <1>1, <1>2 DEF Looked, Marking, MarkPC, cleanerVars
<1>3. CASE Marking(g)
  <2>1. ~Creating(p)
    BY <1>3, Exclusion
  <2>2. UNCHANGED <<volVars, imgVars>>
    BY <1>1, <2>1, CreateImageFrame DEF CreateTouchesImages, MkdirImage, CreateImage, UndoUnmount,
       UndoRemove, RegisterOpen, RegisterWrite, Creating
  <2> QED
    BY <1>1, <2>2, LookedFrame DEF GarbageInv, cleanerVars, imgVars
<1> QED
  BY <1>2, <1>3

\* Every step of any command keeps what each clean knows of the garbage.
LEMMA NextGarbage ==
  ASSUME Faultless
  PROVE  Types /\ LockInv /\ VolumeInv /\ LinkInv /\ TidyInv /\ GarbageInv /\ [Next]_vars => GarbageInv'
<1> SUFFICES ASSUME Types, LockInv, VolumeInv, LinkInv, TidyInv, GarbageInv, [Next]_vars
             PROVE  GarbageInv'
  OBVIOUS
<1>1. CASE UNCHANGED vars \/ Rest
  <2>1. UNCHANGED <<volVars, imgVars, cleanerVars>>
    BY <1>1 DEF Rest, vars
  <2> QED
    BY <2>1, LookedFrame DEF GarbageInv, imgVars, cleanerVars
<1>2. ASSUME NEW d \in Deleters, Delete(d)
      PROVE  GarbageInv'
  <2>1. ImgTypeOK /\ victim[d] \in Id /\ \A g \in Cleaners : ids[g] \subseteq Id
    BY DEF Types, TypeOK, DeleterTypeOK, CleanerTypeOK
  <2>2. \/ UNCHANGED imgVars \/ UnmountImage(victim[d]) \/ RemoveImageDir(victim[d])
        \/ RemoveDepFile(victim[d])
    BY <1>2 DEF Delete, DeleteStep, DeleteFault, StartDelete, DestroyImage, RemoveImage,
       DeleteFails, Deregister, KillDelete
  <2>3. \A i \in Id : depFile'[i] = "whole" => depFile[i] = "whole" /\ deps'[i] = deps[i]
    BY <2>1, <2>2 DEF ImgTypeOK, imgVars, UnmountImage, RemoveImageDir, RemoveDepFile
  <2>4. UNCHANGED <<volVars, cleanerVars>>
    BY <1>2, DeleteFrame
  <2> QED
    BY <2>1, <2>3, <2>4, LookedFrame DEF GarbageInv, cleanerVars
<1> QED
  BY <1>1, <1>2, CreateGarbage, CleanGarbage DEF Next

\* When no call fails, no process is killed and no clean is cut short, a clean
\* that has marked its last volume has taken away all that was unused when it
\* looked, or, an image having been deleted under it, nothing.
THEOREM CleanComplete ==
  ASSUME Faultless
  PROVE  Spec => []CleanAllOrNothing
<1>1. Init => GarbageInv
  BY DEF Init, CleanerInit, GarbageInv, Looked, MarkPC
<1>2. Types /\ LockInv /\ VolumeInv /\ LinkInv /\ TidyInv /\ GarbageInv /\ [Next]_vars => GarbageInv'
  BY NextGarbage
<1>3. GarbageInv => CleanAllOrNothing
  BY DEF GarbageInv, Looked, CleanAllOrNothing, MovePC, MarkPC
<1> QED
  BY <1>1, <1>2, <1>3, AlwaysTidy, PTL DEF Spec
==============================================================================
