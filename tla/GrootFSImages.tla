---------------------------- MODULE GrootFSImages ----------------------------
(***************************************************************************)
(* What the commands rely on while they work without looking again, and    *)
(* the promise of the store, for all constants.                            *)
(*                                                                         *)
(* Volumes: the chain ids that a download found missing under their locks  *)
(* stay missing, and its temporary volume, link file and symlink stay its  *)
(* own.  Published volumes are therefore whole, and no command disturbs a  *)
(* download.  Every system call of a create touches volumes of the one     *)
(* chain id whose lock it holds, and the short id it drew itself; every    *)
(* call of a clean that does not hold the global lock touches gc. volumes. *)
(* That, and the exclusion proved in GrootFSLocks, is the argument.        *)
(*                                                                         *)
(* Images: the layers under a committed image stay usable, and the store   *)
(* implements a LayerCache.  Clients do not run two creates for one id at  *)
(* a time (OneCreatePerId); if they do the promise is false, as the run    *)
(* sameid_loss shows.  Two invariants carry the proof.  LinkInv: a short   *)
(* id is in one link file at most, so a call that changes a symlink        *)
(* concerns one volume, and the symlink of a published volume points to    *)
(* it.  ImageInv: whatever a clean has in its list of orphans, or in hand, *)
(* is under no committed image, because the dependency file of a committed *)
(* image, when it can be read, names all its layers, and when it cannot    *)
(* nothing is marked.                                                      *)
(***************************************************************************)
EXTENDS GrootFSLocks

\* Clients run no two creates for one id at a time.
OneCreatePerId == \A b \in Budgets : ~b.sameId

------------------------------------------------------------------------------
(* Volumes *)

\* Where a download has a temporary volume: not yet filled, then filled.
FillPC == {"symlink", "linkfile", "unpack"}
FilledPC == {"meta", "mvlink", "mvunlink", "mvsymlink", "mvdir"}
TempPC == FillPC \cup FilledPC

\* What p found missing is still missing.
Missing(p) ==
  /\ cpc[p] \in BuildPC \ {"reprobe"} => vol[Final(Layer(p))] = "absent"
  /\ cpc[p] \in PullPC =>
       \A j \in 1 .. Len(job[p].image) :
          j > job[p].index => vol[Final(job[p].image[j])] = "absent"

\* The temporary volume holds what p has put there.
Temporary(p) ==
  /\ cpc[p] \in FillPC => vol[TempVolume(p)] = "partial"
  /\ cpc[p] \in FilledPC => vol[TempVolume(p)] = "whole"

\* Its short id is where the last step of CreateVolume or MoveVolume put it,
\* and in no other link file.
Linked(p) ==
  /\ Unpacking(p) => link[TempVolume(p)] = job[p].token
  /\ Moving(p) => link[Final(Layer(p))] = job[p].token
  /\ Unpacking(p) \/ cpc[p] \in {"linkfile", "mvunlink"} =>
       sym[job[p].token] = TempVolume(p)
  /\ cpc[p] \in TempPC => \A n \in Name :
       link[n] = job[p].token => n.chain = Layer(p) /\ n.gc = FALSE

Download(p) == Missing(p) /\ Temporary(p) /\ Linked(p)

\* Two downloads drew two short ids.
TokensApart ==
  \A p, q \in Creators :
    cpc[p] \in TempPC /\ cpc[q] \in TempPC /\ p # q => job[p].token # job[q].token

VolumeInv == PublishedWhole /\ TokensApart /\ \A p \in Creators : Download(p)

------------------------------------------------------------------------------

\* The names a download works with.
LEMMA NameFacts ==
  ASSUME Types
  PROVE  /\ \A c \in Chain : /\ Final(c) \in Name /\ Final(c).chain = c
                             /\ Final(c).gc = FALSE /\ Final(c).tmp = None
         /\ \A c \in Chain, t \in Token :
               /\ Incomplete(c, t) \in Name /\ Incomplete(c, t).chain = c
               /\ Incomplete(c, t).gc = FALSE /\ Incomplete(c, t).tmp = t
               /\ \A d \in Chain : Incomplete(c, t) # Final(d)
         /\ \A p \in Creators : /\ job[p].token \in Token
                                /\ cpc[p] \in PullPC => Layer(p) \in Chain
                                /\ \A j \in 1 .. Len(job[p].image) : job[p].image[j] \in Chain
         /\ \A p \in Creators : cpc[p] \in PullPC =>
               /\ TempVolume(p) \in Name /\ TempVolume(p).chain = Layer(p)
               /\ TempVolume(p).gc = FALSE /\ TempVolume(p).tmp = job[p].token
<1>1. /\ \A c \in Chain : /\ Final(c) \in Name /\ Final(c).chain = c
                          /\ Final(c).gc = FALSE /\ Final(c).tmp = None
      /\ \A c \in Chain, t \in Token :
            /\ Incomplete(c, t) \in Name /\ Incomplete(c, t).chain = c
            /\ Incomplete(c, t).gc = FALSE /\ Incomplete(c, t).tmp = t
  BY DEF Final, Incomplete, Name
<1>2. \A c, d \in Chain, t \in Token : Incomplete(c, t) # Final(d)
  BY <1>1, NoneAssumption
<1>3. \A p \in Creators : /\ job[p].token \in Token
                          /\ cpc[p] \in PullPC => Layer(p) \in Chain
                          /\ \A j \in 1 .. Len(job[p].image) : job[p].image[j] \in Chain
  BY KeyFacts DEF Types, TypeOK, CreatorTypeOK, Job, PullPC, BuildPC, Creating
<1>4. QED
  BY <1>1, <1>2, <1>3 DEF TempVolume

\* A download that is not the one taking a step keeps what it relies on, if
\* the step keeps to one locked chain id and to its own short id, ...
LEMMA OtherDownloads ==
  ASSUME NEW p \in Creators, NEW q \in Creators, p # q,
         Types, LockInv, VolumeInv, cpc'[q] = cpc[q], job'[q] = job[q],
         cpc[p] \in BuildPC \/ UNCHANGED <<vol, link, sym>>,
         \A n \in Name : n.chain # Layer(p) => vol'[n] = vol[n] /\ link'[n] = link[n],
         \A n \in Name : /\ cpc[p] \in TempPC => link'[n] \in {link[n], None, job[p].token}
                         /\ cpc[p] \notin TempPC => link'[n] \in {link[n], None},
         \A t \in Token : sym'[t] = sym[t] \/ (cpc[p] \in TempPC /\ t = job[p].token)
                          \/ \E n \in Name : n.chain = Layer(p) /\ link[n] = t
  PROVE  Download(q)'
<1>1. Download(q)
  BY DEF VolumeInv
<1>2. Layer(q)' = Layer(q) /\ TempVolume(q)' = TempVolume(q)
  BY DEF Layer, TempVolume
<1>3. CASE UNCHANGED <<vol, link, sym>>
  BY <1>1, <1>2, <1>3 DEF Download, Missing, Temporary, Linked, Unpacking, Moving
<1>4. CASE cpc[p] \in BuildPC
  <2> USE DEF PullPC, BuildPC, TempPC, FillPC, FilledPC
  <2>0. cpc[q] \in BuildPC =>
          /\ Final(Layer(q)) \in Name /\ Final(Layer(q)).chain = Layer(q)
          /\ TempVolume(q) \in Name /\ TempVolume(q).chain = Layer(q)
    BY NameFacts
  <2>1. cpc[q] \in BuildPC => Layer(q) # Layer(p)
    BY <1>4, Exclusion
  <2>2. Missing(q)'
    <3>1. cpc[q] \in BuildPC => vol'[Final(Layer(q))] = vol[Final(Layer(q))]
      BY <2>0, <2>1
    <3>2. ASSUME NEW j \in 1 .. Len(job[q].image), cpc[q] \in PullPC, j > job[q].index
          PROVE  vol'[Final(job[q].image[j])] = vol[Final(job[q].image[j])]
      <4>1. job[q].image[j] \in Chain
        BY NameFacts
      <4>2. Final(job[q].image[j]) \in Name /\ Final(job[q].image[j]).chain = job[q].image[j]
        BY <4>1, NameFacts
      <4>3. job[q].image[j] # Layer(p)
        BY <1>4, <3>2, Exclusion
      <4>4. QED
        BY <4>2, <4>3
    <3>3. QED
      BY <1>1, <1>2, <3>1, <3>2 DEF Download, Missing
  <2>3. Temporary(q)'
    BY <1>1, <1>2, <2>0, <2>1 DEF Download, Temporary
  <2>4. Linked(q)'
    <3> USE DEF Unpacking, Moving
    <3>1. SUFFICES ASSUME cpc[q] \in TempPC PROVE Linked(q)'
      BY DEF Linked
    <3>2. /\ link'[TempVolume(q)] = link[TempVolume(q)]
          /\ link'[Final(Layer(q))] = link[Final(Layer(q))]
      BY <2>0, <2>1, <3>1
    <3>3. /\ cpc[p] \in TempPC => job[p].token # job[q].token
          /\ job[q].token \in Token /\ job[q].token # None
      BY <3>1, NameFacts, NoneAssumption DEF VolumeInv, TokensApart
    <3>4. \A n \in Name : link[n] = job[q].token => n.chain = Layer(q) /\ n.gc = FALSE
      BY <1>1, <3>1 DEF Download, Linked
    <3>5. sym'[job[q].token] = sym[job[q].token]
      BY <2>1, <3>1, <3>3, <3>4
    <3>6. \A n \in Name : link'[n] = job[q].token => link[n] = job[q].token
      BY <3>3
    <3>7. QED
      BY <1>1, <1>2, <3>2, <3>4, <3>5, <3>6 DEF Download, Linked
  <2>5. QED
    BY <2>2, <2>3, <2>4 DEF Download
<1>5. QED
  BY <1>3, <1>4

\* ... or to gc. volumes and their short ids.
LEMMA GcCallsApart ==
  ASSUME NEW q \in Creators, Types, VolumeInv, UNCHANGED creatorVars,
         \A n \in Name : ~n.gc => vol'[n] = vol[n] /\ link'[n] = link[n],
         \A n \in Name : link'[n] \in {link[n], None},
         \A t \in Token : sym'[t] = sym[t] \/ \E n \in Name : n.gc /\ link[n] = t
  PROVE  Download(q)'
<1>1. Download(q)
  BY DEF VolumeInv
<1>2. Layer(q)' = Layer(q) /\ TempVolume(q)' = TempVolume(q) /\ cpc' = cpc /\ job' = job
  BY DEF Layer, TempVolume, creatorVars
<1> USE DEF PullPC, BuildPC, TempPC, FillPC, FilledPC, Unpacking, Moving
<1>0. cpc[q] \in PullPC =>
        /\ Final(Layer(q)) \in Name /\ Final(Layer(q)).gc = FALSE
        /\ TempVolume(q) \in Name /\ TempVolume(q).gc = FALSE
  BY NameFacts
<1>3. Missing(q)' /\ Temporary(q)'
  <2>1. \A j \in 1 .. Len(job[q].image) :
           Final(job[q].image[j]) \in Name /\ Final(job[q].image[j]).gc = FALSE
    BY NameFacts
  <2>2. QED
    BY <1>0, <1>1, <1>2, <2>1 DEF Download, Missing, Temporary
<1>4. Linked(q)'
  <2>1. SUFFICES ASSUME cpc[q] \in TempPC PROVE Linked(q)'
    BY <1>2 DEF Linked
  <2>2. /\ link'[TempVolume(q)] = link[TempVolume(q)]
        /\ link'[Final(Layer(q))] = link[Final(Layer(q))]
    BY <1>0, <2>1
  <2>3. \A n \in Name : link[n] = job[q].token => n.chain = Layer(q) /\ n.gc = FALSE
    BY <1>1, <2>1 DEF Download, Linked
  <2>4. job[q].token \in Token /\ job[q].token # None
    BY NameFacts, NoneAssumption
  <2>5. sym'[job[q].token] = sym[job[q].token]
    BY <2>3, <2>4
  <2>6. \A n \in Name : link'[n] = job[q].token => link[n] = job[q].token
    BY <2>4
  <2>7. QED
    BY <1>1, <1>2, <2>2, <2>3, <2>5, <2>6 DEF Download, Linked
<1>5. QED
  BY <1>3, <1>4 DEF Download
------------------------------------------------------------------------------
(* Creates *)

\* The step of a create, put together: what it keeps to, what it does to its
\* own download, and that it draws a new short id or none.
LEMMA CreateKeeps ==
  ASSUME NEW p \in Creators, Types, LockInv, VolumeInv,
         \A q \in Creators \ {p} : cpc'[q] = cpc[q] /\ job'[q] = job[q],
         cpc[p] \in BuildPC \/ UNCHANGED <<vol, link, sym>>,
         \A n \in Name : n.chain # Layer(p) => vol'[n] = vol[n] /\ link'[n] = link[n],
         \A n \in Name : /\ cpc[p] \in TempPC => link'[n] \in {link[n], None, job[p].token}
                         /\ cpc[p] \notin TempPC => link'[n] \in {link[n], None},
         \A t \in Token : sym'[t] = sym[t] \/ (cpc[p] \in TempPC /\ t = job[p].token)
                          \/ \E n \in Name : n.chain = Layer(p) /\ link[n] = t,
         \A c \in Chain : vol'[Final(c)] \in {vol[Final(c)], "whole"},
         \/ cpc'[p] \notin TempPC
         \/ cpc[p] \in TempPC /\ job'[p].token = job[p].token
         \/ \A q \in Creators \ {p} : cpc[q] \in TempPC => job[q].token # job'[p].token,
         Download(p)'
  PROVE  VolumeInv'
<1>1. \A q \in Creators \ {p} : Download(q)'
  BY OtherDownloads
<1>2. TokensApart'
  BY DEF VolumeInv, TokensApart
<1>3. PublishedWhole'
  BY DEF VolumeInv, PublishedWhole, VolumeExists
<1>4. QED
  BY <1>1, <1>2, <1>3 DEF VolumeInv

\* The steps that leave directories, link files and symlinks alone.
LEMMA QuietKeeps ==
  ASSUME NEW p \in Creators, Types, LockInv, VolumeInv,
         \A q \in Creators \ {p} : cpc'[q] = cpc[q] /\ job'[q] = job[q],
         UNCHANGED <<vol, link, sym>>,
         cpc'[p] \in TempPC => cpc[p] \in TempPC /\ job'[p].token = job[p].token,
         Download(p)'
  PROVE  VolumeInv'
BY CreateKeeps

\* Of a create that is not pulling, nothing is asked.
LEMMA OutsideKeeps ==
  ASSUME NEW p \in Creators, cpc'[p] \notin PullPC
  PROVE  Download(p)' /\ cpc'[p] \notin TempPC
BY DEF Download, Missing, Temporary, Linked, Unpacking, Moving, PullPC, BuildPC, TempPC,
   FillPC, FilledPC

\* buildLayer returns: the layer above was found missing, and still is.
LEMMA LayerDoneMissing ==
  ASSUME NEW p \in Creators, Types, Missing(p), cpc[p] \in PullPC, LayerDone(p),
         \A n \in Name : n.chain # Layer(p) => vol'[n] = vol[n]
  PROVE  /\ Download(p)' /\ cpc'[p] \notin TempPC
         /\ \A q \in Creators \ {p} : cpc'[q] = cpc[q] /\ job'[q] = job[q]
<1> USE DEF PullPC, BuildPC, TempPC, FillPC, FilledPC
<1>1. /\ cpc \in [Creators -> CreatorPC] /\ job \in [Creators -> Job] /\ Creating(p)
      /\ job[p].index \in 1 .. Len(job[p].image) /\ Len(job[p].image) \in Nat
  BY KeyFacts DEF Types, TypeOK, CreatorTypeOK, IndexOK, Creating
<1>2. \A q \in Creators \ {p} : cpc'[q] = cpc[q] /\ job'[q] = job[q]
  BY <1>1 DEF LayerDone
<1>3. CASE job[p].index = Len(job[p].image)
  <2>1. cpc'[p] = "mkimage"
    BY <1>1, <1>3 DEF LayerDone
  <2>2. QED
    BY <1>2, <2>1, OutsideKeeps
<1>4. CASE job[p].index # Len(job[p].image)
  <2>1. cpc'[p] = "stream" /\ job' = [job EXCEPT ![p].index = job[p].index + 1]
    BY <1>1, <1>4 DEF LayerDone
  <2>2. job'[p].image = job[p].image /\ job'[p].index = job[p].index + 1
    BY <1>1, <2>1 DEF Job
  <2>3. ASSUME NEW j \in 1 .. Len(job[p].image), j > job[p].index
        PROVE  vol'[Final(job[p].image[j])] = "absent"
    <3>1. job[p].image[j] # Layer(p) /\ job[p].image[j] \in Chain
      BY <1>1, <2>3, KeyFacts
    <3>2. Final(job[p].image[j]) \in Name /\ Final(job[p].image[j]).chain = job[p].image[j]
      BY <3>1, NameFacts
    <3>3. QED
      BY <1>1, <2>3, <3>1, <3>2 DEF Missing
  <2>4. Layer(p)' = job[p].image[job[p].index + 1]
    BY <2>2 DEF Layer
  <2>5. Missing(p)'
    BY <1>1, <1>4, <2>1, <2>2, <2>3, <2>4 DEF Missing
  <2>6. QED
    BY <1>2, <2>1, <2>5 DEF Download, Temporary, Linked, Unpacking, Moving
<1>5. QED
  BY <1>3, <1>4

\* The steps of Pull before and between downloads.
LEMMA ProbeKeeps ==
  ASSUME NEW p \in Creators, Types, LockInv, VolumeInv,
         \/ LockGlobalShared(p) \/ ProbeVolume(p) \/ LockChain(p)
         \/ ReprobeHit(p) \/ ReprobeMiss(p)
  PROVE  VolumeInv'
<1> USE DEF PullPC, BuildPC, TempPC, FillPC, FilledPC, Step
<1>1. /\ cpc \in [Creators -> CreatorPC] /\ job \in [Creators -> Job]
      /\ job[p].index \in Nat /\ Len(job[p].image) \in Nat
      /\ Missing(p)
  BY KeyFacts DEF Types, TypeOK, CreatorTypeOK, VolumeInv, Download
<1>2. UNCHANGED <<vol, link, sym>>
  BY DEF LockGlobalShared, ProbeVolume, LockChain, ReprobeHit, ReprobeMiss, volVars
<1>3. CASE LockGlobalShared(p)
  <2>1. /\ cpc'[p] = "probe" /\ job'[p].index = Len(job[p].image)
        /\ job'[p].image = job[p].image
        /\ \A q \in Creators \ {p} : cpc'[q] = cpc[q] /\ job'[q] = job[q]
    BY <1>1, <1>3 DEF LockGlobalShared, Job
  <2>2. Download(p)'
    BY <1>1, <2>1 DEF Download, Missing, Temporary, Linked, Unpacking, Moving
  <2>3. QED
    BY <1>2, <2>1, <2>2, QuietKeeps
<1>4. CASE (ProbeVolume(p) \/ ReprobeHit(p)) /\ LayerDone(p)
  BY <1>1, <1>2, <1>4, LayerDoneMissing, QuietKeeps DEF ProbeVolume, ReprobeHit
<1>5. CASE ProbeVolume(p) \/ LockChain(p) \/ ReprobeMiss(p)
  <2>1. CASE ReprobeMiss(p) /\ job[p].index > 1
    <3>1. /\ cpc'[p] = "probe" /\ job'[p].index = job[p].index - 1
          /\ job'[p].image = job[p].image
          /\ \A q \in Creators \ {p} : cpc'[q] = cpc[q] /\ job'[q] = job[q]
      BY <1>1, <2>1 DEF ReprobeMiss, Job
    <3>2. cpc[p] = "reprobe" /\ vol[Final(job[p].image[job[p].index])] = "absent"
      BY <2>1 DEF ReprobeMiss, VolumeExists, Layer
    <3>3. \A j \in 1 .. Len(job[p].image) :
            j > job[p].index - 1 => vol[Final(job[p].image[j])] = "absent"
      BY <1>1, <3>2 DEF Missing
    <3>4. Download(p)'
      BY <1>1, <1>2, <3>1, <3>3 DEF Download, Missing, Temporary, Linked, Unpacking, Moving
    <3>5. QED
      BY <1>2, <3>1, <3>4, QuietKeeps
  <2>2. CASE ReprobeMiss(p) /\ ~(job[p].index > 1)
    <3>1. /\ cpc'[p] = "stream" /\ job' = job /\ cpc[p] = "reprobe"
          /\ vol[Final(Layer(p))] = "absent"
          /\ \A q \in Creators \ {p} : cpc'[q] = cpc[q]
      BY <1>1, <2>2 DEF ReprobeMiss, VolumeExists
    <3>2. Download(p)'
      BY <1>1, <1>2, <3>1 DEF Download, Missing, Temporary, Linked, Unpacking, Moving, Layer
    <3>3. QED
      BY <1>2, <3>1, <3>2, QuietKeeps
  <2>3. CASE LockChain(p) \/ (ProbeVolume(p) /\ ~VolumeExists(Final(Layer(p))))
    <3>1. /\ cpc[p] \in PullPC /\ cpc'[p] \in {"clock", "reprobe"} /\ job' = job
          /\ \A q \in Creators \ {p} : cpc'[q] = cpc[q]
      BY <1>1, <2>3 DEF LockChain, ProbeVolume
    <3>2. Download(p)'
      BY <1>1, <1>2, <3>1 DEF Download, Missing, Temporary, Linked, Unpacking, Moving
    <3>3. QED
      BY <1>2, <3>1, <3>2, QuietKeeps
  <2>4. QED
    BY <1>4, <1>5, <2>1, <2>2, <2>3 DEF ProbeVolume
<1>6. QED
  BY <1>3, <1>4, <1>5 DEF ReprobeHit

\* The steps of a download, from CreateVolume to MoveVolume.
LEMMA DownloadKeeps ==
  ASSUME NEW p \in Creators, Types, LockInv, VolumeInv,
         \/ StreamAndMkdir(p) \/ CreateSymlink(p) \/ CreateLinkFile(p) \/ Unpack(p)
         \/ UnpackFails(p) \/ DestroyVolumeSymlink(p) \/ DestroyVolumeLinkFile(p)
         \/ FinalizeMeta(p) \/ FinalizeLinkFile(p) \/ FinalizeUnlink(p)
         \/ FinalizeSymlink(p) \/ FinalizeDir(p)
  PROVE  VolumeInv'
<1> USE DEF BuildPC, PullPC, TempPC, FillPC, FilledPC, Step
<1> DEFINE c == Layer(p)
           tok == job[p].token
           tv == TempVolume(p)
<1>1. /\ cpc \in [Creators -> CreatorPC] /\ job \in [Creators -> Job] /\ VolTypeOK
      /\ cpc[p] \in BuildPC /\ cpc[p] # "reprobe"
      /\ Missing(p) /\ Temporary(p) /\ Linked(p)
  BY DEF StreamAndMkdir, CreateSymlink, CreateLinkFile, Unpack, UnpackFails,
     DestroyVolumeSymlink, DestroyVolumeLinkFile, FinalizeMeta, FinalizeLinkFile,
     FinalizeUnlink, FinalizeSymlink, FinalizeDir, Types, TypeOK, CreatorTypeOK,
     VolumeInv, Download
<1>2. /\ c \in Chain /\ tok \in Token /\ tok # None
      /\ Final(c) \in Name /\ Final(c).chain = c /\ Final(c).gc = FALSE /\ Final(c).tmp = None
      /\ tv \in Name /\ tv.chain = c /\ tv.gc = FALSE /\ tv.tmp = tok /\ tv # Final(c)
  <2>1. c \in Chain /\ tok \in Token /\ tok # None
    BY <1>1, NameFacts, NoneAssumption
  <2>2. Final(c) \in Name /\ Final(c).chain = c /\ Final(c).gc = FALSE /\ Final(c).tmp = None
    BY <2>1, NameFacts
  <2>3. tv \in Name /\ tv.chain = c /\ tv.gc = FALSE /\ tv.tmp = tok
    BY <1>1, NameFacts
  <2>4. QED
    BY <2>1, <2>2, <2>3
<1>3. \A d \in Chain : Final(d) \in Name /\ Final(d).tmp = None /\ Final(d).chain = d
  BY NameFacts
<1>4. vol[Final(c)] = "absent"
  BY <1>1 DEF Missing
<1>5. CASE StreamAndMkdir(p)
  <2>1. PICK t \in Token : /\ Fresh(t) /\ job' = [job EXCEPT ![p].token = t]
                           /\ MakeVolumeDir(Incomplete(c, t))
    BY <1>5 DEF StreamAndMkdir
  <2>2. /\ job'[p].image = job[p].image /\ job'[p].index = job[p].index /\ job'[p].token = t
        /\ cpc'[p] = "symlink" /\ cpc[p] = "stream"
        /\ \A q \in Creators \ {p} : cpc'[q] = cpc[q] /\ job'[q] = job[q]
    BY <1>1, <1>5, <2>1 DEF StreamAndMkdir, Job
  <2>3. /\ Layer(p)' = c /\ TempVolume(p)' = Incomplete(c, t)
        /\ Incomplete(c, t) \in Name /\ Incomplete(c, t).chain = c
        /\ Incomplete(c, t).tmp = t /\ t # None
        /\ \A d \in Chain : Incomplete(c, t) # Final(d)
    BY <1>2, <2>2, NameFacts, NoneAssumption DEF Layer, TempVolume
  <2>4. /\ vol' = [vol EXCEPT ![Incomplete(c, t)] = "partial"]
        /\ UNCHANGED <<link, sym>>
    BY <2>1 DEF MakeVolumeDir
  <2>5. Download(p)'
    <3>1. \A d \in Chain : vol'[Final(d)] = vol[Final(d)]
      BY <1>1, <1>3, <2>3, <2>4 DEF VolTypeOK
    <3>2. \A j \in 1 .. Len(job[p].image) : job[p].image[j] \in Chain
      BY KeyFacts
    <3>3. Missing(p)'
      BY <1>1, <1>2, <1>4, <2>2, <2>3, <3>1, <3>2 DEF Missing
    <3>4. Temporary(p)'
      BY <1>1, <2>2, <2>3, <2>4 DEF Temporary, VolTypeOK
    <3>5. Linked(p)'
      BY <2>1, <2>2, <2>4 DEF Linked, Unpacking, Moving, Fresh
    <3>6. QED
      BY <3>3, <3>4, <3>5 DEF Download
  <2>6. ASSUME NEW q \in Creators \ {p}, cpc[q] \in TempPC PROVE job[q].token # t
    <3>1. TempVolume(q) \in Name /\ TempVolume(q).tmp = job[q].token
      BY <2>6, NameFacts
    <3>2. vol[TempVolume(q)] # "absent"
      BY <2>6 DEF VolumeInv, Download, Temporary
    <3>3. QED
      BY <2>1, <3>1, <3>2 DEF Fresh, VolumeExists
  <2>7. /\ \A n \in Name : n.chain # c => vol'[n] = vol[n]
        /\ \A d \in Chain : vol'[Final(d)] = vol[Final(d)]
    BY <1>1, <1>3, <2>3, <2>4 DEF VolTypeOK
  <2>8. QED
    BY <1>1, <2>2, <2>4, <2>5, <2>6, <2>7, CreateKeeps
<1>6. ASSUME job' = job PROVE Layer(p)' = c /\ TempVolume(p)' = tv
  BY <1>6 DEF Layer, TempVolume
<1>7. CASE CreateSymlink(p) \/ FinalizeSymlink(p) \/ FinalizeUnlink(p)
  <2>1. /\ job' = job /\ UNCHANGED <<vol, link>>
        /\ \A q \in Creators \ {p} : cpc'[q] = cpc[q]
        /\ \A t \in Token : t # tok => sym'[t] = sym[t]
    BY <1>1, <1>7 DEF CreateSymlink, FinalizeSymlink, FinalizeUnlink, MakeSymlink,
       RemoveSymlink, GiveUpPull, VolTypeOK, volVars
  <2>2. CASE CreateSymlink(p)
    <3>1. cpc[p] = "symlink" /\ cpc'[p] = "linkfile" /\ sym'[tok] = tv
      BY <1>1, <1>2, <2>2 DEF CreateSymlink, MakeSymlink, VolTypeOK
    <3>2. Download(p)'
      BY <1>1, <1>6, <2>1, <3>1 DEF Download, Missing, Temporary, Linked, Unpacking, Moving
    <3>3. QED
      BY <1>1, <2>1, <3>1, <3>2, CreateKeeps
  <2>3. CASE FinalizeSymlink(p)
    <3>1. cpc[p] = "mvsymlink" /\ cpc'[p] = "mvdir"
      BY <1>1, <2>3 DEF FinalizeSymlink
    <3>2. Download(p)'
      BY <1>1, <1>6, <2>1, <3>1 DEF Download, Missing, Temporary, Linked, Unpacking, Moving
    <3>3. QED
      BY <1>1, <2>1, <3>1, <3>2, CreateKeeps
  <2>4. CASE FinalizeUnlink(p)
    <3>1. cpc[p] = "mvunlink" /\ cpc'[p] \in {"mvsymlink", "unlock"}
      BY <1>1, <2>4 DEF FinalizeUnlink, GiveUpPull
    <3>2. Download(p)'
      BY <1>1, <1>6, <2>1, <3>1 DEF Download, Missing, Temporary, Linked, Unpacking, Moving
    <3>3. QED
      BY <1>1, <2>1, <3>1, <3>2, CreateKeeps
  <2>5. QED
    BY <1>7, <2>2, <2>3, <2>4
<1>8. CASE CreateLinkFile(p)
  <2>1. /\ cpc[p] = "linkfile" /\ cpc'[p] = "unpack" /\ job' = job
        /\ \A q \in Creators \ {p} : cpc'[q] = cpc[q]
        /\ link' = [link EXCEPT ![tv] = tok] /\ UNCHANGED <<vol, sym>>
    BY <1>1, <1>8 DEF CreateLinkFile, WriteLinkFile
  <2>2. link'[tv] = tok /\ \A n \in Name : n # tv => link'[n] = link[n]
    BY <1>1, <1>2, <2>1 DEF VolTypeOK
  <2>3. Download(p)'
    BY <1>1, <1>2, <1>6, <2>1, <2>2
       DEF Download, Missing, Temporary, Linked, Unpacking, Moving
  <2>4. QED
    BY <1>1, <1>2, <2>1, <2>2, <2>3, CreateKeeps
<1>9. CASE Unpack(p)
  <2>1. /\ cpc[p] = "unpack" /\ cpc'[p] = "meta" /\ job' = job
        /\ \A q \in Creators \ {p} : cpc'[q] = cpc[q]
        /\ vol' = [vol EXCEPT ![tv] = "whole"] /\ UNCHANGED <<link, sym>>
    BY <1>1, <1>9 DEF Unpack, FillVolume
  <2>2. vol'[tv] = "whole" /\ \A n \in Name : n # tv => vol'[n] = vol[n]
    BY <1>1, <1>2, <2>1 DEF VolTypeOK
  <2>3. \A d \in Chain : Final(d) # tv /\ vol'[Final(d)] = vol[Final(d)]
    BY <1>2, <1>3, <2>2
  <2>4. Missing(p)'
    BY <1>1, <1>2, <1>6, <2>1, <2>3, KeyFacts DEF Missing
  <2>5. Download(p)'
    BY <1>1, <1>6, <2>1, <2>2, <2>4 DEF Download, Temporary, Linked, Unpacking, Moving
  <2>6. QED
    BY <1>1, <1>2, <2>1, <2>2, <2>3, <2>5, CreateKeeps
<1>10. CASE UnpackFails(p) \/ FinalizeMeta(p)
  <2>1. /\ job' = job /\ UNCHANGED <<vol, link, sym>>
        /\ \A q \in Creators \ {p} : cpc'[q] = cpc[q]
        /\ \/ cpc[p] = "unpack" /\ cpc'[p] = "dvsym"
           \/ cpc[p] = "meta" /\ cpc'[p] = "mvlink"
    BY <1>1, <1>10 DEF UnpackFails, FinalizeMeta, WriteVolumeMeta, volVars
  <2>2. Download(p)'
    BY <1>1, <1>6, <2>1 DEF Download, Missing, Temporary, Linked, Unpacking, Moving
  <2>3. QED
    BY <1>1, <2>1, <2>2, QuietKeeps
<1>11. CASE DestroyVolumeSymlink(p)
  <2>1. /\ cpc[p] = "dvsym" /\ cpc'[p] = "dvlink" /\ job' = job /\ UNCHANGED <<vol, link>>
        /\ \A q \in Creators \ {p} : cpc'[q] = cpc[q]
        /\ \A t \in Token : sym'[t] = sym[t] \/ link[Final(c)] = t
    BY <1>1, <1>2, <1>11 DEF DestroyVolumeSymlink, RemoveVolumeSymlink, VolTypeOK
  <2>2. Download(p)'
    BY <1>1, <1>6, <2>1 DEF Download, Missing, Temporary, Linked, Unpacking, Moving
  <2>3. QED
    BY <1>1, <1>2, <2>1, <2>2, CreateKeeps
<1>12. CASE DestroyVolumeLinkFile(p)
  <2>1. /\ cpc[p] = "dvlink" /\ cpc'[p] = "dvmeta" /\ job' = job /\ UNCHANGED <<vol, sym>>
        /\ \A q \in Creators \ {p} : cpc'[q] = cpc[q]
        /\ \A n \in Name : link'[n] = IF n = Final(c) THEN None ELSE link[n]
    BY <1>1, <1>2, <1>12 DEF DestroyVolumeLinkFile, RemoveLinkFile, VolTypeOK
  <2>2. Download(p)'
    BY <1>1, <1>6, <2>1 DEF Download, Missing, Temporary, Linked, Unpacking, Moving
  <2>3. QED
    BY <1>1, <1>2, <2>1, <2>2, CreateKeeps
<1>13. CASE FinalizeLinkFile(p)
  <2>1. CASE Movable(tv)
    <3>1. /\ cpc[p] = "mvlink" /\ cpc'[p] = "mvunlink" /\ job' = job /\ UNCHANGED <<vol, sym>>
          /\ \A q \in Creators \ {p} : cpc'[q] = cpc[q]
          /\ link' = [link EXCEPT ![Final(c)] = link[tv], ![tv] = None]
      BY <1>1, <1>13, <2>1 DEF FinalizeLinkFile, MoveLinkFile
    <3>2. link[tv] = tok
      BY <1>1, <3>1 DEF Linked, Unpacking
    <3>3. \A n \in Name : link'[n] = IF n = tv THEN None
                                     ELSE IF n = Final(c) THEN tok ELSE link[n]
      BY <1>1, <1>2, <3>1, <3>2 DEF VolTypeOK
    <3>4. Download(p)'
      BY <1>1, <1>2, <1>6, <3>1, <3>3
         DEF Download, Missing, Temporary, Linked, Unpacking, Moving
    <3>5. QED
      BY <1>1, <1>2, <3>1, <3>3, <3>4, CreateKeeps
  <2>2. CASE ~Movable(tv)
    <3>1. /\ cpc'[p] = "unlock" /\ job' = job /\ UNCHANGED <<vol, link, sym>>
          /\ \A q \in Creators \ {p} : cpc'[q] = cpc[q]
      BY <1>1, <1>13, <2>2 DEF FinalizeLinkFile, GiveUpPull, volVars
    <3>2. QED
      BY <1>1, <3>1, OutsideKeeps, QuietKeeps
  <2>3. QED
    BY <2>1, <2>2
<1>14. CASE FinalizeDir(p)
  <2>1. /\ cpc[p] = "mvdir" /\ LayerDone(p) /\ UNCHANGED <<link, sym>>
        /\ vol' = [vol EXCEPT ![Final(c)] = vol[tv], ![tv] = "absent"]
    BY <1>4, <1>14 DEF FinalizeDir, RenameVolumeDir, VolumeExists
  <2>2. vol[tv] = "whole"
    BY <1>1, <2>1 DEF Temporary
  <2>3. \A n \in Name : vol'[n] = IF n = tv THEN "absent"
                                  ELSE IF n = Final(c) THEN "whole" ELSE vol[n]
    BY <1>1, <1>2, <2>1, <2>2 DEF VolTypeOK
  <2>4. /\ \A n \in Name : n.chain # c => vol'[n] = vol[n]
        /\ \A d \in Chain : vol'[Final(d)] \in {vol[Final(d)], "whole"}
    BY <1>2, <1>3, <2>3
  <2>5. /\ Download(p)' /\ cpc'[p] \notin TempPC
        /\ \A q \in Creators \ {p} : cpc'[q] = cpc[q] /\ job'[q] = job[q]
    BY <1>1, <2>1, <2>4, LayerDoneMissing
  <2>6. QED
    BY <1>1, <2>1, <2>4, <2>5, CreateKeeps
<1>15. QED
  BY <1>5, <1>7, <1>8, <1>9, <1>10, <1>11, <1>12, <1>13, <1>14

\* Every step of a create keeps its own download and those of others.
LEMMA CreateVolumes ==
  ASSUME NEW p \in Creators, Types, LockInv, VolumeInv, Create(p)
  PROVE  VolumeInv'
<1> USE DEF BuildPC, PullPC, TempPC, FillPC, FilledPC, Step
<1>1. cpc \in [Creators -> CreatorPC] /\ job \in [Creators -> Job]
  BY DEF Types, TypeOK, CreatorTypeOK
<1>2. CASE \/ \E i \in Id, image \in Image : StartCreate(p, i, image)
           \/ FetchBaseImageInfoFails(p) \/ DestroyVolumeMeta(p) \/ PullFails(p)
           \/ MkdirImage(p) \/ MkdirImageExists(p) \/ CreateImage(p)
           \/ CreateImageNotReady(p) \/ CreateImageFails(p) \/ SetOwnership(p)
           \/ SetOwnershipFails(p) \/ RegisterOpen(p) \/ RegisterWrite(p)
           \/ RegisterFails(p) \/ UndoUnmount(p) \/ UndoRemove(p) \/ UndoFails(p)
           \/ EndCreate(p) \/ KillCreate(p)
  <2>1. /\ UNCHANGED <<vol, link, sym>>
        /\ \E l \in CreatorPC \ PullPC : cpc' = [cpc EXCEPT ![p] = l]
        /\ UNCHANGED job \/ \E j : job' = [job EXCEPT ![p] = j]
    BY <1>2 DEF StartCreate, FetchBaseImageInfoFails, DestroyVolumeMeta, PullFails,
       MkdirImage, MkdirImageExists, CreateImage, CreateImageNotReady, CreateImageFails,
       SetOwnership, SetOwnershipFails, RegisterOpen, RegisterWrite, RegisterFails,
       UndoUnmount, UndoRemove, UndoFails, EndCreate, KillCreate, GiveUpPull, RemoveVolumeMeta,
       volVars, CreatorPC
  <2>2. /\ cpc'[p] \notin PullPC
        /\ \A q \in Creators \ {p} : cpc'[q] = cpc[q] /\ job'[q] = job[q]
    BY <1>1, <2>1
  <2>3. QED
    BY <2>1, <2>2, OutsideKeeps, QuietKeeps
<1>3. QED
  BY <1>2, ProbeKeeps, DownloadKeeps DEF Create, CreateStep, CreateFault

------------------------------------------------------------------------------
(* Cleans and deletes *)

\* A marking clean meets no download; another one touches gc. volumes only.
LEMMA CleanVolumes ==
  ASSUME NEW g \in Cleaners, Types, LockInv, VolumeInv, Clean(g)
  PROVE  VolumeInv'
<1> USE DEF At, Goto
<1>1. /\ UNCHANGED creatorVars /\ VolTypeOK /\ CleanNames
      /\ \A n \in Name : GcName(n) \in Name /\ GcName(n).gc = TRUE
      /\ \A c \in Chain : Final(c) \in Name /\ Final(c).gc = FALSE
  BY DEF Clean, Types, TypeOK, Name, GcName, Final
<1>2. TokensApart'
  BY <1>1 DEF creatorVars, VolumeInv, TokensApart
<1>3. CASE Marking(g)
  <2>1. \A q \in Creators : Download(q)'
    <3>1. \A q \in Creators : ~Creating(q)
      BY <1>3, Exclusion
    <3>2. \A q \in Creators : cpc'[q] \notin PullPC
      BY <1>1, <3>1 DEF Creating, PullPC, BuildPC, creatorVars
    <3>3. QED
      BY <3>2, OutsideKeeps
  <2>2. UNCHANGED vol \/ MarkDir(g)
    BY <1>3 DEF Clean, CleanStep, CleanFault, StartClean, LockGC, LockGCTimeout, Measure,
       LockGlobalExclusive, LockGlobalTimeout, LockGlobalLate, ListVolumesAndImages,
       ReadDependencies, ReadDependenciesError, DependenciesRead, MarkNext, MarkUnlink,
       MarkSymlink, MarkMeta, UnusedVolumesFails, MarkNextFails, MarkFails, MarkDone,
       UnlockGlobal, GcVolumes, GcVolumesFails, DestroyNext, DestroyNextFails, DestroyMetaFails,
       DestroyLinkFile, DestroyMeta, DestroyDirBegin, DestroyDirEnd, DestroyFails,
       CollectDone, EndClean, CleaningTimeout, KillClean, MoveLinkFile, RemoveSymlink,
       MakeSymlink, MoveVolumeMeta, volVars, Marking
  <2>3. PublishedWhole'
    <3>1. CASE UNCHANGED vol
      BY <3>1 DEF VolumeInv, PublishedWhole, VolumeExists
    <3>2. CASE MarkDir(g)
      <4>1. cur[g] \in Name
        BY <1>1, <3>2 DEF MarkDir, CleanNames, MarkPC
      <4>2. \A c \in Chain : vol'[Final(c)] \in {vol[Final(c)], "absent"}
        BY <1>1, <3>2, <4>1 DEF MarkDir, RenameVolumeDir, VolTypeOK
      <4>3. QED
        BY <4>2 DEF VolumeInv, PublishedWhole, VolumeExists
    <3>3. QED
      BY <2>2, <3>1, <3>2
  <2>4. QED
    BY <1>2, <2>1, <2>3 DEF VolumeInv
<1>4. CASE ~Marking(g)
  <2>1. \/ UNCHANGED <<vol, link, sym>>
        \/ \E n \in Name : DestroyNext(g, n)
        \/ DestroyLinkFile(g) \/ DestroyDirBegin(g) \/ DestroyDirEnd(g)
    BY <1>4 DEF Clean, CleanStep, CleanFault, StartClean, LockGC, LockGCTimeout, Measure,
       LockGlobalExclusive, LockGlobalTimeout, LockGlobalLate, ListVolumesAndImages,
       ReadDependencies, ReadDependenciesError, DependenciesRead, MarkNext, MarkUnlink,
       MarkSymlink, MarkDir, MarkMeta, UnusedVolumesFails, MarkNextFails, MarkFails, MarkDone,
       UnlockGlobal, GcVolumes, GcVolumesFails, DestroyNextFails, DestroyMeta,
       DestroyMetaFails, RemoveVolumeMeta, DestroyFails, CollectDone, EndClean,
       CleaningTimeout, KillClean, volVars, Marking
  <2>2. /\ \A n \in Name : ~n.gc => vol'[n] = vol[n] /\ link'[n] = link[n]
        /\ \A n \in Name : link'[n] \in {link[n], None}
        /\ \A t \in Token : sym'[t] = sym[t] \/ \E n \in Name : n.gc /\ link[n] = t
    <3>1. CASE UNCHANGED <<vol, link, sym>>
      BY <3>1
    <3>2. CASE \E n \in Name : DestroyNext(g, n)
      <4>1. PICK n \in Name : DestroyNext(g, n)
        BY <3>2
      <4>2. n.gc
        BY <1>1, <4>1 DEF DestroyNext, CleanNames
      <4>3. UNCHANGED <<vol, link>> /\ \A t \in Token : sym'[t] = sym[t] \/ link[n] = t
        BY <1>1, <4>1 DEF DestroyNext, RemoveVolumeSymlink, VolTypeOK
      <4>4. QED
        BY <4>2, <4>3
    <3>3. CASE DestroyLinkFile(g) \/ DestroyDirBegin(g) \/ DestroyDirEnd(g)
      <4>1. cur[g] \in Name /\ cur[g].gc = TRUE
        BY <1>1, <3>3 DEF DestroyLinkFile, DestroyDirBegin, DestroyDirEnd, CleanNames,
           DestroyPC
      <4>2. /\ sym' = sym
            /\ \A n \in Name : n # cur[g] => vol'[n] = vol[n] /\ link'[n] = link[n]
            /\ \A n \in Name : link'[n] \in {link[n], None}
        BY <1>1, <3>3, <4>1 DEF DestroyLinkFile, DestroyDirBegin, DestroyDirEnd,
           RemoveLinkFile, RemoveVolumeDir, VolTypeOK
      <4>3. QED
        BY <4>1, <4>2
    <3>4. QED
      BY <2>1, <3>1, <3>2, <3>3
  <2>3. \A q \in Creators : Download(q)'
    BY <1>1, <2>2, GcCallsApart
  <2>4. PublishedWhole'
    BY <1>1, <2>2 DEF VolumeInv, PublishedWhole, VolumeExists
  <2>5. QED
    BY <1>2, <2>3, <2>4 DEF VolumeInv
<1>5. QED
  BY <1>3, <1>4

\* A step that touches neither volumes nor creates.
LEMMA VolumesFrame ==
  ASSUME VolumeInv, UNCHANGED <<vol, link, sym, cpc, job>>
  PROVE  VolumeInv'
BY DEF VolumeInv, PublishedWhole, VolumeExists, TokensApart, Download, Missing,
   Temporary, Linked, Layer, TempVolume, Unpacking, Moving

\* There is no volume and no download in the initial state.
LEMMA InitVolumes == Init => VolumeInv
BY DEF Init, VolInit, CreatorInit, VolumeInv, PublishedWhole, VolumeExists, TokensApart,
   Download, Missing, Temporary, Linked, Unpacking, Moving, PullPC, BuildPC, TempPC,
   FillPC, FilledPC, Final, Name

\* Every step of any command keeps the volume invariant.
LEMMA NextVolumes == Types /\ LockInv /\ VolumeInv /\ [Next]_vars => VolumeInv'
<1> SUFFICES ASSUME Types, LockInv, VolumeInv, [Next]_vars PROVE VolumeInv'
  OBVIOUS
<1>1. CASE UNCHANGED vars
  BY <1>1, VolumesFrame DEF vars, volVars, creatorVars
<1>2. CASE \E d \in Deleters : Delete(d)
  <2>1. UNCHANGED <<vol, link, sym, cpc, job>>
    BY <1>2 DEF Delete, DeleteStep, DeleteFault, StartDelete, DestroyImage, RemoveImage,
       DeleteFails, Deregister, KillDelete, volVars, creatorVars
  <2>2. QED
    BY <2>1, VolumesFrame
<1>3. QED
  BY <1>1, <1>2, CreateVolumes, CleanVolumes DEF Next, Rest

\* The volume invariant is an invariant of the specification.
LEMMA AlwaysVolumes == Spec => [](Types /\ LockInv /\ VolumeInv)
<1>1. QED
  BY AlwaysLocks, InitVolumes, NextVolumes, PTL DEF Spec

\* A volume that is there under its chain id is a whole layer, whatever
\* fails, is killed or times out: buildLayer may trust volumeExists.
THEOREM Published == Spec => []PublishedWhole
<1>1. VolumeInv => PublishedWhole
  BY DEF VolumeInv
<1>2. QED
  BY <1>1, AlwaysVolumes, PTL

\* From its CreateVolume to its MoveVolume a download finds its volume, link
\* file and symlink as it left them, and its chain id free.
THEOREM Undisturbed == Spec => []DownloadsUndisturbed
<1>1. Types /\ VolumeInv => DownloadsUndisturbed
  BY DEF VolumeInv, Download, Missing, Temporary, Linked, DownloadsUndisturbed,
     VolumeExists, Unpacking, Moving, BuildPC, FillPC, FilledPC
<1>2. QED
  BY <1>1, AlwaysVolumes, PTL

------------------------------------------------------------------------------
(* Short ids *)

\* A short id is in one link file at most.
LinksApart ==
  \A n, m \in Name : link[n] = link[m] /\ link[n] # None => n = m

\* A download's short id before its link file is written, and when the
\* volume is about to appear under its chain id.
ShortId(p) ==
  /\ cpc[p] \in {"symlink", "linkfile"} => \A n \in Name : link[n] # job[p].token
  /\ cpc[p] = "mvdir" => sym[job[p].token] = Final(Layer(p))

\* Clean renames the link file of a volume first: what it has in hand cannot
\* be found by CreateImage any more.
InHandUnlinked == \A g \in Cleaners : gpc[g] \in MarkPC => link[cur[g]] = None

\* A published volume that has a short id is reached through it.
Reached(c) ==
  VolumeExists(Final(c)) /\ link[Final(c)] # None => sym[link[Final(c)]] = Final(c)

LinkInv ==
  /\ LinksApart /\ InHandUnlinked
  /\ \A p \in Creators : ShortId(p)
  /\ \A c \in Chain : Reached(c)

\* A step leaves the four parts of volume n alone.
Untouched(n) ==
  /\ vol'[n] = vol[n]
  /\ link'[n] = link[n]
  /\ n \in meta' <=> n \in meta
  /\ link[n] # None => sym'[link[n]] = sym[link[n]]

------------------------------------------------------------------------------
(* What the steps of the commands touch *)

\* A step that changes no volume touches none.
LEMMA QuietTouches ==
  ASSUME UNCHANGED volVars PROVE \A n : Untouched(n)
BY DEF volVars, Untouched

\* A volume that is not touched is as usable as before.
LEMMA UntouchedUsable ==
  ASSUME NEW n, Untouched(n)
  PROVE  (Usable(n)' <=> Usable(n)) /\ (VolumeExists(n)' <=> VolumeExists(n))
BY DEF Untouched, Usable, VolumeExists

\* The actions of a create that change volumes.
CreateTouchesVolumes(p) ==
  \/ StreamAndMkdir(p) \/ CreateSymlink(p) \/ CreateLinkFile(p) \/ Unpack(p)
  \/ DestroyVolumeSymlink(p) \/ DestroyVolumeLinkFile(p) \/ DestroyVolumeMeta(p)
  \/ FinalizeMeta(p) \/ FinalizeLinkFile(p) \/ FinalizeUnlink(p)
  \/ FinalizeSymlink(p) \/ FinalizeDir(p)

\* The others do not; and no create changes the state of another command.
LEMMA CreateFrame ==
  ASSUME NEW p \in Creators, Types, Create(p)
  PROVE  /\ UNCHANGED volVars \/ CreateTouchesVolumes(p)
         /\ CreateTouchesVolumes(p) => cpc[p] \in BuildPC \ {"reprobe"} /\ UNCHANGED imgVars
         /\ UNCHANGED <<cleanerVars, deleterVars>>
         /\ \A q \in Creators \ {p} : cpc'[q] = cpc[q] /\ job'[q] = job[q]
<1>1. UNCHANGED volVars \/ CreateTouchesVolumes(p)
  BY DEF Create, CreateStep, CreateFault, CreateTouchesVolumes, StartCreate, LockGlobalShared,
     ProbeVolume, LockChain, ReprobeHit, ReprobeMiss, MkdirImage, MkdirImageExists,
     CreateImage, CreateImageNotReady, SetOwnership, RegisterOpen, RegisterWrite,
     UndoUnmount, UndoRemove, EndCreate, FetchBaseImageInfoFails, UnpackFails, PullFails,
     CreateImageFails, SetOwnershipFails, RegisterFails, UndoFails, KillCreate
<1>2. CreateTouchesVolumes(p) => cpc[p] \in BuildPC \ {"reprobe"} /\ UNCHANGED imgVars
  BY DEF CreateTouchesVolumes, StreamAndMkdir, CreateSymlink, CreateLinkFile, Unpack,
     DestroyVolumeSymlink, DestroyVolumeLinkFile, DestroyVolumeMeta, FinalizeMeta,
     FinalizeLinkFile, FinalizeUnlink, FinalizeSymlink, FinalizeDir, Step, BuildPC
<1>3. cpc \in [Creators -> CreatorPC] /\ job \in [Creators -> Job]
  BY DEF Types, TypeOK, CreatorTypeOK
<1>4. \E l : cpc' = [cpc EXCEPT ![p] = l]
  BY DEF Create, CreateStep, CreateFault, StartCreate, LockGlobalShared,
     ProbeVolume, LockChain, ReprobeHit, ReprobeMiss, MkdirImage, MkdirImageExists,
     CreateImage, CreateImageNotReady, SetOwnership, RegisterOpen, RegisterWrite,
     UndoUnmount, UndoRemove, EndCreate, FetchBaseImageInfoFails, UnpackFails, PullFails,
     CreateImageFails, SetOwnershipFails, RegisterFails, UndoFails, KillCreate,
     StreamAndMkdir, CreateSymlink, CreateLinkFile, Unpack, GiveUpPull, LayerDone,
     DestroyVolumeSymlink, DestroyVolumeLinkFile, DestroyVolumeMeta, FinalizeMeta,
     FinalizeLinkFile, FinalizeUnlink, FinalizeSymlink, FinalizeDir, Step
<1>5. \E j : job' = [job EXCEPT ![p] = j]
  <2>1. \/ UNCHANGED job \/ LockGlobalShared(p) \/ ReprobeMiss(p) \/ LayerDone(p)
        \/ StreamAndMkdir(p) \/ \E j : job' = [job EXCEPT ![p] = j]
    BY DEF Create, CreateStep, CreateFault, StartCreate,
       ProbeVolume, LockChain, ReprobeHit, MkdirImage, MkdirImageExists,
       CreateImage, CreateImageNotReady, SetOwnership, RegisterOpen, RegisterWrite,
       UndoUnmount, UndoRemove, EndCreate, FetchBaseImageInfoFails, UnpackFails, PullFails,
       CreateImageFails, SetOwnershipFails, RegisterFails, UndoFails, KillCreate,
       CreateSymlink, CreateLinkFile, Unpack,
       DestroyVolumeSymlink, DestroyVolumeLinkFile, DestroyVolumeMeta, FinalizeMeta,
       FinalizeLinkFile, FinalizeUnlink, FinalizeSymlink, FinalizeDir
  <2>2. job = [job EXCEPT ![p] = job[p]]
    BY <1>3
  <2>3. CASE LockGlobalShared(p)
    BY <2>3 DEF LockGlobalShared
  <2>4. CASE ReprobeMiss(p) \/ LayerDone(p)
    BY <2>2, <2>4 DEF ReprobeMiss, LayerDone
  <2>5. CASE StreamAndMkdir(p)
    BY <2>5 DEF StreamAndMkdir
  <2>6. QED
    BY <2>1, <2>2, <2>3, <2>4, <2>5
<1>6. QED
  BY <1>1, <1>2, <1>3, <1>4, <1>5 DEF Create

\* What a create knows of its layer and of the names made from it, where it
\* changes volumes.
LEMMA BuildFacts ==
  ASSUME NEW p \in Creators, Types, LockInv, VolumeInv, cpc[p] \in BuildPC \ {"reprobe"}
  PROVE  /\ Layer(p) \in Chain /\ job[p].token \in Token /\ job[p].token # None
         /\ TempVolume(p) \in Name /\ TempVolume(p).chain = Layer(p)
         /\ TempVolume(p).gc = FALSE
         /\ Final(Layer(p)) \in Name /\ Final(Layer(p)).chain = Layer(p)
         /\ Final(Layer(p)) # TempVolume(p)
         /\ vol[Final(Layer(p))] = "absent"
         /\ cpc[p] \in TempPC => \A n \in Name : link[n] = job[p].token => n.chain = Layer(p)
<1>1. cpc[p] \in PullPC
  BY DEF PullPC
<1>2. Download(p)
  BY DEF VolumeInv
<1>3. /\ Layer(p) \in Chain /\ job[p].token \in Token /\ job[p].token # None
      /\ TempVolume(p) \in Name /\ TempVolume(p).chain = Layer(p)
      /\ TempVolume(p).gc = FALSE /\ TempVolume(p).tmp = job[p].token
  BY <1>1, NameFacts, NoneAssumption
<1>4. /\ Final(Layer(p)) \in Name /\ Final(Layer(p)).chain = Layer(p)
      /\ Final(Layer(p)).tmp = None
  BY <1>3, NameFacts
<1>5. vol[Final(Layer(p))] = "absent"
  BY <1>2 DEF Download, Missing
<1>6. cpc[p] \in TempPC => \A n \in Name : link[n] = job[p].token => n.chain = Layer(p)
  BY <1>2 DEF Download, Linked
<1>7. QED
  BY <1>3, <1>4, <1>5, <1>6

\* One call of a create concerns the layer whose lock it holds: directory,
\* link file and metadata of that chain id, and short ids that are in no link
\* file of another.
LEMMA CreateCalls ==
  ASSUME NEW p \in Creators, Types, LockInv, VolumeInv, CreateTouchesVolumes(p)
  PROVE  /\ \A n \in Name : n.chain # Layer(p) =>
               vol'[n] = vol[n] /\ link'[n] = link[n] /\ (n \in meta' <=> n \in meta)
         /\ \A t \in Token : \/ sym'[t] = sym[t]
                             \/ cpc[p] \in TempPC /\ t = job[p].token
                             \/ t = link[Final(Layer(p))]
         /\ \/ FinalizeDir(p)
            \/ vol'[Final(Layer(p))] = "absent"
<1> DEFINE c == Layer(p)
           tv == TempVolume(p)
           fv == Final(Layer(p))
<1> USE DEF Step, TempPC, FillPC, FilledPC
<1>1. cpc[p] \in BuildPC \ {"reprobe"}
  BY DEF CreateTouchesVolumes, StreamAndMkdir, CreateSymlink, CreateLinkFile, Unpack,
     DestroyVolumeSymlink, DestroyVolumeLinkFile, DestroyVolumeMeta, FinalizeMeta,
     FinalizeLinkFile, FinalizeUnlink, FinalizeSymlink, FinalizeDir, BuildPC
<1>2. /\ c \in Chain /\ job[p].token \in Token /\ tv \in Name /\ tv.chain = c
      /\ fv \in Name /\ fv.chain = c /\ fv # tv /\ vol[fv] = "absent"
  BY <1>1, BuildFacts
<1>3. VolTypeOK
  BY DEF Types, TypeOK
<1> HIDE DEF c, tv, fv
<1>4. CASE StreamAndMkdir(p)
  <2>1. PICK t \in Token : MakeVolumeDir(Incomplete(Layer(p), t))
    BY <1>4 DEF StreamAndMkdir
  <2>2. /\ Incomplete(Layer(p), t) \in Name /\ Incomplete(Layer(p), t).chain = c
        /\ Incomplete(Layer(p), t) # fv
    BY <1>2, NameFacts DEF c, fv
  <2>3. QED
    BY <1>2, <1>3, <2>1, <2>2 DEF MakeVolumeDir, VolTypeOK, c, fv
<1>5. CASE CreateSymlink(p) \/ FinalizeSymlink(p)
  BY <1>2, <1>3, <1>5 DEF CreateSymlink, FinalizeSymlink, MakeSymlink, VolTypeOK, c, fv
<1>6. CASE CreateLinkFile(p)
  BY <1>2, <1>3, <1>6 DEF CreateLinkFile, WriteLinkFile, VolTypeOK, c, fv, tv
<1>7. CASE Unpack(p)
  BY <1>2, <1>3, <1>7 DEF Unpack, FillVolume, VolTypeOK, c, fv, tv
<1>8. CASE DestroyVolumeSymlink(p)
  BY <1>2, <1>3, <1>8 DEF DestroyVolumeSymlink, RemoveVolumeSymlink, VolTypeOK, c, fv
<1>9. CASE DestroyVolumeLinkFile(p)
  BY <1>2, <1>3, <1>9 DEF DestroyVolumeLinkFile, RemoveLinkFile, VolTypeOK, c, fv
<1>10. CASE DestroyVolumeMeta(p)
  BY <1>2, <1>3, <1>10 DEF DestroyVolumeMeta, RemoveVolumeMeta, VolTypeOK, c, fv
<1>11. CASE FinalizeMeta(p)
  BY <1>2, <1>3, <1>11 DEF FinalizeMeta, WriteVolumeMeta, VolTypeOK, c, fv
<1>12. CASE FinalizeLinkFile(p)
  BY <1>2, <1>3, <1>12 DEF FinalizeLinkFile, MoveLinkFile, VolTypeOK, volVars, c, fv, tv
<1>13. CASE FinalizeUnlink(p)
  BY <1>2, <1>3, <1>13 DEF FinalizeUnlink, RemoveSymlink, VolTypeOK, volVars, c, fv
<1>14. CASE FinalizeDir(p)
  BY <1>2, <1>3, <1>14 DEF FinalizeDir, RenameVolumeDir, VolTypeOK, c, fv, tv
<1>15. QED
  BY <1>4, <1>5, <1>6, <1>7, <1>8, <1>9, <1>10, <1>11, <1>12, <1>13, <1>14
     DEF CreateTouchesVolumes

\* The published volumes of all other layers are left alone.
LEMMA CreateTouches ==
  ASSUME NEW p \in Creators, Types, LockInv, VolumeInv, LinksApart, Create(p)
  PROVE  \/ UNCHANGED volVars
         \/ /\ cpc[p] \in BuildPC \ {"reprobe"} /\ CreateTouchesVolumes(p)
            /\ \A d \in Chain : d # Layer(p) => Untouched(Final(d))
<1>1. SUFFICES ASSUME CreateTouchesVolumes(p), NEW d \in Chain, d # Layer(p)
               PROVE  Untouched(Final(d))
  BY CreateFrame
<1>2. cpc[p] \in BuildPC \ {"reprobe"}
  BY <1>1, CreateFrame
<1>3. /\ Final(d) \in Name /\ Final(d).chain = d
      /\ link[Final(d)] \in Token \cup {None}
  BY NameFacts DEF Types, TypeOK, VolTypeOK
<1>4. /\ cpc[p] \in TempPC => link[Final(d)] # job[p].token
      /\ link[Final(d)] # None => link[Final(d)] # link[Final(Layer(p))]
  BY <1>1, <1>2, <1>3, BuildFacts DEF LinksApart
<1>5. QED
  BY <1>1, <1>3, <1>4, CreateCalls DEF Untouched

------------------------------------------------------------------------------
(* Short ids: every step keeps LinkInv *)

\* Where a create writes link files: its own new short id, or a move.
LEMMA CreateLinkCalls ==
  ASSUME NEW p \in Creators, Types, LockInv, VolumeInv, LinkInv, CreateTouchesVolumes(p)
  PROVE  /\ LinksApart'
         /\ \A n \in Name : \/ link'[n] \in {link[n], None}
                            \/ cpc[p] \in TempPC /\ link'[n] = job[p].token
<1> DEFINE tv == TempVolume(p)
           fv == Final(Layer(p))
           tok == job[p].token
<1> USE DEF Step, TempPC, FillPC, FilledPC
<1>1. cpc[p] \in BuildPC \ {"reprobe"}
  BY DEF CreateTouchesVolumes, StreamAndMkdir, CreateSymlink, CreateLinkFile, Unpack,
     DestroyVolumeSymlink, DestroyVolumeLinkFile, DestroyVolumeMeta, FinalizeMeta,
     FinalizeLinkFile, FinalizeUnlink, FinalizeSymlink, FinalizeDir, BuildPC
<1>2. /\ tok \in Token /\ tok # None /\ tv \in Name /\ fv \in Name /\ fv # tv
      /\ link \in [Name -> Token \cup {None}] /\ LinksApart /\ ShortId(p) /\ Linked(p)
  BY <1>1, BuildFacts DEF Types, TypeOK, VolTypeOK, LinkInv, VolumeInv, Download
<1> HIDE DEF tv, fv, tok
<1>3. CASE UNCHANGED link
  BY <1>3 DEF LinkInv, LinksApart
<1>4. CASE CreateLinkFile(p)
  <2>1. cpc[p] = "linkfile" /\ link' = [link EXCEPT ![tv] = tok]
    BY <1>4 DEF CreateLinkFile, WriteLinkFile, tv, tok
  <2>2. \A n \in Name : link[n] # tok
    BY <1>2, <2>1 DEF ShortId, tok
  <2>3. QED
    BY <1>2, <2>1, <2>2 DEF LinksApart, tok
<1>5. CASE DestroyVolumeLinkFile(p)
  <2>1. link' = [link EXCEPT ![fv] = None]
    BY <1>5 DEF DestroyVolumeLinkFile, RemoveLinkFile, fv
  <2>2. QED
    BY <1>2, <2>1 DEF LinksApart
<1>6. CASE FinalizeLinkFile(p) /\ ~UNCHANGED link
  <2>1. cpc[p] = "mvlink" /\ link' = [link EXCEPT ![fv] = link[tv], ![tv] = None]
    BY <1>6 DEF FinalizeLinkFile, MoveLinkFile, volVars, tv, fv
  <2>2. link[tv] = tok
    BY <1>2, <2>1 DEF Linked, Unpacking, tv, tok
  <2>3. QED
    BY <1>2, <2>1, <2>2 DEF LinksApart, tok
<1>7. QED
  BY <1>3, <1>4, <1>5, <1>6 DEF CreateTouchesVolumes, StreamAndMkdir, CreateSymlink,
     Unpack, DestroyVolumeSymlink, DestroyVolumeMeta, FinalizeMeta, FinalizeUnlink,
     FinalizeSymlink, FinalizeDir, MakeVolumeDir, MakeSymlink, FillVolume, RemoveVolumeSymlink,
     RemoveVolumeMeta, WriteVolumeMeta, RemoveSymlink, RenameVolumeDir, volVars

\* The short id of the create that takes the step.
LEMMA OwnShortId ==
  ASSUME NEW p \in Creators, Types, LockInv, VolumeInv, LinkInv, Create(p)
  PROVE  ShortId(p)'
<1> USE DEF Step
<1>1. /\ cpc \in [Creators -> CreatorPC] /\ job \in [Creators -> Job]
      /\ sym \in [Token -> Name \cup {None}] /\ job[p].token \in Token
      /\ ShortId(p)
  BY DEF Types, TypeOK, VolTypeOK, CreatorTypeOK, Job, LinkInv
<1>2. CASE StreamAndMkdir(p)
  <2>1. PICK t \in Token : /\ Fresh(t) /\ job' = [job EXCEPT ![p].token = t]
                           /\ UNCHANGED link /\ cpc'[p] = "symlink"
    BY <1>1, <1>2 DEF StreamAndMkdir, MakeVolumeDir
  <2>2. job'[p].token = t
    BY <1>1, <2>1 DEF Job
  <2>3. QED
    BY <2>1, <2>2 DEF Fresh, ShortId
<1>3. CASE CreateSymlink(p)
  <2>1. cpc[p] = "symlink" /\ cpc'[p] = "linkfile" /\ UNCHANGED <<job, link>>
    BY <1>1, <1>3 DEF CreateSymlink, MakeSymlink
  <2>2. QED
    BY <1>1, <2>1 DEF ShortId
<1>4. CASE FinalizeSymlink(p)
  <2>1. /\ cpc'[p] = "mvdir" /\ UNCHANGED job
        /\ sym' = [sym EXCEPT ![job[p].token] = Final(Layer(p))]
    BY <1>1, <1>4 DEF FinalizeSymlink, MakeSymlink
  <2>2. Layer(p)' = Layer(p)
    BY <2>1 DEF Layer
  <2>3. QED
    BY <1>1, <2>1, <2>2 DEF ShortId
<1>5. CASE ~(StreamAndMkdir(p) \/ CreateSymlink(p) \/ FinalizeSymlink(p))
  <2>1. cpc'[p] \notin {"symlink", "linkfile", "mvdir"}
    BY <1>1, <1>5
     DEF Create, CreateStep, CreateFault, StartCreate, LockGlobalShared,
     ProbeVolume, LockChain, ReprobeHit, ReprobeMiss, MkdirImage, MkdirImageExists,
     CreateImage, CreateImageNotReady, SetOwnership, RegisterOpen, RegisterWrite,
     UndoUnmount, UndoRemove, EndCreate, FetchBaseImageInfoFails, UnpackFails, PullFails,
     CreateImageFails, SetOwnershipFails, RegisterFails, UndoFails, KillCreate,
     CreateLinkFile, Unpack, GiveUpPull, LayerDone,
     DestroyVolumeSymlink, DestroyVolumeLinkFile, DestroyVolumeMeta, FinalizeMeta,
     FinalizeLinkFile, FinalizeUnlink, FinalizeDir
  <2>2. QED
    BY <2>1 DEF ShortId
<1>6. QED
  BY <1>2, <1>3, <1>4, <1>5

\* Every step of a create keeps the invariant of the short ids.
LEMMA CreateLinks ==
  ASSUME NEW p \in Creators, Types, LockInv, VolumeInv, LinkInv, Create(p)
  PROVE  LinkInv'
<1>1. /\ UNCHANGED <<cleanerVars, deleterVars>>
      /\ \A q \in Creators \ {p} : cpc'[q] = cpc[q] /\ job'[q] = job[q]
  BY CreateFrame
<1>2. \A q \in Creators \ {p} : Layer(q)' = Layer(q)
  BY <1>1 DEF Layer
<1>3. ShortId(p)'
  BY OwnShortId
<1>4. CASE UNCHANGED volVars
  <2>1. UNCHANGED <<vol, link, sym>>
    BY <1>4 DEF volVars
  <2>2. \A q \in Creators : ShortId(q)'
    BY <1>1, <1>2, <1>3, <2>1 DEF LinkInv, ShortId
  <2>3. QED
    BY <1>1, <2>1, <2>2 DEF LinkInv, LinksApart, InHandUnlinked, Reached, VolumeExists,
       cleanerVars
<1>5. CASE CreateTouchesVolumes(p)
  <2>1. /\ cpc[p] \in BuildPC \ {"reprobe"}
        /\ \A d \in Chain : d # Layer(p) => Untouched(Final(d))
    BY <1>5, CreateTouches, CreateFrame, QuietTouches DEF LinkInv
  <2>2. /\ LinksApart'
        /\ \A n \in Name : \/ link'[n] \in {link[n], None}
                           \/ cpc[p] \in TempPC /\ link'[n] = job[p].token
    BY <1>5, CreateLinkCalls
  <2>3. InHandUnlinked'
    <3>1. Creating(p)
      BY <2>1 DEF BuildPC, Creating
    <3>2. \A g \in Cleaners : gpc[g] \notin MarkPC
      BY <3>1, Exclusion DEF Marking, MarkPC
    <3>3. QED
      BY <1>1, <3>2 DEF InHandUnlinked, cleanerVars
  <2>4. ASSUME NEW q \in Creators, q # p PROVE ShortId(q)'
    <3>1. ShortId(q) /\ cpc'[q] = cpc[q] /\ job'[q] = job[q] /\ Layer(q)' = Layer(q)
      BY <1>1, <1>2, <2>4 DEF LinkInv
    <3>2. job[q].token # None /\ job[q].token \in Token
      BY NoneAssumption, NameFacts
    <3>3. CASE cpc[q] \in {"symlink", "linkfile"}
      <4>1. cpc[p] \in TempPC => job[p].token # job[q].token
        BY <2>4, <3>3 DEF VolumeInv, TokensApart, TempPC, FillPC
      <4>2. QED
        BY <2>2, <3>1, <3>2, <3>3, <4>1 DEF ShortId
    <3>4. CASE cpc[q] = "mvdir"
      <4>1. cpc[q] \in BuildPC \ {"reprobe"}
        BY <3>4 DEF BuildPC
      <4>2. Layer(q) # Layer(p) /\ Layer(q) \in Chain
        BY <2>1, <2>4, <4>1, Exclusion, BuildFacts
      <4>3. link[Final(Layer(q))] = job[q].token
        BY <3>4 DEF VolumeInv, Download, Linked, Moving
      <4>4. sym'[job[q].token] = sym[job[q].token]
        BY <2>1, <3>2, <4>2, <4>3 DEF Untouched
      <4>5. QED
        BY <3>1, <3>4, <4>4 DEF ShortId
    <3>5. CASE cpc[q] \notin {"symlink", "linkfile", "mvdir"}
      BY <3>1, <3>5 DEF ShortId
    <3>6. QED
      BY <3>3, <3>4, <3>5
  <2>5. ASSUME NEW d \in Chain PROVE Reached(d)'
    <3>1. CASE d # Layer(p)
      BY <2>1, <3>1 DEF LinkInv, Reached, Untouched, VolumeExists
    <3>2. CASE d = Layer(p) /\ FinalizeDir(p)
      <4>1. cpc[p] = "mvdir" /\ UNCHANGED <<link, sym>>
        BY <3>2 DEF FinalizeDir, RenameVolumeDir
      <4>2. link[Final(d)] = job[p].token /\ sym[job[p].token] = Final(d)
        BY <3>2, <4>1 DEF VolumeInv, Download, Linked, Moving, LinkInv, ShortId
      <4>3. QED
        BY <4>1, <4>2 DEF Reached
    <3>3. CASE d = Layer(p) /\ ~FinalizeDir(p)
      BY <1>5, <3>3, CreateCalls DEF Reached, VolumeExists
    <3>4. QED
      BY <3>1, <3>2, <3>3
  <2>6. QED
    BY <1>3, <2>2, <2>3, <2>4, <2>5 DEF LinkInv
<1>6. QED
  BY <1>4, <1>5, CreateFrame

\* The actions of a clean that change volumes ...
MarkTouchesVolumes(g) ==
  \/ \E n \in Name : MarkNext(g, n)
  \/ MarkUnlink(g) \/ MarkSymlink(g) \/ MarkDir(g) \/ MarkMeta(g)

DestroyTouchesVolumes(g) ==
  \/ \E n \in Name : DestroyNext(g, n)
  \/ DestroyLinkFile(g) \/ DestroyMeta(g) \/ DestroyDirBegin(g) \/ DestroyDirEnd(g)

\* ... and the volume a marking clean works on: one it takes from its list, or
\* the one it has in hand.
MarkTarget(g, n) ==
  \/ gpc[g] = "mark" /\ n \in queue[g]
  \/ gpc[g] \in MarkPC /\ n = cur[g]

\* The others do not; and no clean changes images or another command.
LEMMA CleanFrame ==
  ASSUME NEW g \in Cleaners, Types, Clean(g)
  PROVE  /\ UNCHANGED volVars \/ MarkTouchesVolumes(g) \/ DestroyTouchesVolumes(g)
         /\ UNCHANGED <<creatorVars, deleterVars, imgVars>>
         /\ \A h \in Cleaners \ {g} : /\ gpc'[h] = gpc[h] /\ cur'[h] = cur[h]
                                      /\ queue'[h] = queue[h] /\ ids'[h] = ids[h]
<1> USE DEF At, Goto
<1>1. /\ UNCHANGED volVars \/ MarkTouchesVolumes(g) \/ DestroyTouchesVolumes(g)
      /\ UNCHANGED <<creatorVars, deleterVars, imgVars>>
  BY DEF Clean, CleanStep, CleanFault, StartClean, LockGC, LockGCTimeout, Measure,
     LockGlobalExclusive, LockGlobalTimeout, LockGlobalLate, ListVolumesAndImages,
     ReadDependencies, ReadDependenciesError, DependenciesRead, MarkNext, MarkUnlink,
     MarkSymlink, MarkDir, MarkMeta, UnusedVolumesFails, MarkNextFails, MarkFails, MarkDone,
     UnlockGlobal, GcVolumes, GcVolumesFails, DestroyNext, DestroyNextFails, DestroyMeta,
     DestroyMetaFails, DestroyLinkFile, DestroyDirBegin, DestroyDirEnd, DestroyFails,
     CollectDone, EndClean, CleaningTimeout, KillClean, MarkTouchesVolumes,
     DestroyTouchesVolumes
<1>2. /\ gpc \in [Cleaners -> CleanerPC] /\ cur \in [Cleaners -> Name \cup {None}]
      /\ queue \in [Cleaners -> SUBSET Name] /\ ids \in [Cleaners -> SUBSET Id]
  BY DEF Types, TypeOK, CleanerTypeOK
<1>3. /\ UNCHANGED gpc \/ \E x : gpc' = [gpc EXCEPT ![g] = x]
      /\ UNCHANGED cur \/ \E x : cur' = [cur EXCEPT ![g] = x]
      /\ UNCHANGED queue \/ \E x : queue' = [queue EXCEPT ![g] = x]
      /\ UNCHANGED ids \/ \E x : ids' = [ids EXCEPT ![g] = x]
  BY DEF Clean, CleanStep, CleanFault, StartClean, LockGC, LockGCTimeout, Measure,
     LockGlobalExclusive, LockGlobalTimeout, LockGlobalLate, ListVolumesAndImages,
     ReadDependencies, ReadDependenciesError, DependenciesRead, MarkNext, MarkUnlink,
     MarkSymlink, MarkDir, MarkMeta, UnusedVolumesFails, MarkNextFails, MarkFails, MarkDone,
     UnlockGlobal, GcVolumes, GcVolumesFails, DestroyNext, DestroyNextFails, DestroyMeta,
     DestroyMetaFails, DestroyLinkFile, DestroyDirBegin, DestroyDirEnd, DestroyFails,
     CollectDone, EndClean, CleaningTimeout, KillClean, ExitClean, cleanerVars
<1>4. QED
  BY <1>1, <1>2, <1>3

\* A marking clean touches the one volume it works on, which then has no link
\* file, and gc. volumes.
LEMMA MarkTouches ==
  ASSUME NEW g \in Cleaners, Types, LinkInv, MarkTouchesVolumes(g)
  PROVE  /\ Marking(g) /\ LinksApart'
         /\ \E n \in Name :
              /\ MarkTarget(g, n) /\ n.gc = FALSE
              /\ \A m \in Name : m.gc = FALSE /\ m # n => Untouched(m)
              /\ Untouched(n) \/ link'[n] = None
              /\ gpc'[g] \in MarkPC => cur'[g] = n /\ link'[n] = None
<1> USE DEF At, Goto, MarkPC
<1>1. /\ VolTypeOK /\ CleanNames /\ LinksApart /\ InHandUnlinked
      /\ gpc \in [Cleaners -> CleanerPC] /\ cur \in [Cleaners -> Name \cup {None}]
      /\ queue \in [Cleaners -> SUBSET Name]
      /\ \A n \in Name : GcName(n) \in Name /\ GcName(n).gc = TRUE
  BY DEF Types, TypeOK, CleanerTypeOK, LinkInv, Name, GcName
<1>2. Marking(g)
  BY DEF MarkTouchesVolumes, MarkNext, MarkUnlink, MarkSymlink, MarkDir, MarkMeta, Marking
<1>3. CASE \E n \in Name : MarkNext(g, n)
  <2>1. PICK n \in Name : MarkNext(g, n)
    BY <1>3
  <2>2. gpc[g] = "mark" /\ n \in queue[g] /\ n.gc = FALSE /\ GcName(n) # n
    BY <1>1, <2>1 DEF MarkNext, CleanNames
  <2>3. CASE Movable(n)
    <3>1. /\ UNCHANGED <<vol, sym, meta>> /\ gpc'[g] = "mvunlink" /\ cur'[g] = n
          /\ link' = [link EXCEPT ![GcName(n)] = link[n], ![n] = None]
      BY <1>1, <2>1, <2>3 DEF MarkNext, MoveLinkFile
    <3>2. \A m \in Name : link'[m] = IF m = n THEN None
                                     ELSE IF m = GcName(n) THEN link[n] ELSE link[m]
      BY <1>1, <2>2, <3>1 DEF VolTypeOK
    <3>3. LinksApart'
      BY <1>1, <3>2 DEF LinksApart
    <3>4. \A m \in Name : m.gc = FALSE /\ m # n => Untouched(m)
      BY <1>1, <3>1, <3>2 DEF Untouched
    <3>5. QED
      BY <1>1, <1>2, <2>2, <3>1, <3>2, <3>3, <3>4 DEF MarkTarget
  <2>4. CASE ~Movable(n)
    <3>1. UNCHANGED <<vol, link, sym, meta>> /\ gpc'[g] = "mark"
      BY <1>1, <2>1, <2>2, <2>4 DEF MarkNext, volVars
    <3>2. QED
      BY <1>1, <1>2, <2>2, <3>1 DEF MarkTarget, Untouched, LinksApart
  <2>5. QED
    BY <2>3, <2>4
<1>4. CASE MarkUnlink(g) \/ MarkSymlink(g) \/ MarkDir(g) \/ MarkMeta(g)
  <2> DEFINE n == cur[g]
             t == link[GcName(n)]
  <2>1. gpc[g] \in MarkPC /\ n \in Name /\ n.gc = FALSE /\ link[n] = None
    BY <1>1, <1>4 DEF MarkUnlink, MarkSymlink, MarkDir, MarkMeta, CleanNames, InHandUnlinked
  <2>2. UNCHANGED link /\ \A u \in Token : u # t => sym'[u] = sym[u]
    BY <1>1, <1>4 DEF MarkUnlink, MarkSymlink, MarkDir, MarkMeta, VolTypeOK, volVars,
       RemoveSymlink, MakeSymlink, RenameVolumeDir, MoveVolumeMeta
  <2>3. \A m \in Name : m.gc = FALSE /\ m # n =>
           vol'[m] = vol[m] /\ (m \in meta' <=> m \in meta)
    BY <1>1, <1>4, <2>1 DEF MarkUnlink, MarkSymlink, MarkDir, MarkMeta, VolTypeOK, volVars,
       RemoveSymlink, MakeSymlink, RenameVolumeDir, MoveVolumeMeta
  <2>4. \A m \in Name : m.gc = FALSE /\ link[m] # None => link[m] \in Token /\ link[m] # t
    BY <1>1, <2>1 DEF LinksApart, VolTypeOK
  <2>5. \A m \in Name : m.gc = FALSE /\ m # n => Untouched(m)
    BY <2>2, <2>3, <2>4 DEF Untouched
  <2>6. gpc'[g] \in MarkPC => cur'[g] = n
    BY <1>1, <1>4 DEF MarkUnlink, MarkSymlink, MarkDir, MarkMeta
  <2>7. LinksApart'
    BY <1>1, <2>2 DEF LinksApart
  <2>8. QED
    BY <1>2, <2>1, <2>2, <2>5, <2>6, <2>7 DEF MarkTarget
<1>5. QED
  BY <1>3, <1>4 DEF MarkTouchesVolumes

\* A clean that destroys touches gc. volumes.
LEMMA DestroyTouches ==
  ASSUME NEW g \in Cleaners, Types, LinkInv, DestroyTouchesVolumes(g)
  PROVE  /\ LinksApart' /\ gpc'[g] \notin MarkPC
         /\ \A m \in Name : m.gc = FALSE => Untouched(m)
         /\ \A m \in Name : link'[m] \in {link[m], None}
<1> USE DEF At, Goto, MarkPC, DestroyPC
<1>1. /\ VolTypeOK /\ CleanNames /\ LinksApart
      /\ gpc \in [Cleaners -> CleanerPC] /\ cur \in [Cleaners -> Name \cup {None}]
      /\ queue \in [Cleaners -> SUBSET Name]
  BY DEF Types, TypeOK, CleanerTypeOK, LinkInv
<1>2. gpc'[g] \notin MarkPC
  BY <1>1 DEF DestroyTouchesVolumes, DestroyNext, DestroyLinkFile, DestroyMeta,
     DestroyDirBegin, DestroyDirEnd, cleanerVars
<1>3. CASE \E n \in Name : DestroyNext(g, n)
  <2>1. PICK n \in Name : DestroyNext(g, n)
    BY <1>3
  <2>2. n.gc = TRUE /\ UNCHANGED <<vol, link, meta>>
    BY <1>1, <2>1 DEF DestroyNext, RemoveVolumeSymlink, CleanNames
  <2>3. \A u \in Token : u # link[n] => sym'[u] = sym[u]
    BY <1>1, <2>1 DEF DestroyNext, RemoveVolumeSymlink, VolTypeOK
  <2>4. \A m \in Name : m.gc = FALSE /\ link[m] # None => link[m] \in Token /\ link[m] # link[n]
    BY <1>1, <2>2 DEF LinksApart, VolTypeOK
  <2>5. QED
    BY <1>1, <1>2, <2>2, <2>3, <2>4 DEF LinksApart, Untouched
<1>4. CASE DestroyLinkFile(g) \/ DestroyMeta(g) \/ DestroyDirBegin(g) \/ DestroyDirEnd(g)
  <2>1. cur[g] \in Name /\ cur[g].gc = TRUE
    BY <1>1, <1>4 DEF DestroyLinkFile, DestroyMeta, DestroyDirBegin, DestroyDirEnd, CleanNames
  <2>2. /\ UNCHANGED sym
        /\ \A m \in Name : m # cur[g] =>
             vol'[m] = vol[m] /\ link'[m] = link[m] /\ (m \in meta' <=> m \in meta)
        /\ \A m \in Name : link'[m] \in {link[m], None}
    BY <1>1, <1>4, <2>1 DEF DestroyLinkFile, DestroyMeta, DestroyDirBegin, DestroyDirEnd,
       RemoveLinkFile, RemoveVolumeMeta, RemoveVolumeDir, VolTypeOK
  <2>3. QED
    BY <1>1, <1>2, <2>1, <2>2 DEF LinksApart, Untouched
<1>5. QED
  BY <1>3, <1>4 DEF DestroyTouchesVolumes

\* While one clean marks, the others wait for their gc lock.
LEMMA MarkAlone ==
  ASSUME NEW g \in Cleaners, Types, LockInv, Marking(g)
  PROVE  \A h \in Cleaners \ {g} : gpc[h] \in {"idle", "gclock"}
<1>1. gpc[g] \notin {"idle", "gclock"}
  BY DEF Marking
<1>2. QED
  BY <1>1, KeyFacts DEF LockInv, FlockInv, CleanerLocks

\* Every step of a clean keeps the invariant of the short ids.
LEMMA CleanLinks ==
  ASSUME NEW g \in Cleaners, Types, LockInv, VolumeInv, LinkInv, Clean(g)
  PROVE  LinkInv'
<1>1. /\ UNCHANGED <<creatorVars, deleterVars, imgVars>>
      /\ \A h \in Cleaners \ {g} : gpc'[h] = gpc[h] /\ cur'[h] = cur[h]
  BY CleanFrame
<1>2. cpc' = cpc /\ job' = job /\ \A q : Layer(q)' = Layer(q)
  BY <1>1 DEF creatorVars, Layer
<1>3. \A d \in Chain : Final(d) \in Name /\ Final(d).gc = FALSE
  BY NameFacts
<1>4. CASE UNCHANGED volVars /\ ~MarkTouchesVolumes(g)
  <2>1. UNCHANGED <<vol, link, sym>>
    BY <1>4 DEF volVars
  <2>2. gpc'[g] \in MarkPC => gpc[g] \in MarkPC /\ cur'[g] = cur[g]
    BY <1>4 DEF Clean, CleanStep, CleanFault, StartClean, LockGC, LockGCTimeout, Measure,
     LockGlobalExclusive, LockGlobalTimeout, LockGlobalLate, ListVolumesAndImages,
     ReadDependencies, ReadDependenciesError, DependenciesRead,
     UnusedVolumesFails, MarkNextFails, MarkFails, MarkDone,
     UnlockGlobal, GcVolumes, GcVolumesFails, DestroyNext, DestroyNextFails, DestroyMeta,
     DestroyMetaFails, DestroyLinkFile, DestroyDirBegin, DestroyDirEnd, DestroyFails,
     CollectDone, EndClean, CleaningTimeout, KillClean, MarkTouchesVolumes, ExitClean,
     At, Goto, MarkPC, cleanerVars, Types, TypeOK, CleanerTypeOK
  <2>3. InHandUnlinked'
    BY <1>1, <2>1, <2>2 DEF LinkInv, InHandUnlinked
  <2>4. QED
    BY <1>2, <2>1, <2>3 DEF LinkInv, LinksApart, ShortId, Reached, VolumeExists
<1>5. CASE MarkTouchesVolumes(g)
  <2>1. /\ Marking(g) /\ LinksApart'
        /\ \E n \in Name :
              /\ MarkTarget(g, n) /\ n.gc = FALSE
              /\ \A m \in Name : m.gc = FALSE /\ m # n => Untouched(m)
              /\ Untouched(n) \/ link'[n] = None
              /\ gpc'[g] \in MarkPC => cur'[g] = n /\ link'[n] = None
    BY <1>5, MarkTouches
  <2>2. PICK n \in Name :
              /\ \A m \in Name : m.gc = FALSE /\ m # n => Untouched(m)
              /\ Untouched(n) \/ link'[n] = None
              /\ gpc'[g] \in MarkPC => cur'[g] = n /\ link'[n] = None
    BY <2>1
  <2>3. \A q \in Creators : ShortId(q)'
    <3>1. \A q \in Creators : ~Creating(q)
      BY <2>1, Exclusion
    <3>2. QED
      BY <1>2, <3>1 DEF ShortId, Creating
  <2>4. InHandUnlinked'
    <3>1. \A h \in Cleaners \ {g} : gpc[h] \in {"idle", "gclock"}
      BY <2>1, MarkAlone
    <3>2. QED
      BY <1>1, <2>2, <3>1 DEF InHandUnlinked, MarkPC
  <2>5. ASSUME NEW d \in Chain PROVE Reached(d)'
    <3>1. CASE Untouched(Final(d))
      BY <3>1 DEF LinkInv, Reached, Untouched, VolumeExists
    <3>2. CASE ~Untouched(Final(d))
      BY <1>3, <2>2, <3>2 DEF Reached
    <3>3. QED
      BY <3>1, <3>2
  <2>6. QED
    BY <2>1, <2>3, <2>4, <2>5 DEF LinkInv
<1>6. CASE DestroyTouchesVolumes(g)
  <2>1. /\ LinksApart' /\ gpc'[g] \notin MarkPC
        /\ \A m \in Name : m.gc = FALSE => Untouched(m)
        /\ \A m \in Name : link'[m] \in {link[m], None}
    BY <1>6, DestroyTouches
  <2>2. \A d \in Chain : Reached(d)'
    BY <1>3, <2>1 DEF LinkInv, Reached, Untouched, VolumeExists
  <2>3. InHandUnlinked'
    <3>1. \A h \in Cleaners : gpc[h] \in MarkPC => cur[h] \in Name
      BY DEF Types, CleanNames
    <3>2. QED
      BY <1>1, <2>1, <3>1 DEF LinkInv, InHandUnlinked
  <2>4. ASSUME NEW q \in Creators PROVE ShortId(q)'
    <3>1. job[q].token \in Token /\ job[q].token # None /\ ShortId(q)
      BY NameFacts, NoneAssumption DEF LinkInv
    <3>2. CASE cpc[q] = "mvdir"
      <4>1. cpc[q] \in BuildPC \ {"reprobe"} /\ link[Final(Layer(q))] = job[q].token
        BY <3>2 DEF BuildPC, VolumeInv, Download, Linked, Moving
      <4>2. Untouched(Final(Layer(q)))
        BY <1>3, <2>1, <4>1, BuildFacts
      <4>3. QED
        BY <1>2, <3>1, <3>2, <4>1, <4>2 DEF ShortId, Untouched
    <3>3. CASE cpc[q] # "mvdir"
      BY <1>2, <2>1, <3>1, <3>3 DEF ShortId
    <3>4. QED
      BY <3>2, <3>3
  <2>5. QED
    BY <2>1, <2>2, <2>3, <2>4 DEF LinkInv
<1>7. QED
  BY <1>4, <1>5, <1>6, CleanFrame

\* There is no link file in the initial state.
LEMMA InitLinks == Init => LinkInv
BY DEF Init, VolInit, CreatorInit, CleanerInit, LinkInv, LinksApart, InHandUnlinked, ShortId,
   Reached, VolumeExists, MarkPC, Final, Name

\* A delete leaves volumes, creates and cleans alone.
LEMMA DeleteFrame ==
  ASSUME NEW d \in Deleters, Delete(d)
  PROVE  UNCHANGED <<volVars, creatorVars, cleanerVars>>
BY DEF Delete, DeleteStep, DeleteFault, StartDelete, DestroyImage, RemoveImage,
   DeleteFails, Deregister, KillDelete

\* Every step of any command keeps the invariant of the short ids.
LEMMA NextLinks == Types /\ LockInv /\ VolumeInv /\ LinkInv /\ [Next]_vars => LinkInv'
<1> SUFFICES ASSUME Types, LockInv, VolumeInv, LinkInv, [Next]_vars PROVE LinkInv'
  OBVIOUS
<1>1. CASE UNCHANGED <<volVars, creatorVars, cleanerVars>>
  BY <1>1 DEF volVars, creatorVars, cleanerVars, LinkInv, LinksApart, InHandUnlinked, ShortId,
     Reached, VolumeExists, Layer
<1>2. CASE UNCHANGED vars
  BY <1>1, <1>2 DEF vars
<1>3. QED
  BY <1>1, <1>2, DeleteFrame, CreateLinks, CleanLinks DEF Next, Rest

\* The invariant of the short ids is an invariant of the specification.
LEMMA AlwaysLinks == Spec => [](Types /\ LockInv /\ VolumeInv /\ LinkInv)
<1>1. QED
  BY AlwaysVolumes, InitLinks, NextLinks, PTL DEF Spec

------------------------------------------------------------------------------
(* Images *)

\* p has mounted its rootfs and not yet returned, and no delete has unmounted
\* it again.
Stacking(p) ==
  cpc[p] \in {"own", "register", "regwrite"} /\ imgDir[job[p].id] = "built"

\* One create at a time works on an id, ...
OneCreate ==
  \A p, q \in Creators :
    p # q /\ cpc[p] # "idle" /\ cpc[q] # "idle" => job[p].id # job[q].id

\* ... which is not a committed one until it is done.
JobOwns == \A p \in Creators : cpc[p] \notin {"idle", "unlock"} => job[p].id \notin committed

\* A dependency file that can be read names every layer of a committed image.
Recorded ==
  \A i \in committed : imgDir[i] = "built" /\ (depFile[i] = "whole" => deps[i] = base[i])

\* An image is stacked on all the layers of its base image.
Stacked ==
  \A p \in Creators : Stacking(p) =>
    /\ base[job[p].id] = Layers(job[p].image)
    /\ \A c \in Layers(job[p].image) : Usable(Final(c))

\* What clean has in its list and in hand is not a layer of image i.
Spared(g, i) ==
  \A c \in base[i] : Final(c) \notin queue[g] /\ (gpc[g] \in MarkPC => cur[g] # Final(c))

\* Clean spares the committed images whose dependencies it has read, and marks
\* only after it has read them all.
CleanSpares ==
  \A g \in Cleaners, i \in committed :
    /\ gpc[g] = "deps" => i \in ids[g] \/ Spared(g, i)
    /\ gpc[g] \in {"mark"} \cup MarkPC => Spared(g, i)

ImageInv ==
  OneCreate /\ JobOwns /\ Recorded /\ Stacked /\ CleanSpares /\ LiveImagesIntact

\* A create never makes a usable volume unusable: it changes the volumes of a
\* chain id only where it found the directory missing.
LEMMA CreateProtects ==
  ASSUME NEW p \in Creators, Types, LockInv, VolumeInv, LinkInv, Create(p),
         NEW c \in Chain, Usable(Final(c))
  PROVE  Usable(Final(c))'
<1>1. CASE UNCHANGED volVars
  BY <1>1, QuietTouches, UntouchedUsable
<1>2. CASE /\ cpc[p] \in BuildPC \ {"reprobe"}
           /\ \A d \in Chain : d # Layer(p) => Untouched(Final(d))
  <2>1. c # Layer(p)
    BY <1>2, BuildFacts DEF Usable
  <2>2. QED
    BY <1>2, <2>1, UntouchedUsable
<1>3. QED
  BY <1>1, <1>2, CreateTouches DEF LinkInv

\* A clean makes a published volume unusable only when it works on it.
LEMMA CleanProtects ==
  ASSUME NEW g \in Cleaners, Types, LinkInv, Clean(g),
         NEW c \in Chain, Usable(Final(c)), ~MarkTarget(g, Final(c))
  PROVE  Usable(Final(c))'
<1>1. Final(c) \in Name /\ Final(c).gc = FALSE
  BY NameFacts
<1>2. CASE UNCHANGED volVars
  BY <1>2, QuietTouches, UntouchedUsable
<1>3. CASE MarkTouchesVolumes(g)
  <2>1. Untouched(Final(c))
    BY <1>1, <1>3, MarkTouches
  <2>2. QED
    BY <2>1, UntouchedUsable
<1>4. CASE DestroyTouchesVolumes(g)
  <2>1. Untouched(Final(c))
    BY <1>1, <1>4, DestroyTouches
  <2>2. QED
    BY <2>1, UntouchedUsable
<1>5. QED
  BY <1>2, <1>3, <1>4, CleanFrame

\* The actions of a create that change images.
CreateTouchesImages(p) ==
  \/ MkdirImage(p) \/ CreateImage(p) \/ RegisterOpen(p) \/ RegisterWrite(p)
  \/ UndoUnmount(p) \/ UndoRemove(p)

\* They change the image of the create, and no volume; the create keeps its
\* job from its start to its end.
LEMMA CreateImageFrame ==
  ASSUME NEW p \in Creators, Types, Create(p)
  PROVE  /\ UNCHANGED imgVars \/ CreateTouchesImages(p)
         /\ CreateTouchesImages(p) =>
              /\ Creating(p) /\ cpc[p] # "unlock" /\ UNCHANGED <<volVars, job>>
              /\ \A i \in Id \ {job[p].id} :
                   /\ imgDir'[i] = imgDir[i] /\ base'[i] = base[i]
                   /\ depFile'[i] = depFile[i] /\ deps'[i] = deps[i]
                   /\ i \in committed' <=> i \in committed
         /\ \/ \E i \in Id, image \in Image : StartCreate(p, i, image)
            \/ cpc'[p] = "idle" /\ UNCHANGED imgVars
            \/ /\ job'[p].id = job[p].id /\ job'[p].image = job[p].image
               /\ cpc[p] # "idle" /\ (cpc[p] = "unlock" => cpc'[p] = "unlock")
<1> USE DEF Step
<1>1. UNCHANGED imgVars \/ CreateTouchesImages(p)
  BY DEF Create, CreateStep, CreateFault, StartCreate, LockGlobalShared,
     ProbeVolume, LockChain, ReprobeHit, ReprobeMiss, MkdirImageExists,
     CreateImageNotReady, SetOwnership, EndCreate, FetchBaseImageInfoFails, UnpackFails,
     PullFails, CreateImageFails, SetOwnershipFails, RegisterFails, UndoFails, KillCreate,
     StreamAndMkdir, CreateSymlink, CreateLinkFile, Unpack,
     DestroyVolumeSymlink, DestroyVolumeLinkFile, DestroyVolumeMeta, FinalizeMeta,
     FinalizeLinkFile, FinalizeUnlink, FinalizeSymlink, FinalizeDir, CreateTouchesImages
<1>2. CreateTouchesImages(p) => Creating(p) /\ cpc[p] # "unlock" /\ UNCHANGED <<volVars, job>>
  BY DEF CreateTouchesImages, MkdirImage, CreateImage, RegisterOpen, RegisterWrite,
     UndoUnmount, UndoRemove, Creating
<1>3. ASSUME CreateTouchesImages(p), NEW i \in Id \ {job[p].id}
      PROVE  /\ imgDir'[i] = imgDir[i] /\ base'[i] = base[i]
             /\ depFile'[i] = depFile[i] /\ deps'[i] = deps[i]
             /\ i \in committed' <=> i \in committed
  BY <1>3 DEF CreateTouchesImages, MkdirImage, CreateImage, RegisterOpen, RegisterWrite,
     UndoUnmount, UndoRemove, MakeImageDir, BuildRootfs, OpenDepFile, WriteDepFile,
     UnmountImage, RemoveImageDir, Types, TypeOK, ImgTypeOK
<1>4. /\ cpc \in [Creators -> CreatorPC] /\ job \in [Creators -> Job]
  BY DEF Types, TypeOK, CreatorTypeOK
<1>5. \/ \E i \in Id, image \in Image : StartCreate(p, i, image)
      \/ FetchBaseImageInfoFails(p) \/ EndCreate(p) \/ KillCreate(p)
      \/ cpc[p] \notin {"idle", "unlock"}
  BY DEF Create, CreateStep, CreateFault, LockGlobalShared,
     ProbeVolume, LockChain, ReprobeHit, ReprobeMiss, MkdirImage, MkdirImageExists,
     CreateImage, CreateImageNotReady, SetOwnership, RegisterOpen, RegisterWrite,
     UndoUnmount, UndoRemove, UnpackFails, PullFails,
     CreateImageFails, SetOwnershipFails, RegisterFails, UndoFails,
     StreamAndMkdir, CreateSymlink, CreateLinkFile, Unpack,
     DestroyVolumeSymlink, DestroyVolumeLinkFile, DestroyVolumeMeta, FinalizeMeta,
     FinalizeLinkFile, FinalizeUnlink, FinalizeSymlink, FinalizeDir
<1>6. CASE FetchBaseImageInfoFails(p) \/ EndCreate(p) \/ KillCreate(p)
  <2>1. cpc'[p] = "idle" /\ UNCHANGED imgVars
    BY <1>4, <1>6 DEF FetchBaseImageInfoFails, EndCreate, KillCreate
  <2>2. QED
    BY <1>1, <1>2, <1>3, <2>1
<1>7. CASE /\ ~(FetchBaseImageInfoFails(p) \/ EndCreate(p) \/ KillCreate(p))
           /\ ~(\E i \in Id, image \in Image : StartCreate(p, i, image))
  <2>1. \/ UNCHANGED job \/ LockGlobalShared(p) \/ ReprobeMiss(p) \/ LayerDone(p)
        \/ StreamAndMkdir(p)
    BY <1>7 DEF Create, CreateStep, CreateFault,
       ProbeVolume, LockChain, ReprobeHit, MkdirImage, MkdirImageExists,
       CreateImage, CreateImageNotReady, SetOwnership, RegisterOpen, RegisterWrite,
       UndoUnmount, UndoRemove, UnpackFails, PullFails,
       CreateImageFails, SetOwnershipFails, RegisterFails, UndoFails,
       CreateSymlink, CreateLinkFile, Unpack,
       DestroyVolumeSymlink, DestroyVolumeLinkFile, DestroyVolumeMeta, FinalizeMeta,
       FinalizeLinkFile, FinalizeUnlink, FinalizeSymlink, FinalizeDir
  <2>2. \/ UNCHANGED job \/ \E k : job' = [job EXCEPT ![p].index = k]
        \/ \E k : job' = [job EXCEPT ![p].token = k]
    <3>1. CASE LockGlobalShared(p)
      BY <3>1 DEF LockGlobalShared
    <3>2. CASE ReprobeMiss(p) \/ LayerDone(p)
      BY <3>2 DEF ReprobeMiss, LayerDone
    <3>3. CASE StreamAndMkdir(p)
      BY <3>3 DEF StreamAndMkdir
    <3>4. QED
      BY <2>1, <3>1, <3>2, <3>3
  <2>3. job'[p].id = job[p].id /\ job'[p].image = job[p].image
    BY <1>4, <2>2 DEF Job
  <2>4. QED
    BY <1>1, <1>2, <1>3, <1>5, <1>7, <2>3
<1>8. QED
  BY <1>1, <1>2, <1>3, <1>6, <1>7

\* A create that mounts its rootfs finds usable volumes: they are whole since
\* they are published, and their short ids lead to them.
LEMMA FoundUsable ==
  ASSUME NEW c \in Chain, VolumeInv, LinkInv, LowerDirFound(Final(c))
  PROVE  Usable(Final(c))
BY DEF VolumeInv, PublishedWhole, LinkInv, Reached, LowerDirFound, Usable

\* The layers of the base image of a create are chain ids, those under an
\* image too.
LEMMA LayersChain ==
  ASSUME Types
  PROVE  /\ \A p \in Creators : job[p].id \in Id /\ Layers(job[p].image) \subseteq Chain
         /\ \A i \in Id : base[i] \subseteq Chain
         /\ committed \subseteq Id
<1>1. \A p \in Creators : job[p].id \in Id /\ job[p].image \in Image
  BY DEF Types, TypeOK, CreatorTypeOK, Job
<1>2. \A p \in Creators : Layers(job[p].image) \subseteq Chain
  BY <1>1, ImageTypes
<1>3. QED
  BY <1>1, <1>2 DEF Types, TypeOK, ImgTypeOK

\* The create that takes the step: after CreateImage it is stacked on usable
\* layers, and it stays so up to its registration.
LEMMA OwnStack ==
  ASSUME NEW p \in Creators, Types, LockInv, VolumeInv, LinkInv, ImageInv, Create(p),
         Stacking(p)'
  PROVE  /\ base'[job'[p].id] = Layers(job'[p].image)
         /\ \A c \in Layers(job'[p].image) : Usable(Final(c))'
<1> USE DEF Step
<1>1. /\ cpc \in [Creators -> CreatorPC] /\ job[p].id \in Id
      /\ base \in [Id -> SUBSET Chain] /\ imgDir \in [Id -> {"absent", "made", "built"}]
      /\ Layers(job[p].image) \subseteq Chain
  BY LayersChain DEF Types, TypeOK, CreatorTypeOK, ImgTypeOK
<1>2. CreateImage(p) \/ SetOwnership(p) \/ RegisterOpen(p)
  BY <1>1 DEF Stacking, Create, CreateStep, CreateFault, StartCreate, LockGlobalShared,
     ProbeVolume, LockChain, ReprobeHit, ReprobeMiss, MkdirImage, MkdirImageExists,
     CreateImageNotReady, RegisterWrite,
     UndoUnmount, UndoRemove, EndCreate, FetchBaseImageInfoFails, UnpackFails, PullFails,
     CreateImageFails, SetOwnershipFails, RegisterFails, UndoFails, KillCreate,
     StreamAndMkdir, CreateSymlink, CreateLinkFile, Unpack, GiveUpPull, LayerDone,
     DestroyVolumeSymlink, DestroyVolumeLinkFile, DestroyVolumeMeta, FinalizeMeta,
     FinalizeLinkFile, FinalizeUnlink, FinalizeSymlink, FinalizeDir
<1>3. UNCHANGED <<job, volVars>>
  BY <1>2 DEF CreateImage, SetOwnership, RegisterOpen
<1>4. \A c \in Layers(job[p].image) : Usable(Final(c)) => Usable(Final(c))'
  BY <1>1, CreateProtects
<1>5. CASE CreateImage(p)
  <2>1. /\ base' = [base EXCEPT ![job[p].id] = Layers(job[p].image)]
        /\ CreateImageReady(p)
    BY <1>5 DEF CreateImage, BuildRootfs
  <2>2. \A c \in Layers(job[p].image) : Usable(Final(c))
    BY <1>1, <2>1, FoundUsable DEF CreateImageReady
  <2>3. QED
    BY <1>1, <1>3, <1>4, <2>1, <2>2
<1>6. CASE SetOwnership(p) \/ RegisterOpen(p)
  <2>1. UNCHANGED <<imgDir, base>> /\ cpc[p] \in {"own", "register", "regwrite"}
    BY <1>6 DEF SetOwnership, RegisterOpen, OpenDepFile, imgVars
  <2>2. Stacking(p)
    BY <1>3, <2>1 DEF Stacking
  <2>3. QED
    BY <1>3, <1>4, <2>1, <2>2 DEF ImageInv, Stacked
<1>7. QED
  BY <1>2, <1>5, <1>6

\* Every step of a create keeps the invariant of the images.
LEMMA CreateImages ==
  ASSUME OneCreatePerId,
         NEW p \in Creators, Types, LockInv, VolumeInv, LinkInv, ImageInv, Create(p)
  PROVE  ImageInv'
<1> DEFINE i0 == job[p].id
<1> USE DEF Step
<1>1. /\ UNCHANGED <<cleanerVars, deleterVars>>
      /\ \A q \in Creators \ {p} : cpc'[q] = cpc[q] /\ job'[q] = job[q]
  BY CreateFrame
<1>2. /\ cpc \in [Creators -> CreatorPC] /\ job \in [Creators -> Job] /\ ImgTypeOK
      /\ i0 \in Id /\ committed \subseteq Id
      /\ \A q \in Creators : job[q].id \in Id /\ Layers(job[q].image) \subseteq Chain
      /\ \A i \in Id : base[i] \subseteq Chain
  BY LayersChain DEF Types, TypeOK, CreatorTypeOK
<1>3. /\ UNCHANGED imgVars \/ CreateTouchesImages(p)
      /\ CreateTouchesImages(p) =>
              /\ Creating(p) /\ cpc[p] # "unlock" /\ UNCHANGED <<volVars, job>>
              /\ \A i \in Id \ {i0} :
                   /\ imgDir'[i] = imgDir[i] /\ base'[i] = base[i]
                   /\ depFile'[i] = depFile[i] /\ deps'[i] = deps[i]
                   /\ i \in committed' <=> i \in committed
      /\ \/ \E i \in Id, image \in Image : StartCreate(p, i, image)
         \/ cpc'[p] = "idle" /\ UNCHANGED imgVars
         \/ /\ job'[p].id = i0 /\ job'[p].image = job[p].image
            /\ cpc[p] # "idle" /\ (cpc[p] = "unlock" => cpc'[p] = "unlock")
  BY CreateImageFrame
<1>4. \A c \in Chain : Usable(Final(c)) => Usable(Final(c))'
  BY CreateProtects
<1>0. committed' \subseteq Id
  BY CreateTypes DEF Types, TypeOK, ImgTypeOK
<1>5. CreateTouchesImages(p) => i0 \notin committed
  BY <1>3 DEF ImageInv, JobOwns, Creating
<1>6. ASSUME CreateTouchesImages(p), i0 \in committed'
      PROVE  /\ cpc[p] = "regwrite" /\ cpc'[p] = "unlock" /\ Stacking(p)
             /\ UNCHANGED <<imgDir, base>>
             /\ depFile'[i0] = "whole" => deps'[i0] = Layers(job[p].image)
  <2>1. RegisterWrite(p)
    BY <1>5, <1>6 DEF CreateTouchesImages, MkdirImage, CreateImage, RegisterOpen,
       UndoUnmount, UndoRemove, MakeImageDir, BuildRootfs, OpenDepFile, UnmountImage,
       RemoveImageDir
  <2>2. cpc[p] = "regwrite" /\ cpc'[p] = "unlock" /\ UNCHANGED <<imgDir, base>>
    BY <1>2, <2>1 DEF RegisterWrite, WriteDepFile
  <2>3. Stacking(p)
    BY <1>5, <1>6, <2>1, <2>2 DEF RegisterWrite, WriteDepFile, Stacking
  <2>4. depFile'[i0] = "whole" => deps'[i0] = Layers(job[p].image)
    BY <1>2, <2>1 DEF RegisterWrite, WriteDepFile, ImgTypeOK
  <2>5. QED
    BY <2>2, <2>3, <2>4
<1> HIDE DEF i0
<1>7. OneCreate'
  <2>1. CASE \E i \in Id, image \in Image : StartCreate(p, i, image)
    <3>1. PICK i \in Id, image \in Image : StartCreate(p, i, image)
      BY <2>1
    <3>2. \A q \in Creators : cpc[q] # "idle" => job[q].id # i
      BY <3>1 DEF StartCreate, OneCreatePerId, Types, TypeOK, BudgetTypeOK
    <3>3. job'[p].id = i
      BY <1>2, <3>1, NoJobType DEF StartCreate, Job
    <3>4. QED
      BY <1>1, <3>2, <3>3 DEF ImageInv, OneCreate
  <2>2. CASE cpc'[p] = "idle"
    BY <1>1, <2>2 DEF ImageInv, OneCreate
  <2>3. CASE job'[p].id = i0 /\ cpc[p] # "idle"
    BY <1>1, <2>3 DEF ImageInv, OneCreate, i0
  <2>4. QED
    BY <1>3, <2>1, <2>2, <2>3
<1>8. JobOwns'
  <2>1. ASSUME NEW q \in Creators, q # p, cpc'[q] \notin {"idle", "unlock"}
        PROVE  job'[q].id \notin committed'
    <3>1. /\ job[q].id \notin committed /\ job'[q].id = job[q].id
          /\ cpc[p] # "idle" => job[q].id # i0
      BY <1>1, <2>1 DEF ImageInv, JobOwns, OneCreate, i0
    <3>2. CASE UNCHANGED imgVars
      BY <3>1, <3>2 DEF imgVars
    <3>3. CASE CreateTouchesImages(p)
      BY <1>2, <1>3, <3>1, <3>3 DEF Creating
    <3>4. QED
      BY <1>3, <3>2, <3>3
  <2>2. ASSUME cpc'[p] \notin {"idle", "unlock"} PROVE job'[p].id \notin committed'
    <3>1. CASE \E i \in Id, image \in Image : StartCreate(p, i, image)
      <4>1. PICK i \in Id, image \in Image : StartCreate(p, i, image)
        BY <3>1
      <4>2. job'[p].id = i /\ imgDir[i] = "absent" /\ UNCHANGED imgVars
        BY <1>2, <4>1, NoJobType DEF StartCreate, Job, ImageExists
      <4>3. QED
        BY <4>2 DEF ImageInv, Recorded, imgVars
    <3>2. CASE /\ job'[p].id = i0
               /\ cpc[p] # "idle" /\ (cpc[p] = "unlock" => cpc'[p] = "unlock")
      <4>1. i0 \notin committed
        BY <2>2, <3>2 DEF ImageInv, JobOwns, i0
      <4>2. QED
        BY <1>3, <1>6, <2>2, <3>2, <4>1 DEF imgVars
    <3>3. QED
      BY <1>3, <2>2, <3>1, <3>2
  <2>3. QED
    BY <2>1, <2>2 DEF JobOwns
<1>9. CASE UNCHANGED imgVars
  <2>1. UNCHANGED <<imgDir, base, depFile, deps, committed>>
    BY <1>9 DEF imgVars
  <2>2. Recorded'
    BY <2>1 DEF ImageInv, Recorded
  <2>3. CleanSpares'
    BY <1>1, <2>1 DEF ImageInv, CleanSpares, Spared, cleanerVars
  <2>4. LiveImagesIntact'
    BY <1>2, <1>4, <2>1 DEF ImageInv, LiveImagesIntact
  <2>5. Stacked'
    <3>1. ASSUME NEW q \in Creators, q # p, Stacking(q)'
          PROVE  /\ base'[job'[q].id] = Layers(job'[q].image)
                 /\ \A c \in Layers(job'[q].image) : Usable(Final(c))'
      <4>1. job'[q] = job[q] /\ Stacking(q)
        BY <1>1, <2>1, <3>1 DEF Stacking
      <4>2. QED
        BY <1>2, <1>4, <2>1, <4>1 DEF ImageInv, Stacked
    <3>2. QED
      BY <3>1, OwnStack DEF Stacked
  <2>6. QED
    BY <1>7, <1>8, <2>2, <2>3, <2>4, <2>5 DEF ImageInv
<1>10. CASE CreateTouchesImages(p)
  <2>1. Creating(p) /\ UNCHANGED job
    BY <1>3, <1>10
  <2>2. Recorded'
    <3>1. ASSUME NEW i \in committed'
          PROVE  imgDir'[i] = "built" /\ (depFile'[i] = "whole" => deps'[i] = base'[i])
      <4>1. CASE i = i0
        BY <1>6, <1>10, <3>1, <4>1 DEF Stacking, ImageInv, Stacked, i0
      <4>2. CASE i # i0
        <5>1. i \in committed /\ i \in Id
          BY <1>0, <1>3, <1>10, <3>1, <4>2
        <5>2. QED
          BY <1>3, <1>10, <4>2, <5>1 DEF ImageInv, Recorded
      <4>3. QED
        BY <4>1, <4>2
    <3>2. QED
      BY <3>1 DEF Recorded
  <2>3. CleanSpares'
    <3>1. \A g \in Cleaners : ~Marking(g)
      BY <2>1, Exclusion
    <3>2. QED
      BY <1>1, <3>1 DEF CleanSpares, Marking, MarkPC, cleanerVars
  <2>4. LiveImagesIntact'
    <3>1. ASSUME NEW i \in committed', NEW c \in base'[i]
          PROVE  Usable(Final(c))'
      <4>1. CASE i = i0
        <5>1. c \in Layers(job[p].image) /\ Usable(Final(c))
          BY <1>6, <1>10, <3>1, <4>1 DEF ImageInv, Stacked, i0
        <5>2. QED
          BY <1>2, <1>4, <5>1
      <4>2. CASE i # i0
        <5>1. i \in committed /\ i \in Id
          BY <1>0, <1>3, <1>10, <3>1, <4>2
        <5>2. c \in base[i] /\ c \in Chain
          BY <1>2, <1>3, <1>10, <3>1, <4>2, <5>1
        <5>3. QED
          BY <1>4, <5>1, <5>2 DEF ImageInv, LiveImagesIntact
      <4>3. QED
        BY <4>1, <4>2
    <3>2. QED
      BY <3>1 DEF LiveImagesIntact
  <2>5. Stacked'
    <3>1. ASSUME NEW q \in Creators, q # p, Stacking(q)'
          PROVE  /\ base'[job'[q].id] = Layers(job'[q].image)
                 /\ \A c \in Layers(job'[q].image) : Usable(Final(c))'
      <4>1. cpc'[q] = cpc[q] /\ cpc[q] # "idle" /\ job'[q] = job[q] /\ job[q].id \in Id
        BY <1>1, <1>2, <3>1 DEF Stacking
      <4>2. job[q].id # i0
        BY <2>1, <3>1, <4>1 DEF ImageInv, OneCreate, Creating, i0
      <4>3. Stacking(q) /\ base'[job[q].id] = base[job[q].id]
        BY <1>3, <1>10, <3>1, <4>1, <4>2 DEF Stacking
      <4>4. QED
        BY <1>2, <1>4, <4>1, <4>3 DEF ImageInv, Stacked
    <3>2. QED
      BY <3>1, OwnStack DEF Stacked
  <2>6. QED
    BY <1>7, <1>8, <2>2, <2>3, <2>4, <2>5 DEF ImageInv
<1>11. QED
  BY <1>3, <1>9, <1>10

\* A clean that takes a step spares the committed images.
LEMMA OwnSpares ==
  ASSUME NEW g \in Cleaners, Types, LinkInv, ImageInv, Clean(g), NEW i \in committed
  PROVE  /\ gpc'[g] = "deps" => i \in ids'[g] \/ Spared(g, i)'
         /\ gpc'[g] \in {"mark"} \cup MarkPC => Spared(g, i)'
<1> USE DEF At, Goto, MarkPC
<1>1. /\ gpc \in [Cleaners -> CleanerPC] /\ cur \in [Cleaners -> Name \cup {None}]
      /\ queue \in [Cleaners -> SUBSET Name] /\ ids \in [Cleaners -> SUBSET Id]
      /\ i \in Id /\ UNCHANGED <<imgDir, base, depFile, deps, committed>>
      /\ imgDir[i] = "built" /\ (depFile[i] = "whole" => deps[i] = base[i])
      /\ gpc[g] = "deps" => i \in ids[g] \/ Spared(g, i)
      /\ gpc[g] \in {"mark"} \cup MarkPC => Spared(g, i)
  BY CleanFrame, LayersChain DEF Types, TypeOK, CleanerTypeOK, ImageInv, Recorded,
     CleanSpares, imgVars
<1>2. CASE ListVolumesAndImages(g)
  <2>1. gpc'[g] = "deps" /\ ids'[g] = ImageIDs
    BY <1>1, <1>2 DEF ListVolumesAndImages
  <2>2. QED
    BY <1>1, <2>1 DEF ImageIDs, ImageExists
<1>3. CASE \E k \in Id : ReadDependencies(g, k)
  <2>1. PICK k \in Id : ReadDependencies(g, k)
    BY <1>3
  <2>2. /\ gpc[g] = "deps" /\ gpc'[g] = "deps" /\ depFile[k] = "whole"
        /\ queue'[g] = queue[g] \ {Final(c) : c \in deps[k]}
        /\ ids'[g] = ids[g] \ {k} /\ UNCHANGED cur
    BY <1>1, <2>1 DEF ReadDependencies
  <2>3. CASE k = i
    BY <1>1, <2>2, <2>3 DEF Spared
  <2>4. CASE k # i
    BY <1>1, <2>2, <2>4 DEF Spared
  <2>5. QED
    BY <2>3, <2>4
<1>4. CASE (\E k \in Id : ReadDependenciesError(g, k)) \/ UnusedVolumesFails(g)
  <2>1. gpc'[g] = "mark" /\ queue'[g] = {}
    BY <1>1, <1>4 DEF ReadDependenciesError, UnusedVolumesFails
  <2>2. QED
    BY <2>1 DEF Spared
<1>5. CASE DependenciesRead(g)
  BY <1>1, <1>5 DEF DependenciesRead, Spared
<1>6. CASE \E n \in Name : MarkNext(g, n) \/ MarkNextFails(g, n)
  <2>1. PICK n \in Name : MarkNext(g, n) \/ MarkNextFails(g, n)
    BY <1>6
  <2>2. /\ gpc[g] = "mark" /\ n \in queue[g] /\ queue'[g] = queue[g] \ {n}
        /\ gpc'[g] # "deps" /\ (gpc'[g] \in MarkPC => cur'[g] = n)
    BY <1>1, <2>1 DEF MarkNext, MarkNextFails
  <2>3. QED
    BY <1>1, <2>2 DEF Spared
<1>7. CASE MarkUnlink(g) \/ MarkSymlink(g) \/ MarkDir(g) \/ MarkMeta(g) \/ MarkFails(g)
  <2>1. /\ gpc[g] \in MarkPC /\ queue' = queue
        /\ gpc'[g] # "deps" /\ (gpc'[g] \in MarkPC => cur'[g] = cur[g])
    BY <1>1, <1>7 DEF MarkUnlink, MarkSymlink, MarkDir, MarkMeta, MarkFails
  <2>2. QED
    BY <1>1, <2>1 DEF Spared
<1>8. CASE ~(\/ ListVolumesAndImages(g) \/ (\E k \in Id : ReadDependencies(g, k))
             \/ (\E k \in Id : ReadDependenciesError(g, k)) \/ UnusedVolumesFails(g)
             \/ DependenciesRead(g) \/ (\E n \in Name : MarkNext(g, n) \/ MarkNextFails(g, n))
             \/ MarkUnlink(g) \/ MarkSymlink(g) \/ MarkDir(g) \/ MarkMeta(g) \/ MarkFails(g))
  <2>1. gpc'[g] \notin {"deps", "mark"} \cup MarkPC
    BY <1>1, <1>8 DEF Clean, CleanStep, CleanFault, StartClean, LockGC, LockGCTimeout, Measure,
     LockGlobalExclusive, LockGlobalTimeout, LockGlobalLate, MarkDone,
     UnlockGlobal, GcVolumes, GcVolumesFails, DestroyNext, DestroyNextFails, DestroyMeta,
     DestroyMetaFails, DestroyLinkFile, DestroyDirBegin, DestroyDirEnd, DestroyFails,
     CollectDone, EndClean, CleaningTimeout, KillClean, ExitClean, cleanerVars
  <2>2. QED
    BY <2>1
<1>9. QED
  BY <1>2, <1>3, <1>4, <1>5, <1>6, <1>7, <1>8

\* Every step of a clean keeps the invariant of the images.
LEMMA CleanImages ==
  ASSUME NEW g \in Cleaners, Types, LockInv, VolumeInv, LinkInv, ImageInv, Clean(g)
  PROVE  ImageInv'
<1>1. /\ UNCHANGED <<cpc, job, imgDir, base, depFile, deps, committed>>
      /\ \A h \in Cleaners \ {g} : /\ gpc'[h] = gpc[h] /\ cur'[h] = cur[h]
                                   /\ queue'[h] = queue[h] /\ ids'[h] = ids[h]
  BY CleanFrame DEF creatorVars, imgVars
<1>2. OneCreate' /\ JobOwns' /\ Recorded'
  BY <1>1 DEF ImageInv, OneCreate, JobOwns, Recorded
<1>3. CleanSpares'
  BY <1>1, OwnSpares DEF ImageInv, CleanSpares, Spared
<1>4. LiveImagesIntact'
  <2>1. ASSUME NEW i \in committed, NEW c \in base[i] PROVE Usable(Final(c))'
    <3>1. c \in Chain /\ Usable(Final(c))
      BY <2>1, LayersChain DEF ImageInv, LiveImagesIntact
    <3>2. ~MarkTarget(g, Final(c))
      BY <2>1 DEF ImageInv, CleanSpares, Spared, MarkTarget
    <3>3. QED
      BY <3>1, <3>2, CleanProtects
  <2>2. QED
    BY <1>1, <2>1 DEF LiveImagesIntact
<1>5. Stacked'
  <2>1. ASSUME NEW q \in Creators, Stacking(q), NEW c \in Layers(job[q].image)
        PROVE  Usable(Final(c))'
    <3>1. c \in Chain /\ Usable(Final(c))
      BY <2>1, LayersChain DEF ImageInv, Stacked
    <3>2. ~Marking(g)
      BY <2>1, Exclusion DEF Stacking, Creating
    <3>3. ~MarkTarget(g, Final(c))
      BY <3>2 DEF Marking, MarkTarget, MarkPC
    <3>4. QED
      BY <3>1, <3>3, CleanProtects
  <2>2. QED
    BY <1>1, <2>1 DEF ImageInv, Stacked, Stacking
<1>6. QED
  BY <1>2, <1>3, <1>4, <1>5 DEF ImageInv

\* Every step of a delete keeps the invariant of the images: what it changes
\* is no longer a committed image, or is not read again by a clean.
LEMMA DeleteImages ==
  ASSUME NEW d \in Deleters, Types, ImageInv, Delete(d)
  PROVE  ImageInv'
<1>1. UNCHANGED <<vol, link, sym, meta, cpc, job, gpc, queue, ids, cur>>
  BY DeleteFrame DEF volVars, creatorVars, cleanerVars
<1>2. /\ committed' \subseteq committed
      /\ \A i \in committed' :
           /\ imgDir'[i] = imgDir[i] /\ base'[i] = base[i]
           /\ depFile'[i] = "whole" => depFile[i] = "whole" /\ deps'[i] = deps[i]
      /\ \A i \in Id : imgDir'[i] = "built" => imgDir[i] = "built" /\ base'[i] = base[i]
  <2>1. ImgTypeOK /\ victim[d] \in Id
    BY DEF Types, TypeOK, DeleterTypeOK
  <2>2. \/ UNCHANGED imgVars \/ UnmountImage(victim[d]) \/ RemoveImageDir(victim[d])
        \/ RemoveDepFile(victim[d])
    BY DEF Delete, DeleteStep, DeleteFault, StartDelete, DestroyImage, RemoveImage,
       DeleteFails, Deregister, KillDelete
  <2>3. QED
    BY <2>1, <2>2 DEF ImgTypeOK, imgVars, UnmountImage, RemoveImageDir, RemoveDepFile
<1>3. \A c : Usable(Final(c))' <=> Usable(Final(c))
  BY <1>1 DEF Usable
<1>4. OneCreate' /\ JobOwns' /\ Recorded'
  BY <1>1, <1>2 DEF ImageInv, OneCreate, JobOwns, Recorded
<1>5. CleanSpares' /\ LiveImagesIntact'
  BY <1>1, <1>2, <1>3 DEF ImageInv, CleanSpares, Spared, LiveImagesIntact
<1>6. Stacked'
  BY <1>1, <1>2, <1>3, LayersChain DEF ImageInv, Stacked, Stacking
<1>7. QED
  BY <1>4, <1>5, <1>6 DEF ImageInv

------------------------------------------------------------------------------
(* The theorems *)

\* There is no image in the initial state.
LEMMA InitImages == Init => ImageInv
BY DEF Init, ImgInit, CreatorInit, CleanerInit, ImageInv, OneCreate, JobOwns, Recorded,
   Stacked, Stacking, CleanSpares, LiveImagesIntact

\* Every step of any command keeps the invariant of the images.
LEMMA NextImages ==
  ASSUME OneCreatePerId
  PROVE  Types /\ LockInv /\ VolumeInv /\ LinkInv /\ ImageInv /\ [Next]_vars => ImageInv'
<1> SUFFICES ASSUME Types, LockInv, VolumeInv, LinkInv, ImageInv, [Next]_vars PROVE ImageInv'
  OBVIOUS
<1>1. CASE UNCHANGED vars
  BY <1>1 DEF vars, volVars, creatorVars, cleanerVars, imgVars, ImageInv, OneCreate, JobOwns,
     Recorded, Stacked, Stacking, CleanSpares, Spared, LiveImagesIntact, Usable
<1>2. QED
  BY <1>1, CreateImages, CleanImages, DeleteImages DEF Next, Rest

\* The invariant of the images is an invariant of the specification.
LEMMA AlwaysImages ==
  ASSUME OneCreatePerId
  PROVE  Spec => [](Types /\ LockInv /\ VolumeInv /\ LinkInv /\ ImageInv)
<1>1. QED
  BY AlwaysLinks, InitImages, NextImages, PTL DEF Spec

\* The layers under every image that a create has returned and no delete has
\* touched are whole and reachable, whatever other creates, cleans, failures,
\* kills and timeouts do, for any number of commands.
THEOREM Intact ==
  ASSUME OneCreatePerId
  PROVE  Spec => []LiveImagesIntact
<1>1. ImageInv => LiveImagesIntact
  BY DEF ImageInv
<1>2. QED
  BY <1>1, AlwaysImages, PTL

------------------------------------------------------------------------------
(* The store implements a LayerCache *)

\* The refinement mapping, as in the instance Cache.
Cached == {c \in Chain : Usable(Final(c))}
Rootfs == [i \in Id |-> IF i \in committed THEN base[i] ELSE {}]

\* A step that changes the usability of one layer at most, and no image,
\* publishes that layer, evicts it or does nothing to the cache.  It cannot
\* evict a layer in use: after the step the committed images are intact.
LEMMA VolumeStep ==
  ASSUME Types, ImageInv', NEW e \in Chain, UNCHANGED <<base, committed>>,
         \A d \in Chain \ {e} : Usable(Final(d))' <=> Usable(Final(d))
  PROVE  [Cache!CacheNext]_(Cache!cacheVars)
<1>1. Rootfs' = Rootfs
  BY DEF Rootfs
<1>2. CASE Usable(Final(e))' <=> Usable(Final(e))
  <2>1. Cached' = Cached
    BY <1>2 DEF Cached
  <2>2. QED
    BY <1>1, <2>1 DEF Cache!cacheVars, Cached, Rootfs
<1>3. CASE Usable(Final(e))' /\ ~Usable(Final(e))
  <2>1. e \notin Cached /\ Cached' = Cached \cup {e}
    BY <1>3 DEF Cached
  <2>2. Cache!Publish(e)
    BY <1>1, <2>1 DEF Cache!Publish, Cached, Rootfs
  <2>3. QED
    BY <2>2 DEF Cache!CacheNext
<1>4. CASE ~Usable(Final(e))' /\ Usable(Final(e))
  <2>1. e \in Cached /\ Cached' = Cached \ {e}
    BY <1>4 DEF Cached
  <2>2. \A i \in Id : e \notin Rootfs[i]
    BY <1>4 DEF ImageInv, LiveImagesIntact, Rootfs
  <2>3. Cache!Evict(e)
    BY <1>1, <2>1, <2>2 DEF Cache!Evict, Cached, Rootfs
  <2>4. QED
    BY <2>3 DEF Cache!CacheNext
<1>5. QED
  BY <1>2, <1>3, <1>4

\* A step that changes one image at most, and no volume, commits it on usable
\* layers, removes it or does nothing to the cache.
LEMMA ImageStep ==
  ASSUME Types, NEW i \in Id, UNCHANGED volVars,
         \A j \in Id \ {i} : base'[j] = base[j] /\ (j \in committed' <=> j \in committed),
         \/ i \notin committed'
         \/ i \in committed /\ base'[i] = base[i]
         \/ /\ i \notin committed
            /\ \E image \in Image : /\ base'[i] = Layers(image)
                                    /\ \A c \in Layers(image) : Usable(Final(c))
  PROVE  [Cache!CacheNext]_(Cache!cacheVars)
<1>1. Cached' = Cached
  BY DEF Cached, Usable, volVars
<1>2. \A j \in Id \ {i} : Rootfs'[j] = Rootfs[j]
  BY DEF Rootfs
<1>3. CASE Rootfs'[i] = Rootfs[i]
  <2>1. Rootfs' = Rootfs
    BY <1>2, <1>3 DEF Rootfs
  <2>2. QED
    BY <1>1, <2>1 DEF Cache!cacheVars, Cached, Rootfs
<1>4. CASE i \notin committed' /\ Rootfs'[i] # Rootfs[i]
  <2>1. Rootfs[i] # {} /\ Rootfs' = [Rootfs EXCEPT ![i] = {}]
    BY <1>2, <1>4 DEF Rootfs
  <2>2. Cache!Remove(i)
    BY <1>1, <2>1 DEF Cache!Remove, Cached, Rootfs
  <2>3. QED
    BY <2>2 DEF Cache!CacheNext
<1>5. CASE i \in committed' /\ i \notin committed
  <2>1. PICK image \in Image : /\ base'[i] = Layers(image)
                               /\ \A c \in Layers(image) : Usable(Final(c))
    BY <1>5
  <2>2. Layers(image) \subseteq Cached
    BY <2>1, ImageTypes DEF Cached
  <2>3. Rootfs[i] = {} /\ Rootfs' = [Rootfs EXCEPT ![i] = Layers(image)]
    BY <1>2, <1>5, <2>1 DEF Rootfs
  <2>4. Cache!Commit(i, image)
    BY <1>1, <2>2, <2>3 DEF Cache!Commit, Cached, Rootfs, Layers
  <2>5. QED
    BY <2>4 DEF Cache!CacheNext
<1>6. QED
  BY <1>3, <1>4, <1>5 DEF Rootfs

\* What a create does to the cache: its download publishes its layer, its
\* registration commits its image, its cleanup touches no committed one.
LEMMA CreateRefines ==
  ASSUME NEW p \in Creators, Types, LockInv, VolumeInv, LinkInv, ImageInv, ImageInv',
         Create(p)
  PROVE  [Cache!CacheNext]_(Cache!cacheVars)
<1>1. CASE CreateTouchesVolumes(p)
  <2>1. /\ cpc[p] \in BuildPC \ {"reprobe"} /\ UNCHANGED <<base, committed>>
        /\ \A d \in Chain : d # Layer(p) => Untouched(Final(d))
    BY <1>1, CreateFrame, CreateTouches, QuietTouches DEF LinkInv, imgVars
  <2>2. Layer(p) \in Chain
    BY <2>1, BuildFacts
  <2>3. \A d \in Chain \ {Layer(p)} : Usable(Final(d))' <=> Usable(Final(d))
    BY <2>1, UntouchedUsable
  <2>4. QED
    BY <2>1, <2>2, <2>3, VolumeStep
<1>2. CASE CreateTouchesImages(p)
  <2> DEFINE i0 == job[p].id
  <2>1. /\ i0 \in Id /\ i0 \notin committed /\ UNCHANGED volVars
        /\ \A j \in Id \ {i0} : base'[j] = base[j] /\ (j \in committed' <=> j \in committed)
    BY <1>2, CreateImageFrame, LayersChain DEF ImageInv, JobOwns, Creating
  <2>2. ASSUME i0 \in committed'
        PROVE  \E image \in Image : /\ base'[i0] = Layers(image)
                                    /\ \A c \in Layers(image) : Usable(Final(c))
    <3>1. RegisterWrite(p)
      BY <1>2, <2>1, <2>2 DEF CreateTouchesImages, MkdirImage, CreateImage, RegisterOpen,
         UndoUnmount, UndoRemove, MakeImageDir, BuildRootfs, OpenDepFile, UnmountImage,
         RemoveImageDir
    <3>2. Stacking(p) /\ UNCHANGED base
      BY <2>1, <2>2, <3>1 DEF RegisterWrite, WriteDepFile, Stacking, Step
    <3>3. job[p].image \in Image
      BY DEF Types, TypeOK, CreatorTypeOK, Job
    <3>4. QED
      BY <3>2, <3>3 DEF ImageInv, Stacked
  <2>3. QED
    BY <2>1, <2>2, ImageStep
<1>3. CASE UNCHANGED volVars /\ UNCHANGED imgVars
  <2>1. Cached' = Cached /\ Rootfs' = Rootfs
    BY <1>3 DEF Cached, Rootfs, Usable, volVars, imgVars
  <2>2. QED
    BY <2>1 DEF Cache!cacheVars, Cached, Rootfs
<1>4. QED
  BY <1>1, <1>2, <1>3, CreateFrame, CreateImageFrame

\* What a clean does to the cache: it evicts the layer it marks, if any.
LEMMA CleanRefines ==
  ASSUME NEW g \in Cleaners, Types, LinkInv, ImageInv', Clean(g)
  PROVE  [Cache!CacheNext]_(Cache!cacheVars)
<1>1. UNCHANGED <<base, committed>>
  BY CleanFrame DEF imgVars
<1>2. \A d \in Chain : Final(d) \in Name /\ Final(d).gc = FALSE /\ Final(d).chain = d
  BY NameFacts
<1>3. \E e \in Chain : \A d \in Chain \ {e} : Untouched(Final(d))
  <2>1. PICK e \in Chain : TRUE
    <3>1. PICK s \in Image : s \in Seq(Chain) /\ Len(s) > 0
      BY ImageAssumption
    <3>2. s[1] \in Chain
      BY <3>1, ImageTypes
    <3>3. QED
      BY <3>2
  <2>2. CASE UNCHANGED volVars
    BY <2>1, <2>2, QuietTouches
  <2>3. CASE MarkTouchesVolumes(g)
    <3>1. PICK n \in Name : \A m \in Name : m.gc = FALSE /\ m # n => Untouched(m)
      BY <2>3, MarkTouches
    <3>2. n.chain \in Chain
      BY DEF Name
    <3>3. \A d \in Chain \ {n.chain} : Untouched(Final(d))
      BY <1>2, <3>1
    <3>4. QED
      BY <3>2, <3>3
  <2>4. CASE DestroyTouchesVolumes(g)
    <3>1. \A d \in Chain : Untouched(Final(d))
      BY <1>2, <2>4, DestroyTouches
    <3>2. QED
      BY <2>1, <3>1
  <2>5. QED
    BY <2>2, <2>3, <2>4, CleanFrame
<1>4. PICK e \in Chain : \A d \in Chain \ {e} : Untouched(Final(d))
  BY <1>3
<1>5. \A d \in Chain \ {e} : Usable(Final(d))' <=> Usable(Final(d))
  BY <1>4, UntouchedUsable
<1>6. QED
  BY <1>1, <1>5, VolumeStep

\* What a delete does to the cache: it removes its victim.
LEMMA DeleteRefines ==
  ASSUME NEW d \in Deleters, Types, Delete(d)
  PROVE  [Cache!CacheNext]_(Cache!cacheVars)
<1>1. ImgTypeOK /\ victim[d] \in Id /\ UNCHANGED volVars
  BY DeleteFrame DEF Types, TypeOK, DeleterTypeOK
<1>2. \/ UNCHANGED imgVars \/ UnmountImage(victim[d]) \/ RemoveImageDir(victim[d])
      \/ RemoveDepFile(victim[d])
  BY DEF Delete, DeleteStep, DeleteFault, StartDelete, DestroyImage, RemoveImage,
     DeleteFails, Deregister, KillDelete
<1>3. /\ \A j \in Id \ {victim[d]} : base'[j] = base[j] /\ (j \in committed' <=> j \in committed)
      /\ \/ victim[d] \notin committed'
         \/ victim[d] \in committed /\ base'[victim[d]] = base[victim[d]]
  BY <1>1, <1>2 DEF ImgTypeOK, imgVars, UnmountImage, RemoveImageDir, RemoveDepFile
<1>4. QED
  BY <1>1, <1>3, ImageStep

\* The store is a cache of layers shared by root filesystems: every step of
\* every command publishes or evicts one layer, commits or removes one image,
\* or changes nothing a client can see; an image is committed on cached layers
\* only and no layer is evicted from under one.
THEOREM Refinement ==
  ASSUME OneCreatePerId
  PROVE  Spec => ImplementsCache
<1>1. Init => Cache!CacheInit
  BY DEF Init, VolInit, ImgInit, Cache!CacheInit, Usable, Final, Name
<1>2. Types /\ LockInv /\ VolumeInv /\ LinkInv /\ ImageInv /\ ImageInv' /\ [Next]_vars
        => [Cache!CacheNext]_(Cache!cacheVars)
  <2> SUFFICES ASSUME Types, LockInv, VolumeInv, LinkInv, ImageInv, ImageInv', [Next]_vars
               PROVE  [Cache!CacheNext]_(Cache!cacheVars)
    OBVIOUS
  <2>1. CASE UNCHANGED vars
    <3>1. Cached' = Cached /\ Rootfs' = Rootfs
      BY <2>1 DEF Cached, Rootfs, Usable, vars, volVars, imgVars
    <3>2. QED
      BY <3>1 DEF Cache!cacheVars, Cached, Rootfs
  <2>2. QED
    BY <2>1, CreateRefines, CleanRefines, DeleteRefines DEF Next, Rest
<1>3. QED
  BY <1>1, <1>2, AlwaysImages, PTL DEF Spec, ImplementsCache, Cache!CacheSpec

\* An image that a create has returned goes only when a delete of that image
\* unmounts it or removes its directory: the cleanup of a failing create
\* destroys nothing but its own attempt.  (With two creates for one id it
\* does: ImagesOutliveCreates fails in the run sameid_loss.)
OnlyDeletesRemove ==
  [][\A i \in committed \ committed' :
       \E d \in Deleters : dpc[d] \in {"unmount", "remove"} /\ victim[d] = i]_vars

\* The action property OnlyDeletesRemove, for any number of commands.
THEOREM Outlive ==
  ASSUME OneCreatePerId
  PROVE  Spec => OnlyDeletesRemove
<1> DEFINE Removed == \A i \in committed \ committed' :
             \E d \in Deleters : dpc[d] \in {"unmount", "remove"} /\ victim[d] = i
<1>1. Types /\ ImageInv /\ [Next]_vars => [Removed]_vars
  <2> SUFFICES ASSUME Types, ImageInv, [Next]_vars, ~UNCHANGED vars,
                      NEW i \in committed, i \notin committed'
               PROVE  \E d \in Deleters : dpc[d] \in {"unmount", "remove"} /\ victim[d] = i
    OBVIOUS
  <2>1. CASE \E p \in Creators : Create(p)
    <3>1. PICK p \in Creators : Create(p)
      BY <2>1
    <3>2. CreateTouchesImages(p)
      BY <3>1, CreateImageFrame DEF imgVars
    <3>3. i # job[p].id /\ i \in Id
      BY <3>1, <3>2, CreateImageFrame, LayersChain DEF ImageInv, JobOwns, Creating
    <3>4. QED
      BY <3>1, <3>2, <3>3, CreateImageFrame
  <2>2. CASE \E g \in Cleaners : Clean(g)
    BY <2>2, CleanFrame DEF imgVars
  <2>3. CASE \E d \in Deleters : Delete(d)
    <3>1. PICK d \in Deleters : Delete(d)
      BY <2>3
    <3>2. DestroyImage(d) \/ RemoveImage(d)
      BY <3>1 DEF Delete, DeleteStep, DeleteFault, StartDelete, DeleteFails, Deregister,
         KillDelete, RemoveDepFile, imgVars
    <3>3. dpc[d] \in {"unmount", "remove"} /\ victim[d] = i
      BY <3>2 DEF DestroyImage, RemoveImage, UnmountImage, RemoveImageDir, imgVars
    <3>4. QED
      BY <3>3
  <2>4. QED
    BY <2>1, <2>2, <2>3 DEF Next, Rest
<1>2. QED
  BY <1>1, AlwaysImages, PTL DEF Spec, OnlyDeletesRemove
==============================================================================
