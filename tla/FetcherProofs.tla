---------------------------- MODULE FetcherProofs ----------------------------
(***************************************************************************)
(* What is proved of Fetcher, for every registry, image, file, command line*)
(* and limit and any number of failures: all of its invariants.            *)
(***************************************************************************)
EXTENDS Fetcher, SumLemmas, SequenceTheorems

\* A create before Pull, over a blob, with a blob's file, and when it is over
\* with its image.
Early == {"config", "tarinfo", "image", "v1", "configblob"}
InBlob == {"opened", "copy", "check", "reader"}
WithFile == {"copy", "check", "reader"}
Late == {"unlock", "close", "end"}
PC == Early \cup {"pull", "layer"} \cup InBlob \cup Late

Reasons ==
  {"", "config", "registry", "no such file", "refused",
   "corrupt", "quota", "unpack", "reader", "clean", "killed", "tar", "directory"}

IsSeq(s) == \E S : s \in Seq(S)
BlobType == [content: Contents \cup {NoContent}, reported: Int, copied: Nat]

Types ==
  /\ flags \in Flags /\ img \in Images /\ pc \in PC /\ why \in Reasons
  /\ source \in {"none", "open", "closed"}
  /\ attempt \in Nat /\ attempt =< MAX_DOCKER_RETRIES /\ fails \in Nat /\ tmp \in 0 .. 1
  /\ IsSeq(diffs) /\ Len(diffs) =< Len(img.layers)
  /\ IsSeq(volumes) /\ Len(volumes) =< Len(img.layers)
  /\ \A k \in DOMAIN volumes : volumes[k].usize \in Nat
  /\ kept \in Int /\ kept >= -1 /\ kept =< Len(volumes)
  /\ version \in Nat /\ chain \in Nat /\ quota \in Int
  /\ cur \in BlobType

\* Where a create is and what it has decided.
PhaseInv ==
  /\ pc \notin Late => why = "" /\ child = <<>> /\ attempt < MAX_DOCKER_RETRIES
  /\ pc \in Early \cup {"pull"} => kept = -1
  /\ pc \in {"layer", "unlock"} \cup InBlob => kept >= 0
  /\ pc = "tarinfo" => img.scheme = ""
  /\ pc \in {"image", "v1", "configblob"} => img.scheme # ""
  /\ pc \in InBlob => img.scheme # "" /\ Len(volumes) < Len(img.layers) /\ cur.content \in Contents
  /\ pc \in Late /\ why = "" => Len(volumes) = Len(img.layers)

\* The file of a blob, and the source.
FileInv ==
  /\ pc \notin Late => tmp = IF pc \in WithFile THEN 1 ELSE 0
  /\ pc \in Late /\ why \notin {"killed", "reader", "clean"} => tmp = 0
  /\ pc = "end" => source # "open"

\* The settings.
ConfigInv ==
  /\ cfg = ZeroConfig \/ (cfg = Settings(flags) /\ Accepted(flags))
  /\ pc = "config" => cfg = ZeroConfig
  /\ pc \notin Late \cup {"config"} \/ kept >= 0 => cfg = Settings(flags) /\ Accepted(flags)

\* The clean.
ChildInv ==
  /\ child # <<>> => child = <<CleanSettings(CleanArgs(cfg))>> /\ kept >= 0 /\ cfg.clean
  /\ pc = "unlock" => child = <<>> /\ why # "clean"
  /\ pc \in {"close", "end"} /\ why # "killed" /\ kept >= 0 => (child # <<>> <=> cfg.clean /\ why # "clean")

\* The registry, and what it was asked for.
AdmitInv ==
  /\ pc = "config" => source = "none"
  /\ img.scheme # "" /\ (pc \in {"v1", "configblob", "pull"} \/ kept >= 0 \/ source = "open")
       => Admits(SystemContext)

RetryInv ==
  /\ pc \in {"config", "tarinfo"} => attempt = 0
  /\ pc \notin Late /\ (pc = "image" => Admits(SystemContext)) /\ (pc = "layer" => Serves) => attempt =< fails
  /\ why \in {"registry", "no such file"} => fails >= MAX_DOCKER_RETRIES /\ attempt = MAX_DOCKER_RETRIES

\* A server nobody trusts gives no layer of an oci image.
ServesInv ==
  /\ pc \in InBlob => Serves
  /\ ~Serves /\ kept >= 0 => Len(volumes) = kept

\* The volumes, and the blob that becomes one.
Checked == img.scheme # "" /\ (img.scheme # "oci" \/ ~cfg.skip)
VolumeInv ==
  /\ Checked \/ (pc = "config" /\ img.scheme # "") =>
       \A k \in DOMAIN volumes : volumes[k] = Unpacked(Genuine(img.layers[k]), img.layers[k].media)
  /\ Checked /\ pc = "reader" => cur.content = Genuine(Layer)
  /\ img.scheme = "" /\ pc \in {"config", "tarinfo", "pull"} => volumes = <<>>
  /\ img.scheme = "" /\ volumes # <<>> => volumes[1].diff \in Nat /\ volumes[1].diff >= chain
  /\ chain =< version

\* The limit: what is left of it and what was fetched.
Fetched == SumSizes([k \in 1 .. Len(volumes) - kept |-> volumes[kept + k].usize])
Opened == Unpacked(cur.content, Layer.media).usize
Pending == IF pc = "reader" THEN cur.copied ELSE 0
Spent == img.scheme # "" /\ kept >= 0 => quota + Fetched + Pending =< cfg.limit
Left ==
  /\ kept = -1 => quota = cfg.limit
  /\ EnforceQuota => quota >= 0
  /\ EnforceQuota /\ pc \in {"opened", "copy", "check"} => cur.copied =< quota
Copied ==
  /\ pc \in {"opened", "copy"} => cur.copied =< Opened
  /\ pc \in {"check", "reader"} => cur.copied = Opened
Cause ==
  why = "quota" =>
    \/ SumSizes([k \in DOMAIN img.layers |-> img.layers[k].size]) > cfg.limit
    \/ cur # NoBlob /\ Opened > quota
QuotaInv == Spent /\ Left /\ Copied /\ Cause

Inv ==
  Types /\ PhaseInv /\ FileInv /\ ConfigInv /\ ChildInv /\ AdmitInv /\ RetryInv /\ ServesInv
  /\ VolumeInv /\ QuotaInv
------------------------------------------------------------------------------
(* Sequences, maxima and contents *)

LEMMA Lengths ==
  ASSUME NEW s, IsSeq(s)
  PROVE  Len(s) \in Nat /\ DOMAIN s = 1 .. Len(s)
BY LenProperties DEF IsSeq

LEMMA AtMost ==
  ASSUME NEW a \in Nat, NEW n \in Nat, a < n \/ a = n
  PROVE  a =< n
OBVIOUS

LEMMA Apart ==
  ASSUME NEW a \in Int, NEW b \in Nat, b > a
  PROVE  b # a
OBVIOUS

LEMMA SeqOne ==
  ASSUME NEW x
  PROVE  IsSeq(<<x>>) /\ Len(<<x>>) = 1 /\ <<x>>[1] = x
<1>1. <<x>> \in Seq({x}) /\ Len(<<x>>) = 1 /\ <<x>>[1] = x
  OBVIOUS
<1> QED
  BY <1>1 DEF IsSeq

LEMMA SeqMade ==
  ASSUME NEW n \in Nat, NEW f, f = [k \in 1 .. n |-> f[k]]
  PROVE  IsSeq(f) /\ Len(f) = n
<1>1. f \in [1 .. n -> {f[k] : k \in 1 .. n}]
  OBVIOUS
<1>2. f \in Seq({f[k] : k \in 1 .. n})
  BY <1>1, SeqDef
<1>3. DOMAIN f = 1 .. n /\ DOMAIN f = 1 .. Len(f) /\ Len(f) \in Nat
  BY <1>1, <1>2, LenProperties
<1>4. Len(f) = n
  <2>1. PICK m \in Nat : m = Len(f)
    BY <1>3
  <2>2. 1 .. m = 1 .. n
    BY <1>3, <2>1
  <2> QED
    BY <2>1, <2>2
<1> QED
  BY <1>2, <1>4 DEF IsSeq

LEMMA SeqGrows ==
  ASSUME NEW s, IsSeq(s), NEW x
  PROVE  /\ IsSeq(Append(s, x)) /\ Len(Append(s, x)) = Len(s) + 1
         /\ Append(s, x)[Len(s) + 1] = x /\ \A k \in 1 .. Len(s) : Append(s, x)[k] = s[k]
<1>1. PICK S : s \in Seq(S)
  BY DEF IsSeq
<1>2. s \in Seq(S \cup {x})
  BY <1>1, SeqMonotonic
<1>3. /\ Append(s, x) \in Seq(S \cup {x}) /\ Len(Append(s, x)) = Len(s) + 1
      /\ Append(s, x)[Len(s) + 1] = x /\ \A k \in 1 .. Len(s) : Append(s, x)[k] = s[k]
  BY <1>2, AppendProperties
<1> QED
  BY <1>3 DEF IsSeq

LEMMA SeqPrefix ==
  ASSUME NEW s, IsSeq(s), NEW m \in 0 .. Len(s)
  PROVE  /\ IsSeq(SubSeq(s, 1, m)) /\ Len(SubSeq(s, 1, m)) = m
         /\ \A k \in 1 .. m : SubSeq(s, 1, m)[k] = s[k]
<1>1. PICK S : s \in Seq(S)
  BY DEF IsSeq
<1>2. SubSeq(s, 1, m) = [k \in 1 .. m |-> s[k]]
  BY <1>1 DEF SubSeq
<1> DEFINE t == SubSeq(s, 1, m)
<1>3. t = [k \in 1 .. m |-> t[k]] /\ \A k \in 1 .. m : t[k] = s[k]
  BY <1>2
<1>4. m \in Nat
  BY <1>1, LenProperties
<1> HIDE DEF t
<1>5. IsSeq(t) /\ Len(t) = m
  BY <1>3, <1>4, SeqMade
<1> QED
  BY <1>3, <1>5 DEF t

\* A bounded set of naturals has its maximum in it.
LEMMA MaxIn ==
  ASSUME NEW n \in Nat, NEW S \in SUBSET (0 .. n), S # {}
  PROVE  Max(S) \in S
<1> DEFINE Rest == {n - x : x \in S}
<1>1. Rest \in SUBSET Nat /\ Rest # {}
  <2>1. \A x \in S : n - x \in Nat
    OBVIOUS
  <2> QED
    BY <2>1, Zenon
<1>2. PICK d \in Rest : \A e \in Rest : d =< e
  BY <1>1, Least
<1>3. PICK x \in S : d = n - x
  BY <1>2
<1>4. \A y \in S : x >= y
  BY <1>2, <1>3
<1> QED
  BY <1>4 DEF Max

\* Whatever comes out of a blob's reader has a size.
LEMMA UnpackedSize ==
  ASSUME NEW c \in Contents \cup {NoContent}, NEW media
  PROVE  Unpacked(c, media).usize \in Nat
<1>1. DOMAIN c = {"blob", "diff", "csize", "usize", "form", "cut"} /\ c.csize \in Nat /\ c.usize \in Nat
  <2>1. CASE c \in Contents
    BY <2>1, FetcherAssumption DEF NoContent
  <2>2. CASE c = NoContent
    BY <2>2 DEF NoContent
  <2> QED
    BY <2>1, <2>2
<1> QED
  BY <1>1 DEF Unpacked

\* The content of a digest is the one content that has it.
LEMMA GenuineIs ==
  ASSUME NEW m \in Images, NEW k \in DOMAIN m.layers
  PROVE  /\ Genuine(m.layers[k]) \in Contents
         /\ \A c \in Contents : c.blob = m.layers[k].blob => c = Genuine(m.layers[k])
BY FetcherAssumption DEF Genuine

\* The layers of an image.
LEMMA LayersAre ==
  ASSUME NEW m \in Images
  PROVE  /\ IsSeq(m.layers) /\ Len(m.layers) \in Nat /\ DOMAIN m.layers = 1 .. Len(m.layers)
         /\ m.scheme = "" => Len(m.layers) = 1
         /\ \A k \in DOMAIN m.layers : m.layers[k].size \in Int
<1>1. IsSeq(m.layers)
  BY FetcherAssumption DEF IsSeq
<1> QED
  BY <1>1, Lengths, FetcherAssumption
------------------------------------------------------------------------------
(* Settings *)

Names ==
  {"store", "tardis", "uidmap", "gidmap", "metron", "level", "log", "exclude", "skip", "clean",
   "cleanLog", "withoutMount", "limit", "insecure", "certs", "threshold"}

LEMMA NamesAre == DOMAIN ZeroConfig = Names
BY DEF ZeroConfig, Names

LEMMA BuilderIs ==
  ASSUME NEW path
  PROVE  /\ DOMAIN NewBuilder(path) = Names
         /\ \A n \in Names :
              NewBuilder(path)[n] = IF path # "" /\ n \in DOMAIN Files[path] THEN Files[path][n] ELSE ZeroConfig[n]
BY NamesAre DEF NewBuilder

LEMMA BeforeIs ==
  ASSUME NEW f, NEW c, c = NewBuilder(Value(f, "config"))
  PROVE  /\ DOMAIN Before(f) = Names
         /\ \A n \in {"store", "tardis", "uidmap", "gidmap"} : Before(f)[n] = Defaulted(f, n, c[n])
         /\ Before(f).metron = NonEmpty(f, "metron", c.metron) /\ Before(f).log = NonEmpty(f, "log", c.log)
         /\ Before(f).level = Overridden(f, "level", c.level)
         /\ \A n \in {"exclude", "skip", "clean", "cleanLog", "withoutMount", "limit", "insecure", "certs",
                      "threshold"} : Before(f)[n] = c[n]
<1>1. DOMAIN c = Names
  BY BuilderIs
<1>2. Before(f) = [n \in Names |->
        CASE n \in {"store", "tardis", "uidmap", "gidmap"} -> Defaulted(f, n, c[n])
          [] n = "metron" -> WithMetronEndpoint(f, c[n])
          [] n = "log" -> NonEmpty(f, n, c[n])
          [] n = "level" -> Overridden(f, n, c[n])
          [] OTHER -> c[n]]
  BY <1>1 DEF Before
<1> QED
  BY <1>2 DEF Names, WithMetronEndpoint

LEMMA SettingsIs ==
  ASSUME NEW f
  PROVE  /\ DOMAIN Settings(f) = Names
         /\ \A n \in {"store", "tardis", "uidmap", "gidmap", "metron", "log", "level", "certs"} :
              Settings(f)[n] = Before(f)[n]
         /\ \A n \in {"limit", "exclude", "skip", "threshold"} : Settings(f)[n] = Overridden(f, n, Before(f)[n])
         /\ Settings(f).insecure = WithInsecureRegistries(f, Before(f).insecure)
         /\ Settings(f).cleanLog = NonEmpty(f, "cleanLog", Before(f).cleanLog)
         /\ Settings(f).clean = Paired(IsSet(f, "withClean"), IsSet(f, "withoutClean"), Before(f).clean)
<1>a. PICK c : c = Before(f)
  OBVIOUS
<1>1. DOMAIN c = Names
  BY <1>a, BeforeIs
<1>2. Settings(f) = [n \in Names |->
     CASE n \in {"limit", "exclude", "skip", "threshold"} -> Overridden(f, n, c[n])
       [] n = "insecure" -> WithInsecureRegistries(f, c[n])
       [] n = "cleanLog" -> NonEmpty(f, n, c[n])
       [] n = "clean" -> Paired(IsSet(f, "withClean"), IsSet(f, "withoutClean"), c[n])
       [] n = "withoutMount" ->
            ~Paired(IsSet(f, "withMount"), IsSet(f, "withoutMount"), ~c[n])
       [] OTHER -> c[n]]
  BY <1>1, <1>a DEF Settings, WithCreateFlags
<1> QED
  BY <1>2, <1>a DEF Names

LEMMA ZeroNumbers == ZeroConfig.limit = 0 /\ ZeroConfig.threshold = 0
BY DEF ZeroConfig

LEMMA ZeroFlags == ZeroConfig.skip = FALSE /\ ZeroConfig.exclude = FALSE /\ ZeroConfig.clean = FALSE
BY DEF ZeroConfig

LEMMA ZeroTexts ==
  \A n \in {"store", "tardis", "uidmap", "gidmap", "metron", "level", "log", "cleanLog"} : ZeroConfig[n] = ""
<1>1. /\ ZeroConfig.store = "" /\ ZeroConfig.tardis = "" /\ ZeroConfig.uidmap = "" /\ ZeroConfig.gidmap = ""
      /\ ZeroConfig.metron = "" /\ ZeroConfig.level = "" /\ ZeroConfig.log = "" /\ ZeroConfig.cleanLog = ""
  BY DEF ZeroConfig
<1> QED
  BY <1>1

LEMMA GivenNumbers ==
  ASSUME NEW s, Given(s), NEW n \in DOMAIN s
  PROVE  /\ n \in {"limit", "threshold"} => s[n] \in Int
         /\ n \in {"exclude", "skip", "clean"} => s[n] \in BOOLEAN
BY Zenon DEF Given

LEMMA GivenTexts ==
  ASSUME NEW s, Given(s), NEW n \in DOMAIN s
  PROVE  /\ n \in {"config", "store", "level", "log", "tardis", "uidmap", "gidmap", "metron",
                   "login", "cleanLog"} => s[n] # ""
         /\ n = "insecure" => s[n] # {}
BY Zenon DEF Given

\* What main and create build from a file and from flags.
LEMMA BuilderTypes ==
  ASSUME NEW f \in Flags, Loads(Value(f, "config")), NEW c, c = NewBuilder(Value(f, "config"))
  PROVE  c.limit \in Int /\ c.threshold \in Int /\ c.skip \in BOOLEAN /\ c.exclude \in BOOLEAN /\ c.clean \in BOOLEAN
<1>1. PICK path : path = Value(f, "config")
  OBVIOUS
<1>2. \A n \in Names : c[n] = IF path # "" /\ n \in DOMAIN Files[path] THEN Files[path][n] ELSE ZeroConfig[n]
  BY <1>1, BuilderIs
<1>3. path # "" => Given(Files[path])
  BY <1>1, ConfigAssumption DEF Loads
<1>4. ASSUME NEW n \in Names
      PROVE  c[n] = ZeroConfig[n] \/ (n \in DOMAIN Files[path] /\ Given(Files[path]) /\ c[n] = Files[path][n])
  BY <1>2, <1>3
<1>5. \A n \in {"limit", "threshold"} : c[n] \in Int
  <2> TAKE n \in {"limit", "threshold"}
  <2>1. n \in Names /\ ZeroConfig[n] \in Int
    BY ZeroNumbers DEF Names
  <2> QED
    BY <1>4, <2>1, GivenNumbers, Zenon
<1>6. \A n \in {"exclude", "skip", "clean"} : c[n] \in BOOLEAN
  <2> TAKE n \in {"exclude", "skip", "clean"}
  <2>1. n \in Names /\ ZeroConfig[n] \in BOOLEAN
    BY ZeroFlags DEF Names
  <2> QED
    BY <1>4, <2>1, GivenNumbers, Zenon
<1> QED
  BY <1>5, <1>6

LEMMA SettingsTypes ==
  ASSUME NEW f \in Flags, Accepted(f)
  PROVE  /\ Settings(f).limit \in Nat /\ Settings(f).threshold \in Nat
         /\ Settings(f).skip \in BOOLEAN /\ Settings(f).exclude \in BOOLEAN /\ Settings(f).clean \in BOOLEAN
<1>a. PICK c : c = NewBuilder(Value(f, "config"))
  OBVIOUS
<1>1. c.limit \in Int /\ c.threshold \in Int /\ c.skip \in BOOLEAN /\ c.exclude \in BOOLEAN /\ c.clean \in BOOLEAN
  BY <1>a, BuilderTypes DEF Accepted
<1>2. /\ Before(f).limit = c.limit /\ Before(f).threshold = c.threshold /\ Before(f).skip = c.skip
      /\ Before(f).exclude = c.exclude /\ Before(f).clean = c.clean
  BY <1>a, BeforeIs
<1>3. Given(f)
  BY ConfigAssumption
<1>4. Settings(f).limit >= 0 /\ Settings(f).threshold >= 0
  BY DEF Accepted, Build, Settings
<1>a1. \A n \in {"limit", "exclude", "skip", "threshold"} :
         Settings(f)[n] = Before(f)[n] \/ (n \in DOMAIN f /\ Settings(f)[n] = f[n])
  BY SettingsIs DEF Overridden, IsSet
<1>5. \A n \in {"limit", "threshold"} : Settings(f)[n] \in Int
  <2> TAKE n \in {"limit", "threshold"}
  <2>1. Before(f)[n] \in Int
    BY <1>1, <1>2
  <2> QED
    BY <1>3, <1>a1, <2>1, GivenNumbers, Zenon
<1>6. \A n \in {"skip", "exclude"} : Settings(f)[n] \in BOOLEAN
  <2> TAKE n \in {"skip", "exclude"}
  <2>1. Before(f)[n] \in BOOLEAN
    BY <1>1, <1>2
  <2> QED
    BY <1>3, <1>a1, <2>1, GivenNumbers, Zenon
<1>7. Settings(f).clean \in BOOLEAN
  BY SettingsIs DEF Paired
<1> QED
  BY <1>4, <1>5, <1>6, <1>7
LEMMA DefaultsAre ==
  /\ DOMAIN FlagDefaults = GlobalFlags \cup {"insecure", "login", "cleanLog"}
  /\ FlagDefaults.insecure = {}
BY DEF FlagDefaults, GlobalFlags

LEMMA DefaultTexts ==
  /\ \A n \in {"config", "log", "metron", "login", "cleanLog"} : FlagDefaults[n] = ""
  /\ \A n \in {"store", "tardis", "uidmap", "gidmap"} : FlagDefaults[n] # ""
  /\ FlagDefaults.level = "fatal"
<1>1. /\ FlagDefaults.config = "" /\ FlagDefaults.log = "" /\ FlagDefaults.metron = ""
      /\ FlagDefaults.login = "" /\ FlagDefaults.cleanLog = ""
  BY DEF FlagDefaults
<1>2. /\ FlagDefaults.store # "" /\ FlagDefaults.tardis # "" /\ FlagDefaults.uidmap # ""
      /\ FlagDefaults.gidmap # "" /\ FlagDefaults.level = "fatal"
  BY DEF FlagDefaults
<1> QED
  BY <1>1, <1>2

\* What the file has, and nothing else, is in the builder.
InFile(n) == LET path == Value(flags, "config") IN path # "" /\ n \in DOMAIN Files[path]
FileValue(n) == Files[Value(flags, "config")][n]

LEMMA FileIs ==
  ASSUME flags \in Flags, Loads(Value(flags, "config")), NEW n \in Names,
         NEW c, c = NewBuilder(Value(flags, "config"))
  PROVE  /\ InFile(n) => c[n] = FileValue(n)
         /\ ~InFile(n) => c[n] = ZeroConfig[n]
         /\ InFile(n) /\ n \in {"store", "level", "log", "tardis", "uidmap", "gidmap", "metron", "cleanLog"}
              => FileValue(n) # ""
<1>1. PICK path : path = Value(flags, "config")
  OBVIOUS
<1>2. c[n] = IF path # "" /\ n \in DOMAIN Files[path] THEN Files[path][n] ELSE ZeroConfig[n]
  BY <1>1, BuilderIs
<1>3. path # "" => Given(Files[path])
  BY <1>1, ConfigAssumption DEF Loads
<1>4. (InFile(n) <=> path # "" /\ n \in DOMAIN Files[path]) /\ FileValue(n) = Files[path][n]
  BY <1>1 DEF InFile, FileValue
<1> QED
  BY <1>2, <1>3, <1>4, GivenTexts

LEMMA DeclaredIs ==
  ASSUME flags \in Flags, NEW n
  PROVE  /\ IsSet(flags, n) => Declared(n) = flags[n]
         /\ ~IsSet(flags, n) /\ InFile(n) => Declared(n) = FileValue(n)
         /\ ~IsSet(flags, n) /\ ~InFile(n) /\ n \in DOMAIN FlagDefaults => Declared(n) = FlagDefaults[n]
         /\ ~IsSet(flags, n) /\ ~InFile(n) /\ n \notin DOMAIN FlagDefaults => Declared(n) = ZeroConfig[n]
BY DEF Declared, InFile, FileValue

\* The settings of a command are the declared ones.
LEMMA SettingsDeclared ==
  ASSUME flags \in Flags, Accepted(flags)
  PROVE  \A n \in {"store", "tardis", "uidmap", "gidmap", "metron", "log", "limit", "exclude",
                   "skip", "threshold", "insecure", "cleanLog"} : Settings(flags)[n] = Declared(n)
<1>a. PICK c : c = NewBuilder(Value(flags, "config"))
  OBVIOUS
<1>0. Loads(Value(flags, "config")) /\ Given(flags)
  BY ConfigAssumption DEF Accepted
<1>1. \A n \in {"store", "tardis", "uidmap", "gidmap"} : Settings(flags)[n] = Declared(n)
  <2> TAKE n \in {"store", "tardis", "uidmap", "gidmap"}
  <2>1. Settings(flags)[n] = IF IsSet(flags, n) \/ c[n] = "" THEN Value(flags, n) ELSE c[n]
    <3>1. Settings(flags)[n] = Before(flags)[n]
      BY SettingsIs
    <3>2. Before(flags)[n] = Defaulted(flags, n, c[n])
      BY <1>a, BeforeIs
    <3> QED
      BY <3>1, <3>2 DEF Defaulted
  <2>2. n \in Names /\ n \in DOMAIN FlagDefaults /\ ZeroConfig[n] = ""
    BY DefaultsAre, ZeroTexts DEF Names, GlobalFlags
  <2>3. /\ InFile(n) => c[n] = FileValue(n) /\ c[n] # ""
        /\ ~InFile(n) => c[n] = ""
    BY <1>0, <1>a, <2>2, FileIs
  <2> QED
    BY <2>1, <2>2, <2>3, DeclaredIs DEF Value
<1>2. \A n \in {"metron", "log", "cleanLog"} : Settings(flags)[n] = Declared(n)
  <2> TAKE n \in {"metron", "log", "cleanLog"}
  <2>1. Settings(flags)[n] = IF Value(flags, n) = "" THEN c[n] ELSE Value(flags, n)
    <3>1. Settings(flags)[n] = NonEmpty(flags, n, c[n])
      <4>1. CASE n = "cleanLog"
        BY <1>a, <4>1, SettingsIs, BeforeIs
      <4>2. CASE n \in {"metron", "log"}
        <5>1. Settings(flags)[n] = Before(flags)[n]
          BY <4>2, SettingsIs
        <5>2. Before(flags)[n] = NonEmpty(flags, n, c[n])
          BY <1>a, <4>2, BeforeIs
        <5> QED
          BY <5>1, <5>2
      <4> QED
        BY <4>1, <4>2
    <3> QED
      BY <3>1 DEF NonEmpty
  <2>2. n \in Names /\ n \in DOMAIN FlagDefaults /\ ZeroConfig[n] = "" /\ FlagDefaults[n] = ""
    BY DefaultsAre, DefaultTexts, ZeroTexts DEF Names, GlobalFlags
  <2>3. /\ InFile(n) => c[n] = FileValue(n)
        /\ ~InFile(n) => c[n] = ""
    BY <1>0, <1>a, <2>2, FileIs
  <2>4. IsSet(flags, n) => flags[n] # ""
    BY <1>0, GivenTexts DEF IsSet
  <2> QED
    BY <2>1, <2>2, <2>3, <2>4, DeclaredIs DEF Value
<1>3. Settings(flags).insecure = Declared("insecure")
  <2>1. Settings(flags).insecure = IF Value(flags, "insecure") = {} THEN c.insecure ELSE Value(flags, "insecure")
    BY <1>a, SettingsIs, BeforeIs DEF WithInsecureRegistries
  <2>2. "insecure" \in Names /\ "insecure" \in DOMAIN FlagDefaults /\ FlagDefaults.insecure = {}
    BY DefaultsAre DEF Names
  <2>3. /\ InFile("insecure") => c.insecure = FileValue("insecure")
        /\ ~InFile("insecure") => c.insecure = {}
    <3>1. ZeroConfig.insecure = {}
      BY DEF ZeroConfig
    <3> QED
      BY <1>0, <1>a, <2>2, <3>1, FileIs
  <2>4. IsSet(flags, "insecure") => flags["insecure"] # {}
    BY <1>0, GivenTexts DEF IsSet
  <2> QED
    BY <2>1, <2>2, <2>3, <2>4, DeclaredIs DEF Value
<1>4. \A n \in {"limit", "exclude", "skip", "threshold"} : Settings(flags)[n] = Declared(n)
  <2> TAKE n \in {"limit", "exclude", "skip", "threshold"}
  <2>1. Settings(flags)[n] = IF IsSet(flags, n) THEN flags[n] ELSE c[n]
    BY <1>a, SettingsIs, BeforeIs DEF Overridden
  <2>2. n \in Names /\ n \notin DOMAIN FlagDefaults
    BY DefaultsAre DEF Names, GlobalFlags
  <2>3. /\ InFile(n) => c[n] = FileValue(n)
        /\ ~InFile(n) => c[n] = ZeroConfig[n]
    BY <1>0, <1>a, <2>2, FileIs
  <2> QED
    BY <2>1, <2>2, <2>3, DeclaredIs
<1> QED
  BY <1>1, <1>2, <1>3, <1>4
\* Whether a clean is wanted.
Wanted == ~IsSet(flags, "withoutClean") /\ (IsSet(flags, "withClean") \/ Declared("clean"))

LEMMA CleanDeclared ==
  ASSUME flags \in Flags, Accepted(flags)
  PROVE  Settings(flags).clean <=> Wanted
<1>a. PICK c : c = NewBuilder(Value(flags, "config"))
  OBVIOUS
<1>0. Loads(Value(flags, "config")) /\ "clean" \notin DOMAIN flags /\ "clean" \notin DOMAIN FlagDefaults
  BY ConfigAssumption, DefaultsAre DEF Accepted, GlobalFlags, CreateFlags
<1>1. Settings(flags).clean = (~IsSet(flags, "withoutClean") /\ (IsSet(flags, "withClean") \/ Before(flags).clean))
  BY SettingsIs DEF Paired
<1>2. Before(flags).clean = c.clean
  BY <1>a, BeforeIs
<1>3. c.clean = Declared("clean")
  BY <1>0, <1>a, FileIs, DeclaredIs DEF Names, IsSet
<1> QED
  BY <1>1, <1>2, <1>3 DEF Wanted

\* The clean a create starts builds its settings from no file.
LEMMA EmptyFile == \A n \in Names : NewBuilder("")[n] = ZeroConfig[n]
BY BuilderIs

LEMMA ArgsAre ==
  ASSUME NEW c, DOMAIN c = Names
  PROVE  /\ "config" \notin DOMAIN CleanArgs(c)
         /\ \A n \in {"store", "tardis", "uidmap", "gidmap", "metron", "level"} :
              /\ n \in DOMAIN CleanArgs(c) <=> c[n] # ""
              /\ n \in DOMAIN CleanArgs(c) => CleanArgs(c)[n] = c[n]
         /\ "log" \in DOMAIN CleanArgs(c) <=> c.cleanLog # ""
         /\ "log" \in DOMAIN CleanArgs(c) => CleanArgs(c)["log"] = c.cleanLog
         /\ "threshold" \in DOMAIN CleanArgs(c) /\ CleanArgs(c)["threshold"] = c.threshold
<1> DEFINE passed == [c EXCEPT !.log = c.cleanLog]
<1>1. /\ passed.log = c.cleanLog
      /\ \A n \in {"store", "tardis", "uidmap", "gidmap", "metron", "level", "threshold"} : passed[n] = c[n]
  BY DEF Names
<1> HIDE DEF passed
<1>2. CleanArgs(c) = [n \in {m \in GlobalFlags \ {"config"} : passed[m] # ""} \cup {"threshold"} |-> passed[n]]
  BY DEF CleanArgs, passed
<1>3. DOMAIN CleanArgs(c) = {m \in GlobalFlags \ {"config"} : passed[m] # ""} \cup {"threshold"}
  BY <1>2
<1>4. \A n \in DOMAIN CleanArgs(c) : CleanArgs(c)[n] = passed[n]
  BY <1>2, <1>3
<1>5. \A n \in {"store", "tardis", "uidmap", "gidmap", "metron", "level", "log"} :
        n \in DOMAIN CleanArgs(c) <=> passed[n] # ""
  BY <1>3 DEF GlobalFlags
<1>6. "config" \notin DOMAIN CleanArgs(c) /\ "threshold" \in DOMAIN CleanArgs(c)
  BY <1>3
<1> QED
  BY <1>1, <1>4, <1>5, <1>6

LEMMA ChildSettings ==
  ASSUME NEW f, NEW x, f = CleanArgs(x), DOMAIN x = Names
  PROVE  LET y == CleanSettings(f)
         IN /\ \A n \in {"store", "tardis", "uidmap", "gidmap"} : x[n] # "" => y[n] = x[n]
            /\ y.metron = x.metron /\ y.level = x.level /\ y.log = x.cleanLog
            /\ y.threshold = x.threshold /\ y.limit = 0
<1>a. PICK b : b = Before(f)
  OBVIOUS
<1>0. Value(f, "config") = ""
  BY ArgsAre, DefaultTexts DEF Value, IsSet
<1>b. PICK c : c = NewBuilder(Value(f, "config"))
  OBVIOUS
<1>1. /\ DOMAIN b = Names
      /\ \A n \in {"store", "tardis", "uidmap", "gidmap"} : b[n] = Defaulted(f, n, c[n])
      /\ b.metron = NonEmpty(f, "metron", c.metron) /\ b.log = NonEmpty(f, "log", c.log)
      /\ b.level = Overridden(f, "level", c.level) /\ b.limit = c.limit
  BY <1>a, <1>b, BeforeIs
<1>2. \A n \in {"store", "tardis", "uidmap", "gidmap"} : x[n] # "" => b[n] = x[n]
  <2> TAKE n \in {"store", "tardis", "uidmap", "gidmap"}
  <2>1. x[n] # "" => IsSet(f, n) /\ f[n] = x[n]
    BY ArgsAre DEF IsSet
  <2> QED
    BY <1>1, <2>1 DEF Defaulted, Value
<1>3. c.metron = "" /\ c.log = "" /\ c.level = ""
  BY <1>0, <1>b, EmptyFile, ZeroTexts DEF Names
<1>4. b.metron = x.metron
  <2>1. IF x.metron # "" THEN IsSet(f, "metron") /\ f["metron"] = x.metron ELSE ~IsSet(f, "metron")
    BY ArgsAre DEF IsSet
  <2> QED
    BY <1>1, <1>3, <2>1, DefaultTexts DEF NonEmpty, Value
<1>5. b.log = x.cleanLog
  <2>1. IF x.cleanLog # "" THEN IsSet(f, "log") /\ f["log"] = x.cleanLog ELSE ~IsSet(f, "log")
    BY ArgsAre DEF IsSet
  <2> QED
    BY <1>1, <1>3, <2>1, DefaultTexts DEF NonEmpty, Value
<1>6. b.level = x.level
  <2>1. (IsSet(f, "level") <=> x.level # "") /\ (IsSet(f, "level") => f["level"] = x.level)
    BY ArgsAre DEF IsSet
  <2>2. /\ IsSet(f, "level") => b.level = f["level"]
        /\ ~IsSet(f, "level") => b.level = c.level
    BY <1>1 DEF Overridden
  <2> QED
    BY <1>3, <2>1, <2>2, Zenon
<1>7. b.limit = 0
  <2>1. c.limit = ZeroConfig.limit
    BY <1>0, <1>b, EmptyFile DEF Names
  <2> QED
    BY <1>1, <2>1, ZeroNumbers
<1>8. CleanSettings(f) = [b EXCEPT !.threshold = x.threshold]
  <2>1. IsSet(f, "threshold") /\ f["threshold"] = x.threshold
    BY ArgsAre DEF IsSet
  <2> QED
    BY <1>a, <2>1 DEF CleanSettings, Overridden
<1> QED
  BY <1>1, <1>2, <1>4, <1>5, <1>6, <1>7, <1>8 DEF Names
LEMMA LevelDeclared ==
  ASSUME flags \in Flags, Accepted(flags)
  PROVE  TranslateLogLevel(Settings(flags).level) = TranslateLogLevel(Declared("level"))
<1>a. PICK c : c = NewBuilder(Value(flags, "config"))
  OBVIOUS
<1>0. Loads(Value(flags, "config"))
  BY DEF Accepted
<1>1. Settings(flags).level = IF IsSet(flags, "level") THEN flags["level"] ELSE c.level
  <2>1. Settings(flags).level = Overridden(flags, "level", c.level)
    BY <1>a, SettingsIs, BeforeIs
  <2> QED
    BY <2>1 DEF Overridden
<1>2. "level" \in Names /\ "level" \in DOMAIN FlagDefaults /\ ZeroConfig.level = "" /\ FlagDefaults.level = "fatal"
  BY DefaultsAre, DefaultTexts, ZeroTexts DEF Names, GlobalFlags
<1>3. /\ InFile("level") => c.level = FileValue("level")
      /\ ~InFile("level") => c.level = ""
  BY <1>0, <1>a, <1>2, FileIs
<1>4. Settings(flags).level = Declared("level") \/ (Settings(flags).level = "" /\ Declared("level") = "fatal")
  BY <1>1, <1>2, <1>3, DeclaredIs
<1> QED
  BY <1>4 DEF TranslateLogLevel

\* The clean works with what the create was declared to work with.
LEMMA ChildDeclared ==
  ASSUME flags \in Flags, Accepted(flags), NEW y, y = CleanSettings(CleanArgs(Settings(flags)))
  PROVE  /\ Build(y)
         /\ \A n \in {"store", "tardis", "uidmap", "gidmap", "metron", "threshold"} : y[n] = Declared(n)
         /\ TranslateLogLevel(y.level) = TranslateLogLevel(Declared("level"))
         /\ y.log = Declared("cleanLog")
<1>a. PICK x : x = Settings(flags)
  OBVIOUS
<1>1. DOMAIN x = Names /\ x.threshold \in Nat
  BY <1>a, SettingsIs, SettingsTypes
<1>2. /\ \A n \in {"store", "tardis", "uidmap", "gidmap"} : x[n] # "" => y[n] = x[n]
      /\ y.metron = x.metron /\ y.level = x.level /\ y.log = x.cleanLog
      /\ y.threshold = x.threshold /\ y.limit = 0
  BY <1>1, <1>a, ChildSettings
<1>3. \A n \in {"store", "tardis", "uidmap", "gidmap"} : x[n] # ""
  <2> TAKE n \in {"store", "tardis", "uidmap", "gidmap"}
  <2>a. PICK c : c = NewBuilder(Value(flags, "config"))
    OBVIOUS
  <2>1. x[n] = Defaulted(flags, n, c[n])
    BY <1>a, <2>a, SettingsIs, BeforeIs
  <2>2. FlagDefaults[n] # ""
    BY DefaultTexts
  <2>3. IsSet(flags, n) => flags[n] # ""
    BY ConfigAssumption, GivenTexts DEF IsSet
  <2> QED
    BY <2>1, <2>2, <2>3 DEF Defaulted, Value
<1>4. \A n \in {"store", "tardis", "uidmap", "gidmap", "metron", "threshold", "cleanLog"} : x[n] = Declared(n)
  BY <1>a, SettingsDeclared
<1>5. Build(y)
  <2>1. y.limit = 0 /\ y.threshold \in Nat
    BY <1>1, <1>2
  <2> QED
    BY <2>1 DEF Build
<1>6. TranslateLogLevel(y.level) = TranslateLogLevel(Declared("level"))
  BY <1>2, <1>a, LevelDeclared
<1>7. \A n \in {"store", "tardis", "uidmap", "gidmap"} : y[n] = Declared(n)
  BY <1>2, <1>3, <1>4
<1>8. y.metron = Declared("metron") /\ y.threshold = Declared("threshold") /\ y.log = Declared("cleanLog")
  BY <1>2, <1>4
<1> QED
  BY <1>5, <1>6, <1>7, <1>8
------------------------------------------------------------------------------
(* Steps *)

\* The command line and the image stay, and the settings once they are made.
LEMMA Fixed ==
  ASSUME Next
  PROVE  UNCHANGED <<flags, img>> /\ (LoadConfig \/ UNCHANGED cfg)
BY DEF Next, LoadConfig, LogFileFails, Manifest, CreateImageSource, CreateImageSourceRefused, GetImage,
   GetImageFails, V1DiffID, ConvertImage, ConfigBlob, RequestFails, Pull, PullDone, StreamBlob, Blob, GetBlob,
   GetBlobFails, GetBlobRefused, OpenBlob, CopyChunk, CopyEnds, CheckBlob, Unpack, UnpackFails, NewBlobReaderFails, Tar,
   TarBaseImageInfo, TarStreamBlob, TarFails, EditTar, ScheduleClean, ScheduleCleanFails, Close, Kill

LEMMA ContextFixed ==
  ASSUME UNCHANGED <<flags, img, cfg>>
  PROVE  SystemContext' = SystemContext /\ (Admits(SystemContext)' <=> Admits(SystemContext)) /\ (Serves' <=> Serves)
BY DEF SystemContext, Admits, Serves

\* A create that fails before Pull has no lock to give back.
LEMMA FailStep ==
  ASSUME NEW reason, Fail(reason)
  PROVE  why' = reason /\ pc' = IF pc \in Early THEN "close" ELSE "unlock"
BY DEF Fail, Early

LEMMA Bounds == MAX_DOCKER_RETRIES \in Nat /\ MAX_DOCKER_RETRIES > 0 /\ BufSize \in Nat /\ BufSize > 0
<1>1. MAX_DOCKER_RETRIES \in Nat \ {0} /\ BufSize \in Nat \ {0}
  BY FetcherAssumption, Zenon
<1> QED
  BY <1>1

LEMMA RetryStep ==
  ASSUME Types, PhaseInv, pc \notin Late, NEW reason, Retry(reason)
  PROVE  /\ fails' = fails + 1 /\ fails' \in Nat /\ attempt' = attempt + 1 /\ attempt' \in Nat
         /\ \/ attempt' < MAX_DOCKER_RETRIES /\ UNCHANGED <<pc, why>>
            \/ attempt' = MAX_DOCKER_RETRIES /\ Fail(reason)
<1>1. attempt < MAX_DOCKER_RETRIES /\ attempt \in Nat /\ fails \in Nat
  BY DEF Types, PhaseInv
<1>2. fails' = fails + 1 /\ attempt' = attempt + 1
  BY DEF Retry, CallFails
<1>3. attempt + 1 < MAX_DOCKER_RETRIES \/ attempt + 1 = MAX_DOCKER_RETRIES
  BY <1>1, Bounds
<1>4. attempt + 1 < MAX_DOCKER_RETRIES => UNCHANGED <<pc, why>>
  BY DEF Retry
<1>5. attempt + 1 = MAX_DOCKER_RETRIES => Fail(reason)
  <2>1. attempt + 1 = MAX_DOCKER_RETRIES => ~(attempt + 1 < MAX_DOCKER_RETRIES)
    BY <1>1, Bounds
  <2> QED
    BY <2>1, Zenon DEF Retry
<1> QED
  BY <1>1, <1>2, <1>3, <1>4, <1>5

\* What a request that is refused comes to.
LEMMA RefusedStep ==
  ASSUME Types, PhaseInv, CreateImageSourceRefused \/ GetBlobRefused
  PROVE  /\ pc \in {"image", "layer"}
         /\ UNCHANGED <<flags, child, kept, cfg, img, diffs, version, chain, source, quota, cur, tmp, volumes, fails>>
         /\ attempt' = attempt + 1 /\ attempt' \in Nat
         /\ \/ attempt' < MAX_DOCKER_RETRIES /\ UNCHANGED <<pc, why>>
            \/ attempt' = MAX_DOCKER_RETRIES /\ Fail("refused")
<1>0. /\ pc \in {"image", "layer"}
      /\ UNCHANGED <<flags, child, kept, cfg, img, diffs, version, chain, source, quota, cur, tmp, volumes, fails>>
      /\ attempt' = attempt + 1
      /\ IF attempt + 1 < MAX_DOCKER_RETRIES THEN UNCHANGED <<pc, why>> ELSE Fail("refused")
  BY DEF CreateImageSourceRefused, GetBlobRefused
<1>1. attempt < MAX_DOCKER_RETRIES /\ attempt \in Nat
  BY <1>0 DEF Types, PhaseInv, Late
<1>2. attempt + 1 < MAX_DOCKER_RETRIES \/ attempt + 1 = MAX_DOCKER_RETRIES
  BY <1>1, Bounds
<1>3. attempt + 1 < MAX_DOCKER_RETRIES => UNCHANGED <<pc, why>>
  BY <1>0
<1>4. attempt + 1 = MAX_DOCKER_RETRIES => Fail("refused")
  <2>1. attempt + 1 = MAX_DOCKER_RETRIES => ~(attempt + 1 < MAX_DOCKER_RETRIES)
    BY <1>1, Bounds
  <2> QED
    BY <1>0, <2>1, Zenon
<1> QED
  BY <1>0, <1>1, <1>2, <1>3, <1>4

\* What happens to a blob.
LEMMA OpenStep ==
  ASSUME OpenBlob
  PROVE  /\ pc = "opened"
         /\ UNCHANGED <<flags, child, kept, cfg, img, diffs, version, chain, attempt, source, quota, cur, volumes, fails>>
         /\ \/ pc' = "copy" /\ tmp' = tmp + 1 /\ UNCHANGED why
            \/ Fail("corrupt") /\ UNCHANGED tmp
BY Zenon DEF OpenBlob

LEMMA ChunkStep ==
  ASSUME CopyChunk
  PROVE  /\ pc = "copy"
         /\ UNCHANGED <<flags, child, kept, cfg, img, diffs, version, chain, attempt, source, quota, volumes, fails>>
         /\ \E n \in 1 .. BufSize :
              /\ n <= Opened - cur.copied
              /\ \/ /\ EnforceQuota /\ n > quota - cur.copied
                    /\ Fail("quota") /\ tmp' = tmp - 1 /\ UNCHANGED cur
                 \/ /\ ~(EnforceQuota /\ n > quota - cur.copied)
                    /\ cur' = [cur EXCEPT !.copied = cur.copied + n] /\ UNCHANGED <<pc, why, tmp>>
BY Zenon DEF CopyChunk, Opened, Exceeds

LEMMA EndStep ==
  ASSUME CopyEnds
  PROVE  /\ pc = "copy" /\ cur.copied = Opened
         /\ UNCHANGED <<flags, child, kept, cfg, img, diffs, version, chain, attempt, source, quota, volumes, fails>>
         /\ \/ pc' = "check" /\ UNCHANGED <<why, tmp, cur>>
            \/ Fail("corrupt") /\ tmp' = tmp - 1 /\ cur' = NoBlob
BY Zenon DEF CopyEnds, Opened

LEMMA CheckStep ==
  ASSUME CheckBlob
  PROVE  /\ pc = "check"
         /\ UNCHANGED <<flags, child, kept, cfg, img, diffs, version, chain, attempt, source, volumes, fails>>
         /\ \/ /\ CheckCheckSum(Unpacked(cur.content, Layer.media).blob, Layer.blob)
               /\ pc' = "reader" /\ quota' = quota - cur.copied /\ UNCHANGED <<why, tmp, cur>>
            \/ Fail("corrupt") /\ tmp' = tmp - 1 /\ cur' = NoBlob /\ UNCHANGED quota
BY Zenon DEF CheckBlob

------------------------------------------------------------------------------
(* The file of a blob and the source *)

LEMMA FileSteps ==
  ASSUME Inv, Next
  PROVE  FileInv'
<1>0. Types /\ PhaseInv /\ FileInv
  BY DEF Inv
<1>1. CASE LoadConfig \/ LogFileFails
  BY <1>0, <1>1, FailStep DEF LoadConfig, LogFileFails, FileInv, PhaseInv, Early, Late, WithFile
<1>2. CASE CreateImageSource \/ GetImage \/ ConvertImage \/ ConfigBlob
  BY <1>0, <1>2 DEF CreateImageSource, GetImage, ConvertImage, ConfigBlob, FileInv, PhaseInv, Late, WithFile
<1>3. CASE CreateImageSourceRefused \/ GetBlobRefused
  BY <1>0, <1>3, RefusedStep, FailStep DEF FileInv, PhaseInv, Early, Late, WithFile
<1>4. CASE GetImageFails \/ RequestFails \/ GetBlobFails
  <2>1. /\ pc \in {"image", "v1", "configblob", "layer"} /\ UNCHANGED <<tmp, source>>
        /\ \E reason : Retry(reason)
    BY <1>4 DEF GetImageFails, RequestFails, GetBlobFails
  <2> QED
    BY <1>0, <2>1, RetryStep, FailStep DEF FileInv, PhaseInv, Early, Late, WithFile
<1>5. CASE V1DiffID
  BY <1>0, <1>5, FailStep DEF V1DiffID, FileInv, PhaseInv, Early, Late, WithFile
<1>6. CASE Pull \/ PullDone \/ GetBlob
  BY <1>0, <1>6, FailStep DEF Pull, PullDone, GetBlob, FileInv, PhaseInv, Early, Late, WithFile
<1>7. CASE OpenBlob
  <2>1. tmp = 0
    BY <1>0, <1>7, OpenStep DEF FileInv, Late, WithFile
  <2> QED
    BY <1>0, <1>7, <2>1, OpenStep, FailStep DEF FileInv, Early, Late, WithFile
<1>8. CASE CopyChunk
  <2>1. tmp = 1
    BY <1>0, <1>8, ChunkStep DEF FileInv, Late, WithFile
  <2>2. pc = "copy" /\ UNCHANGED source /\ (UNCHANGED <<pc, why, tmp>> \/ (Fail("quota") /\ tmp' = tmp - 1))
    BY <1>8, ChunkStep
  <2> QED
    BY <1>0, <2>1, <2>2, FailStep DEF FileInv, Early, Late, WithFile
<1>9. CASE CopyEnds \/ CheckBlob
  <2>1. tmp = 1
    BY <1>0, <1>9, EndStep, CheckStep DEF FileInv, Late, WithFile
  <2>2. /\ pc \in {"copy", "check"} /\ UNCHANGED source
        /\ (pc' \in {"check", "reader"} /\ UNCHANGED <<why, tmp>>) \/ (Fail("corrupt") /\ tmp' = tmp - 1)
    BY <1>9, EndStep, CheckStep
  <2> QED
    BY <1>0, <2>1, <2>2, FailStep DEF FileInv, Early, Late, WithFile
<1>10. CASE Unpack \/ UnpackFails \/ NewBlobReaderFails
  <2>1. tmp = 1
    BY <1>0, <1>10 DEF Unpack, UnpackFails, NewBlobReaderFails, FileInv, Late, WithFile
  <2>2. /\ pc = "reader" /\ UNCHANGED source
        /\ \/ pc' = "layer" /\ UNCHANGED why /\ tmp' = tmp - 1
           \/ Fail("unpack") /\ tmp' = tmp - 1
           \/ Fail("reader") /\ UNCHANGED tmp
    BY <1>10 DEF Unpack, UnpackFails, NewBlobReaderFails
  <2> QED
    BY <1>0, <2>1, <2>2, FailStep DEF FileInv, Early, Late, WithFile
<1>11. CASE TarBaseImageInfo \/ TarStreamBlob \/ EditTar
  BY <1>0, <1>11 DEF TarBaseImageInfo, TarStreamBlob, EditTar, FileInv, PhaseInv, Late, WithFile
<1>12. CASE TarFails
  BY <1>0, <1>12, FailStep DEF TarFails, FileInv, PhaseInv, Early, Late, WithFile
<1>13. CASE ScheduleClean \/ ScheduleCleanFails \/ Close \/ Kill
  BY <1>0, <1>13 DEF ScheduleClean, ScheduleCleanFails, Close, Kill, FileInv, PhaseInv, Late, WithFile
<1> QED
  BY <1>1, <1>2, <1>3, <1>4, <1>5, <1>6, <1>7, <1>8, <1>9, <1>10, <1>11, <1>12, <1>13
     DEF Next, Manifest, StreamBlob, Blob, Tar
------------------------------------------------------------------------------
(* Control *)

LEMMA PullStep ==
  ASSUME Types, Pull
  PROVE  /\ pc = "pull"
         /\ UNCHANGED <<flags, child, cfg, img, diffs, version, chain, attempt, source, quota, cur, tmp, fails>>
         /\ \/ /\ SumSizes([k \in DOMAIN img.layers |-> img.layers[k].size]) > cfg.limit
               /\ Fail("quota") /\ kept' = Len(volumes) /\ UNCHANGED volumes
            \/ /\ pc' = "layer" /\ UNCHANGED why
               /\ \E m \in 0 .. Len(volumes) : kept' = m /\ volumes' = SubSeq(volumes, 1, m)
<1> DEFINE known == {n \in 0 .. Len(volumes) : \A k \in 1 .. n : volumes[k].diff = diffs[k]}
           sizes == [k \in DOMAIN img.layers |-> img.layers[k].size]
<1>1. Len(volumes) \in Nat
  BY Lengths DEF Types
<1>2. known \in SUBSET (0 .. Len(volumes)) /\ 0 \in known
  BY <1>1
<1>3. /\ pc = "pull"
      /\ UNCHANGED <<flags, child, cfg, img, diffs, version, chain, attempt, source, quota, cur, tmp, fails>>
      /\ \/ SumSizes(sizes) > cfg.limit /\ Fail("quota") /\ kept' = Len(volumes) /\ UNCHANGED volumes
         \/ /\ pc' = "layer" /\ UNCHANGED why
            /\ kept' = Max(known) /\ volumes' = SubSeq(volumes, 1, Max(known))
  BY Zenon DEF Pull
<1> HIDE DEF known, sizes
<1>4. Max(known) \in 0 .. Len(volumes)
  BY <1>1, <1>2, MaxIn
<1> QED
  BY <1>3, <1>4, Zenon DEF sizes

LEMMA GetStep ==
  ASSUME GetBlob, Types
  PROVE  /\ pc = "layer" /\ More
         /\ \E c \in Contents : \E r \in Int : cur' = [content |-> c, reported |-> r, copied |-> 0]
         /\ attempt' = 0 /\ pc' = "opened"
         /\ UNCHANGED <<flags, child, kept, cfg, img, diffs, version, chain, source, quota, tmp, volumes, why, fails>>
<1>0. /\ pc = "layer" /\ More /\ attempt' = 0 /\ pc' = "opened"
      /\ UNCHANGED <<flags, child, kept, cfg, img, diffs, version, chain, source, quota, tmp, volumes, why, fails>>
  BY DEF GetBlob
<1>1. PICK c \in Contents : \E r \in {c.csize, Layer.size, UNKNOWN_LAYER_SIZE} :
        cur' = [content |-> c, reported |-> r, copied |-> 0]
  BY DEF GetBlob
<1>2. c.csize \in Int
  <2>1. c.csize \in Nat
    BY FetcherAssumption, Zenon
  <2> QED
    BY <2>1
<1>3. Layer.size \in Int
  <2>1. Len(volumes) + 1 \in 1 .. Len(img.layers)
    <3>1. Len(volumes) \in Nat /\ Len(img.layers) \in Nat
      BY Lengths, LayersAre DEF Types
    <3>2. Len(volumes) < Len(img.layers)
      BY <1>0 DEF More
    <3> QED
      BY <3>1, <3>2
  <2> QED
    BY <2>1, LayersAre DEF Types, Layer
<1> QED
  BY <1>0, <1>1, <1>2, <1>3 DEF UNKNOWN_LAYER_SIZE

LEMMA UnpackStep ==
  ASSUME Types, Unpack
  PROVE  /\ IsSeq(volumes') /\ Len(volumes') = Len(volumes) + 1 /\ Len(volumes) \in Nat
         /\ volumes'[Len(volumes) + 1] = Unpacked(cur.content, Layer.media)
         /\ \A k \in 1 .. Len(volumes) : volumes'[k] = volumes[k]
<1>1. volumes' = Append(volumes, Unpacked(cur.content, Layer.media)) /\ IsSeq(volumes)
  BY DEF Unpack, Types
<1> QED
  BY <1>1, SeqGrows, Lengths

LEMMA TarStep ==
  ASSUME Types, TarStreamBlob
  PROVE  /\ IsSeq(volumes') /\ Len(volumes') = 1 /\ Len(volumes) = 0 /\ Len(img.layers) = 1
         /\ volumes'[1].diff = version /\ volumes'[1].usize \in Nat
<1>1. img.scheme = "" /\ volumes = <<>> /\ volumes' = <<[Genuine(Layer) EXCEPT !.diff = version]>>
  BY DEF TarStreamBlob
<1>2. Len(volumes) = 0 /\ Len(img.layers) = 1 /\ Layer = img.layers[1] /\ 1 \in DOMAIN img.layers
  <2>1. Len(volumes) = 0
    BY <1>1
  <2>2. Len(img.layers) = 1 /\ DOMAIN img.layers = 1 .. Len(img.layers)
    BY <1>1, LayersAre DEF Types
  <2>3. Layer = img.layers[1]
    BY <2>1 DEF Layer
  <2> QED
    BY <2>1, <2>2, <2>3
<1>a. PICK c, x : c = Genuine(Layer) /\ x = [c EXCEPT !.diff = version]
  OBVIOUS
<1>3. c \in Contents
  BY <1>2, <1>a, GenuineIs DEF Types
<1>4. DOMAIN c = {"blob", "diff", "csize", "usize", "form", "cut"} /\ c.usize \in Nat
  <2>1. DOMAIN c = DOMAIN NoContent /\ c.usize \in Nat
    BY <1>3, FetcherAssumption, Zenon
  <2> QED
    BY <2>1 DEF NoContent
<1>5. x.diff = version /\ x.usize \in Nat
  BY <1>4, <1>a
<1>6. volumes' = <<x>>
  BY <1>1, <1>a
<1>7. volumes' \in Seq({x}) /\ Len(volumes') = 1 /\ volumes'[1] = x
  BY <1>6
<1>8. IsSeq(volumes')
  BY <1>7 DEF IsSeq
<1> QED
  BY <1>2, <1>5, <1>7, <1>8

\* A create that fails, and one that stays where it is.
LEMMA PhaseFails ==
  ASSUME pc \in PC, PhaseInv, pc \notin Late, NEW reason, reason # "", Fail(reason), UNCHANGED <<child, img, volumes>>,
         kept' = kept \/ (pc \notin Early /\ kept' >= 0), pc = "pull" => kept' >= 0
  PROVE  PhaseInv'
<1>1. why' = reason /\ pc' = IF pc \in Early THEN "close" ELSE "unlock"
  BY FailStep
<1>2. pc \notin Early => kept' >= 0
  BY <1>1 DEF PhaseInv, PC, Early, Late, InBlob
<1> QED
  BY <1>1, <1>2 DEF PhaseInv, Early, Late, InBlob

LEMMA PhaseStays ==
  ASSUME PhaseInv, pc \notin Late, UNCHANGED <<pc, why, child, kept, img, volumes>>,
         attempt' < MAX_DOCKER_RETRIES, pc \in InBlob => cur'.content = cur.content
  PROVE  PhaseInv'
BY DEF PhaseInv, Early, Late, InBlob

LEMMA PhaseSteps ==
  ASSUME Inv, Next
  PROVE  PhaseInv'
<1>0. Types /\ pc \in PC /\ PhaseInv /\ UNCHANGED img
  BY Fixed DEF Inv, Types
<1>b. attempt \in Nat /\ MAX_DOCKER_RETRIES \in Nat /\ 0 < MAX_DOCKER_RETRIES /\ Len(volumes) \in Nat /\ Len(img.layers) \in Nat
      /\ kept \in Int /\ Len(volumes) =< Len(img.layers)
  BY <1>0, Bounds, Lengths, LayersAre DEF Types
<1>1. CASE LoadConfig \/ LogFileFails
  BY <1>0, <1>1, FailStep DEF LoadConfig, LogFileFails, PhaseInv, Early, Late, InBlob
<1>2. CASE CreateImageSource \/ GetImage \/ ConvertImage \/ ConfigBlob
  BY <1>0, <1>b, <1>2 DEF CreateImageSource, GetImage, ConvertImage, ConfigBlob, PhaseInv, Early, Late, InBlob
<1>3. CASE CreateImageSourceRefused \/ GetBlobRefused
  BY <1>0, <1>3, RefusedStep, PhaseFails, PhaseStays DEF Late
<1>4. CASE GetImageFails \/ RequestFails \/ GetBlobFails
  <2>1. /\ pc \in {"image", "v1", "configblob", "layer"} /\ UNCHANGED <<child, kept, cur, volumes>>
        /\ \E reason \in {"registry", "no such file"} : Retry(reason)
    BY <1>4 DEF GetImageFails, RequestFails, GetBlobFails
  <2> QED
    BY <1>0, <2>1, RetryStep, FailStep DEF PhaseInv, Early, Late, InBlob
<1>5. CASE V1DiffID
  <2>1. /\ pc = "v1" /\ UNCHANGED <<child, kept, cur, volumes>> /\ attempt' = 0
        /\ UNCHANGED <<pc, why>> \/ Fail("corrupt")
    BY <1>5 DEF V1DiffID
  <2> QED
    BY <1>0, <1>b, <2>1, PhaseFails, PhaseStays DEF Late
<1>6. CASE Pull
  <2>0. pc = "pull" /\ UNCHANGED <<child, attempt>>
    BY <1>0, <1>6, PullStep
  <2>1. CASE Fail("quota") /\ kept' = Len(volumes) /\ UNCHANGED volumes
    <3>1. kept' >= 0
      BY <1>b, <2>1
    <3> QED
      BY <1>0, <2>0, <2>1, <3>1, PhaseFails DEF Early, Late
  <2>2. CASE pc' = "layer" /\ UNCHANGED why /\ kept' >= 0
    BY <1>0, <2>0, <2>2 DEF PhaseInv, Early, Late, InBlob
  <2> QED
    BY <1>0, <1>b, <1>6, <2>1, <2>2, PullStep
<1>7. CASE PullDone
  BY <1>0, <1>7 DEF PullDone, PhaseInv, Early, Late, InBlob
<1>8. CASE GetBlob
  <2>1. cur'.content \in Contents
    BY <1>0, <1>8, GetStep
  <2> QED
    BY <1>0, <1>b, <1>8, <2>1, GetStep DEF More, PhaseInv, Early, Late, InBlob
<1>9. CASE OpenBlob
  <2>0. pc = "opened" /\ UNCHANGED <<child, kept, cur, volumes, attempt>>
    BY <1>9, OpenStep
  <2>1. CASE Fail("corrupt")
    BY <1>0, <2>0, <2>1, PhaseFails DEF Late
  <2>2. CASE pc' = "copy" /\ UNCHANGED why
    BY <1>0, <2>0, <2>2 DEF PhaseInv, Early, Late, InBlob
  <2> QED
    BY <1>9, <2>1, <2>2, OpenStep
<1>10. CASE CopyChunk
  <2>1. /\ pc = "copy" /\ UNCHANGED <<child, kept, volumes, attempt>>
        /\ UNCHANGED <<pc, why>> \/ (Fail("quota") /\ UNCHANGED cur)
    BY <1>10, ChunkStep
  <2>2. cur'.content = cur.content
    BY <1>0, <1>10, ChunkStep DEF Types, BlobType
  <2>3. CASE Fail("quota")
    BY <1>0, <2>1, <2>3, PhaseFails DEF Late
  <2>4. CASE UNCHANGED <<pc, why>>
    <3>1. attempt < MAX_DOCKER_RETRIES
      BY <1>0, <2>1 DEF PhaseInv, Late
    <3> QED
      BY <1>0, <2>1, <2>2, <2>4, <3>1, PhaseStays DEF Late
  <2> QED
    BY <2>1, <2>3, <2>4
<1>11. CASE CopyEnds \/ CheckBlob
  <2>1. /\ pc \in {"copy", "check"} /\ UNCHANGED <<child, kept, volumes, attempt>>
        /\ (pc' \in {"check", "reader"} /\ UNCHANGED <<why, cur>>) \/ Fail("corrupt")
    BY <1>11, EndStep, CheckStep
  <2>2. CASE Fail("corrupt")
    BY <1>0, <2>1, <2>2, PhaseFails DEF Late
  <2>3. CASE pc' \in {"check", "reader"} /\ UNCHANGED <<why, cur>>
    BY <1>0, <2>1, <2>3 DEF PhaseInv, Early, Late, InBlob
  <2> QED
    BY <2>1, <2>2, <2>3
<1>12. CASE Unpack
  BY <1>0, <1>12, UnpackStep DEF Unpack, PhaseInv, Early, Late, InBlob
<1>13. CASE UnpackFails \/ NewBlobReaderFails
  <2>1. /\ pc = "reader" /\ UNCHANGED <<child, kept, volumes>>
        /\ \E reason \in {"unpack", "reader"} : Fail(reason)
    BY <1>13 DEF UnpackFails, NewBlobReaderFails
  <2> QED
    BY <1>0, <2>1, PhaseFails DEF Late
<1>14. CASE TarBaseImageInfo \/ EditTar
  BY <1>0, <1>14 DEF TarBaseImageInfo, EditTar, PhaseInv, Early, Late, InBlob
<1>15. CASE TarStreamBlob
  BY <1>0, <1>15, TarStep DEF TarStreamBlob, PhaseInv, Early, Late, InBlob
<1>16. CASE TarFails
  BY <1>0, <1>16, FailStep DEF TarFails, PhaseInv, Early, Late, InBlob
<1>17. CASE ScheduleClean \/ ScheduleCleanFails \/ Close
  BY <1>0, <1>17 DEF ScheduleClean, ScheduleCleanFails, Close, PhaseInv, Early, Late, InBlob
<1>18. CASE Kill
  BY <1>0, <1>18 DEF Kill, PhaseInv, Early, Late, InBlob
<1> QED
  BY <1>1, <1>2, <1>3, <1>4, <1>5, <1>6, <1>7, <1>8, <1>9, <1>10, <1>11, <1>12, <1>13, <1>14, <1>15, <1>16,
     <1>17, <1>18 DEF Next, Manifest, StreamBlob, Blob, Tar
------------------------------------------------------------------------------
(* Types *)

ControlTypes ==
  /\ pc \in PC /\ why \in Reasons /\ source \in {"none", "open", "closed"}
  /\ attempt \in Nat /\ attempt =< MAX_DOCKER_RETRIES /\ fails \in Nat

DataTypes ==
  /\ IsSeq(diffs) /\ Len(diffs) =< Len(img.layers)
  /\ IsSeq(volumes) /\ Len(volumes) =< Len(img.layers)
  /\ \A k \in DOMAIN volumes : volumes[k].usize \in Nat
  /\ kept \in Int /\ kept >= -1 /\ kept =< Len(volumes)
  /\ version \in Nat /\ chain \in Nat /\ quota \in Int /\ cur \in BlobType

LEMMA FailTypes ==
  ASSUME NEW reason \in Reasons, Fail(reason)
  PROVE  pc' \in PC /\ why' \in Reasons
BY FailStep DEF PC, Late

LEMMA ControlSteps ==
  ASSUME Inv, Next
  PROVE  ControlTypes'
<1>0. Types /\ PhaseInv /\ ControlTypes
  BY DEF Inv, Types, ControlTypes
<1>a. MAX_DOCKER_RETRIES \in Nat /\ attempt \in Nat /\ fails \in Nat /\ (CallFails => fails' \in Nat)
  BY <1>0, Bounds DEF ControlTypes, CallFails
<1>1. CASE LoadConfig \/ LogFileFails
  BY <1>0, <1>a, <1>1, FailTypes DEF LoadConfig, LogFileFails, ControlTypes, PC, Reasons, Early
<1>2. CASE CreateImageSource \/ GetImage \/ ConvertImage \/ ConfigBlob
  BY <1>0, <1>a, <1>2 DEF CreateImageSource, GetImage, ConvertImage, ConfigBlob, ControlTypes, PC, Early
<1>3. CASE CreateImageSourceRefused \/ GetBlobRefused
  <2>1. "refused" \in Reasons
    BY DEF Reasons
  <2>2. UNCHANGED <<source, fails>>
    BY <1>0, <1>3, RefusedStep
  <2>3. attempt' \in Nat /\ (attempt' < MAX_DOCKER_RETRIES \/ attempt' = MAX_DOCKER_RETRIES)
    BY <1>0, <1>3, RefusedStep
  <2>4. attempt' =< MAX_DOCKER_RETRIES
    BY <1>a, <2>3
  <2> QED
    BY <1>0, <1>3, <2>1, <2>2, <2>3, <2>4, RefusedStep, FailTypes DEF ControlTypes
<1>4. CASE GetImageFails \/ RequestFails \/ GetBlobFails
  <2>1. pc \notin Late /\ UNCHANGED source /\ \E reason \in {"registry", "no such file"} : Retry(reason)
    BY <1>4 DEF GetImageFails, RequestFails, GetBlobFails, Late
  <2>2. PICK reason \in {"registry", "no such file"} : Retry(reason)
    BY <2>1
  <2>3. /\ fails' \in Nat /\ attempt' \in Nat
        /\ \/ attempt' < MAX_DOCKER_RETRIES /\ UNCHANGED <<pc, why>>
           \/ attempt' = MAX_DOCKER_RETRIES /\ Fail(reason)
    BY <1>0, <2>1, <2>2, RetryStep
  <2>4. attempt' =< MAX_DOCKER_RETRIES
    <3>1. PICK a \in Nat : a = attempt'
      BY <2>3
    <3>2. a < MAX_DOCKER_RETRIES \/ a = MAX_DOCKER_RETRIES
      BY <2>3, <3>1, Zenon
    <3>3. a =< MAX_DOCKER_RETRIES
      BY <3>2, Bounds, AtMost, Zenon
    <3> QED
      BY <3>1, <3>3
  <2>5. reason \in Reasons
    BY DEF Reasons
  <2> QED
    BY <1>0, <2>1, <2>3, <2>4, <2>5, FailTypes DEF ControlTypes
<1>5. CASE V1DiffID
  <2>1. UNCHANGED <<source, fails>> /\ attempt' = 0 /\ (UNCHANGED <<pc, why>> \/ Fail("corrupt"))
    BY <1>5 DEF V1DiffID
  <2>2. attempt' \in Nat /\ attempt' =< MAX_DOCKER_RETRIES
    BY <1>a, <2>1
  <2>3. pc' \in PC /\ why' \in Reasons
    BY <1>0, <2>1, FailTypes DEF ControlTypes, Reasons
  <2> QED
    BY <1>0, <2>1, <2>2, <2>3 DEF ControlTypes
<1>6. CASE Pull
  <2>1. UNCHANGED <<source, fails, attempt>> /\ ((pc' = "layer" /\ UNCHANGED why) \/ Fail("quota"))
    BY <1>0, <1>6, PullStep
  <2> QED
    BY <1>0, <2>1, FailTypes DEF ControlTypes, Reasons, PC
<1>7. CASE PullDone \/ GetBlob
  BY <1>0, <1>a, <1>7 DEF PullDone, GetBlob, ControlTypes, PC, InBlob, Late
<1>8. CASE OpenBlob \/ CopyChunk \/ CopyEnds \/ CheckBlob
  <2>1. /\ UNCHANGED <<source, fails, attempt>>
        /\ \/ pc' \in {pc, "copy", "check", "reader"} /\ UNCHANGED why
           \/ Fail("quota") \/ Fail("corrupt")
    BY <1>8, OpenStep, ChunkStep, EndStep, CheckStep
  <2> QED
    BY <1>0, <2>1, FailTypes DEF ControlTypes, Reasons, PC, InBlob
<1>9. CASE Unpack \/ UnpackFails \/ NewBlobReaderFails
  <2>1. /\ UNCHANGED <<source, attempt>> /\ fails' \in Nat
        /\ (pc' = "layer" /\ UNCHANGED why) \/ Fail("unpack") \/ Fail("reader")
    BY <1>a, <1>9 DEF Unpack, UnpackFails, NewBlobReaderFails
  <2> QED
    BY <1>0, <2>1, FailTypes DEF ControlTypes, Reasons, PC
<1>10. CASE TarBaseImageInfo \/ TarStreamBlob \/ EditTar
  BY <1>0, <1>10 DEF TarBaseImageInfo, TarStreamBlob, EditTar, ControlTypes, PC
<1>11. CASE TarFails
  <2>1. UNCHANGED <<source, attempt>> /\ fails' \in Nat /\ (Fail("tar") \/ Fail("directory"))
    BY <1>a, <1>11 DEF TarFails
  <2> QED
    BY <1>0, <2>1, FailTypes DEF ControlTypes, Reasons
<1>12. CASE ScheduleClean \/ ScheduleCleanFails \/ Close \/ Kill
  BY <1>0, <1>a, <1>12 DEF ScheduleClean, ScheduleCleanFails, Close, Kill, ControlTypes, PC, Late, Reasons
<1> QED
  BY <1>1, <1>2, <1>3, <1>4, <1>5, <1>6, <1>7, <1>8, <1>9, <1>10, <1>11, <1>12
     DEF Next, Manifest, StreamBlob, Blob, Tar

LEMMA TmpSteps ==
  ASSUME Inv, Next
  PROVE  tmp' \in 0 .. 1
<1>0. Types /\ FileInv /\ tmp \in 0 .. 1
  BY DEF Inv, Types
<1>1. CASE OpenBlob
  BY <1>0, <1>1, OpenStep DEF FileInv, Late, WithFile
<1>2. CASE CopyChunk \/ CopyEnds \/ CheckBlob
  <2>1. pc \in {"copy", "check"} /\ tmp' \in {tmp, tmp - 1}
    BY <1>2, ChunkStep, EndStep, CheckStep
  <2> QED
    BY <1>0, <2>1 DEF FileInv, Late, WithFile
<1>3. CASE Unpack \/ UnpackFails
  <2>1. pc = "reader" /\ tmp' = tmp - 1
    BY <1>3 DEF Unpack, UnpackFails
  <2> QED
    BY <1>0, <2>1 DEF FileInv, Late, WithFile
<1>4. ASSUME ~(OpenBlob \/ CopyChunk \/ CopyEnds \/ CheckBlob \/ Unpack \/ UnpackFails)
      PROVE  tmp' = tmp
  BY <1>4 DEF Next, LoadConfig, LogFileFails, Manifest, CreateImageSource, CreateImageSourceRefused, GetImage,
     GetImageFails, V1DiffID, ConvertImage, ConfigBlob, RequestFails, Pull, PullDone, StreamBlob, Blob, GetBlob,
     GetBlobFails, GetBlobRefused, NewBlobReaderFails, Tar, TarBaseImageInfo, TarStreamBlob, TarFails, EditTar, ScheduleClean,
     ScheduleCleanFails, Close, Kill
<1> QED
  BY <1>0, <1>1, <1>2, <1>3, <1>4
LEMMA NoBlobType == NoBlob \in BlobType
BY DEF NoBlob, BlobType

LEMMA DataSteps ==
  ASSUME Inv, Next
  PROVE  DataTypes'
<1>0. Types /\ PhaseInv /\ DataTypes /\ UNCHANGED img /\ img \in Images
  BY Fixed DEF Inv, Types, DataTypes
<1>a. Len(volumes) \in Nat /\ Len(diffs) \in Nat /\ Len(img.layers) \in Nat /\ DOMAIN volumes = 1 .. Len(volumes)
  BY <1>0, Lengths, LayersAre DEF DataTypes
<1>1. CASE LoadConfig
  <2>1. UNCHANGED <<diffs, version, chain, cur, volumes, kept>>
    BY <1>1 DEF LoadConfig
  <2>2. quota' \in Int
    <3>1. CASE Accepted(flags)
      <4>1. cfg' = Settings(flags) /\ quota' = cfg'.limit
        BY <1>1, <3>1 DEF LoadConfig
      <4>2. Settings(flags).limit \in Nat
        BY <1>0, <3>1, SettingsTypes DEF Types
      <4> QED
        BY <4>1, <4>2
    <3>2. CASE ~Accepted(flags)
      BY <1>0, <1>1, <3>2 DEF LoadConfig, DataTypes
    <3> QED
      BY <3>1, <3>2
  <2> QED
    BY <1>0, <2>1, <2>2 DEF DataTypes
<1>2. CASE \/ LogFileFails \/ CreateImageSource \/ CreateImageSourceRefused \/ GetImage \/ GetImageFails
           \/ ConvertImage \/ RequestFails \/ PullDone \/ GetBlobFails \/ GetBlobRefused \/ OpenBlob \/ TarFails
           \/ ScheduleClean \/ ScheduleCleanFails \/ Close \/ Kill
  <2>1. UNCHANGED <<diffs, version, chain, cur, volumes, kept, quota>>
    BY <1>2, OpenStep DEF LogFileFails, CreateImageSource, CreateImageSourceRefused, GetImage, GetImageFails,
       ConvertImage, RequestFails, PullDone, GetBlobFails, GetBlobRefused, TarFails, ScheduleClean,
       ScheduleCleanFails, Close, Kill
  <2> QED
    BY <1>0, <2>1 DEF DataTypes
<1>3. CASE V1DiffID
  <2>0. UNCHANGED <<version, chain, cur, volumes, kept, quota>> /\ Len(diffs) < Len(img.layers)
        /\ (UNCHANGED diffs \/ \E x : diffs' = Append(diffs, x))
    BY <1>3 DEF V1DiffID
  <2>1. ASSUME NEW x, diffs' = Append(diffs, x) PROVE IsSeq(diffs') /\ Len(diffs') = Len(diffs) + 1
    BY <1>0, <2>1, SeqGrows DEF DataTypes
  <2>2. IsSeq(diffs') /\ (Len(diffs') = Len(diffs) \/ Len(diffs') = Len(diffs) + 1)
    BY <1>0, <2>0, <2>1 DEF DataTypes
  <2>3. Len(diffs') =< Len(img.layers)
    BY <1>a, <2>0, <2>2
  <2> QED
    BY <1>0, <2>0, <2>2, <2>3 DEF DataTypes
<1>4. CASE ConfigBlob
  <2>0. UNCHANGED <<version, chain, cur, volumes, kept, quota>>
        /\ (UNCHANGED diffs \/ diffs' = [k \in DOMAIN img.layers |-> img.layers[k].diff])
    BY <1>4 DEF ConfigBlob
  <2>1. ASSUME diffs' = [k \in DOMAIN img.layers |-> img.layers[k].diff]
        PROVE  IsSeq(diffs') /\ Len(diffs') = Len(img.layers)
    <3>1. DOMAIN img.layers = 1 .. Len(img.layers)
      BY <1>0, LayersAre
    <3>2. diffs' = [k \in 1 .. Len(img.layers) |-> diffs'[k]]
      BY <2>1, <3>1
    <3> QED
      BY <1>a, <3>2, SeqMade
  <2>2. IsSeq(diffs') /\ Len(diffs') =< Len(img.layers)
    BY <1>0, <1>a, <2>0, <2>1 DEF DataTypes
  <2> QED
    BY <1>0, <2>0, <2>2 DEF DataTypes
<1>5. CASE Pull
  <2>0. UNCHANGED <<diffs, version, chain, quota, cur>>
    BY <1>0, <1>5, PullStep
  <2>1. CASE kept' = Len(volumes) /\ UNCHANGED volumes
    <3>1. kept' \in Int /\ kept' >= -1 /\ kept' =< Len(volumes')
      BY <1>a, <2>1
    <3> QED
      BY <1>0, <2>0, <2>1, <3>1 DEF DataTypes
  <2>2. ASSUME NEW m \in 0 .. Len(volumes), kept' = m, volumes' = SubSeq(volumes, 1, m)
        PROVE  DataTypes'
    <3>1. IsSeq(volumes') /\ Len(volumes') = m /\ \A k \in 1 .. m : volumes'[k] = volumes[k]
      BY <1>0, <2>2, SeqPrefix DEF DataTypes
    <3>2. DOMAIN volumes' = 1 .. m /\ \A k \in 1 .. m : k \in DOMAIN volumes
      BY <1>a, <3>1, Lengths
    <3>3. \A k \in DOMAIN volumes' : volumes'[k].usize \in Nat
      BY <1>0, <3>1, <3>2 DEF DataTypes
    <3>4. /\ kept' \in Int /\ kept' >= -1 /\ kept' =< Len(volumes')
      BY <1>a, <2>2, <3>1
    <3>5. Len(volumes') =< Len(img.layers)
      <4>1. Len(volumes) =< Len(img.layers)
        BY <1>0 DEF DataTypes
      <4> QED
        BY <1>a, <3>1, <4>1
    <3> QED
      BY <1>0, <2>0, <3>1, <3>3, <3>4, <3>5 DEF DataTypes
  <2> QED
    BY <1>0, <1>5, <2>1, <2>2, PullStep
<1>6. CASE GetBlob
  <2>1. cur' \in BlobType
    BY <1>0, <1>6, GetStep DEF BlobType
  <2>2. UNCHANGED <<diffs, version, chain, volumes, kept, quota>>
    BY <1>6 DEF GetBlob
  <2> QED
    BY <1>0, <2>1, <2>2 DEF DataTypes
<1>7. CASE CopyChunk
  <2>0. UNCHANGED <<diffs, version, chain, volumes, kept, quota>>
        /\ (UNCHANGED cur \/ \E n \in 1 .. BufSize : cur' = [cur EXCEPT !.copied = cur.copied + n])
    BY <1>7, ChunkStep
  <2>1. cur' \in BlobType
    BY <1>0, <2>0 DEF DataTypes, BlobType
  <2> QED
    BY <1>0, <2>0, <2>1 DEF DataTypes
<1>8. CASE CopyEnds \/ CheckBlob
  <2>0. UNCHANGED <<diffs, version, chain, volumes, kept>> /\ (UNCHANGED cur \/ cur' = NoBlob)
        /\ (UNCHANGED quota \/ quota' = quota - cur.copied)
    BY <1>8, EndStep, CheckStep
  <2>1. cur' \in BlobType
    BY <1>0, <2>0, NoBlobType DEF DataTypes
  <2>2. quota' \in Int
    BY <1>0, <2>0 DEF DataTypes, BlobType
  <2> QED
    BY <1>0, <2>0, <2>1, <2>2 DEF DataTypes
<1>9. CASE Unpack
  <2>0. UNCHANGED <<diffs, version, chain, kept, quota>> /\ cur' = NoBlob /\ pc = "reader"
    BY <1>9 DEF Unpack
  <2>1. /\ IsSeq(volumes') /\ Len(volumes') = Len(volumes) + 1
        /\ volumes'[Len(volumes) + 1] = Unpacked(cur.content, Layer.media)
        /\ \A k \in 1 .. Len(volumes) : volumes'[k] = volumes[k]
    BY <1>0, <1>9, UnpackStep
  <2>2. Len(volumes) < Len(img.layers) /\ cur.content \in Contents
    BY <1>0, <2>0 DEF PhaseInv, InBlob
  <2>3. volumes'[Len(volumes) + 1].usize \in Nat
    BY <2>1, <2>2, UnpackedSize
  <2>4. DOMAIN volumes' = 1 .. Len(volumes) + 1
    BY <2>1, Lengths
  <2>5. \A k \in DOMAIN volumes' : k = Len(volumes) + 1 \/ k \in DOMAIN volumes
    BY <1>a, <2>4
  <2>6. \A k \in DOMAIN volumes' : volumes'[k].usize \in Nat
    BY <1>0, <1>a, <2>1, <2>3, <2>5 DEF DataTypes
  <2>7. Len(volumes') =< Len(img.layers) /\ kept =< Len(volumes')
    <3>1. kept \in Int /\ kept =< Len(volumes)
      BY <1>0 DEF DataTypes
    <3> QED
      BY <1>a, <2>1, <2>2, <3>1
  <2> QED
    BY <1>0, <2>0, <2>1, <2>6, <2>7, NoBlobType DEF DataTypes
<1>10. CASE UnpackFails \/ NewBlobReaderFails
  <2>1. UNCHANGED <<diffs, version, chain, volumes, kept, quota>> /\ cur' = NoBlob
    BY <1>10 DEF UnpackFails, NewBlobReaderFails
  <2> QED
    BY <1>0, <2>1, NoBlobType DEF DataTypes
<1>11. CASE TarStreamBlob
  <2>0. UNCHANGED <<diffs, version, chain, kept, quota, cur>>
    BY <1>11 DEF TarStreamBlob
  <2>1. /\ IsSeq(volumes') /\ Len(volumes') = 1 /\ Len(volumes) = 0 /\ Len(img.layers) = 1
        /\ volumes'[1].usize \in Nat
    BY <1>0, <1>11, TarStep
  <2>2. DOMAIN volumes' = 1 .. 1
    BY <2>1, Lengths
  <2>3. kept =< Len(volumes') /\ Len(volumes') =< Len(img.layers)
    <3>1. kept \in Int /\ kept =< Len(volumes)
      BY <1>0 DEF DataTypes
    <3> QED
      BY <2>1, <3>1
  <2> QED
    BY <1>0, <2>0, <2>1, <2>2, <2>3 DEF DataTypes
<1>12. CASE TarBaseImageInfo
  <2>0. UNCHANGED <<version, kept, quota, cur, volumes>> /\ chain' = version /\ diffs' = <<version>>
        /\ img.scheme = ""
    BY <1>0, <1>12 DEF TarBaseImageInfo, PhaseInv
  <2>3. IsSeq(diffs') /\ Len(diffs') = 1
    BY <2>0, SeqOne, Zenon
  <2>4. Len(img.layers) = 1
    BY <1>0, <2>0, LayersAre
  <2>2. Len(diffs') =< Len(img.layers)
    BY <2>3, <2>4
  <2> QED
    BY <1>0, <2>0, <2>2, <2>3 DEF DataTypes
<1>13. CASE EditTar
  <2>1. UNCHANGED <<diffs, chain, kept, quota, cur, volumes>> /\ version' = version + 1
    BY <1>13 DEF EditTar
  <2>2. version' \in Nat
    BY <1>0, <2>1 DEF DataTypes
  <2> QED
    BY <1>0, <2>1, <2>2 DEF DataTypes
<1> QED
  BY <1>1, <1>2, <1>3, <1>4, <1>5, <1>6, <1>7, <1>8, <1>9, <1>10, <1>11, <1>12, <1>13
     DEF Next, Manifest, StreamBlob, Blob, Tar

LEMMA TypeSteps ==
  ASSUME Inv, Next
  PROVE  Types'
<1>1. ControlTypes' /\ DataTypes' /\ tmp' \in 0 .. 1 /\ UNCHANGED <<flags, img>>
  BY ControlSteps, DataSteps, TmpSteps, Fixed
<1>2. flags \in Flags /\ img \in Images
  BY DEF Inv, Types
<1> QED
  BY <1>1, <1>2 DEF Types, ControlTypes, DataTypes
------------------------------------------------------------------------------
(* The settings and the clean *)

\* Where a step leads: nothing leaves "config" but LoadConfig, for the create
\* or for its end, nothing returns from the end, and only Pull counts volumes.
LEMMA Flow ==
  ASSUME Types, Next, ~LoadConfig
  PROVE  /\ pc' = "config" => pc = "config"
         /\ pc' \notin Late => pc \notin Late
         /\ pc = "config" => pc' \in Late \cup {"config"}
         /\ kept' = kept \/ pc = "pull"
         /\ source' = source \/ source' = "closed" \/ CreateImageSource
         /\ pc' \in {"v1", "configblob", "pull"} =>
              pc \in {"v1", "configblob", "pull"} \/ source = "open" \/ pc = "tarinfo"
<1>f. ASSUME NEW reason, Fail(reason) PROVE pc' \in {"close", "unlock"}
  BY <1>f, FailStep
<1>1. CASE LogFileFails
  BY <1>1, <1>f DEF LogFileFails, Late
<1>2. CASE CreateImageSource \/ GetImage \/ ConvertImage \/ ConfigBlob
  BY <1>2 DEF CreateImageSource, GetImage, ConvertImage, ConfigBlob, Late
<1>3. CASE CreateImageSourceRefused \/ GetImageFails \/ RequestFails \/ GetBlobFails \/ GetBlobRefused
  <2>1. /\ pc \in {"image", "v1", "configblob", "layer"} /\ UNCHANGED <<kept, source>>
        /\ UNCHANGED pc \/ \E reason : Fail(reason)
    BY <1>3 DEF CreateImageSourceRefused, GetImageFails, RequestFails, GetBlobFails, GetBlobRefused, Retry
  <2> QED
    BY <2>1, <1>f DEF Late
<1>4. CASE V1DiffID
  <2>1. pc = "v1" /\ UNCHANGED <<kept, source>> /\ (UNCHANGED pc \/ Fail("corrupt"))
    BY <1>4 DEF V1DiffID
  <2> QED
    BY <2>1, <1>f DEF Late
<1>5. CASE Pull
  <2>1. pc = "pull" /\ UNCHANGED source /\ (pc' = "layer" \/ Fail("quota"))
    BY <1>5, PullStep
  <2> QED
    BY <2>1, <1>f DEF Late
<1>6. CASE OpenBlob \/ CopyChunk \/ CopyEnds \/ CheckBlob
  <2>1. /\ pc \in InBlob /\ UNCHANGED <<kept, source>>
        /\ pc' \in InBlob \/ Fail("quota") \/ Fail("corrupt")
    BY <1>6, OpenStep, ChunkStep, EndStep, CheckStep DEF InBlob
  <2> QED
    BY <2>1, <1>f DEF Late, InBlob
<1>7. CASE PullDone \/ GetBlob \/ Unpack
  BY <1>7 DEF PullDone, GetBlob, Unpack, Late
<1>8. CASE UnpackFails \/ NewBlobReaderFails \/ TarFails
  <2>1. pc \in {"reader", "tarinfo", "layer"} /\ UNCHANGED <<kept, source>> /\ \E reason : Fail(reason)
    BY <1>8 DEF UnpackFails, NewBlobReaderFails, TarFails
  <2> QED
    BY <2>1, <1>f DEF Late
<1>9. CASE TarBaseImageInfo \/ TarStreamBlob \/ EditTar
  BY <1>9 DEF TarBaseImageInfo, TarStreamBlob, EditTar, Late
<1>10. CASE ScheduleClean \/ ScheduleCleanFails \/ Close \/ Kill
  BY <1>10 DEF ScheduleClean, ScheduleCleanFails, Close, Kill, Late
<1> QED
  BY <1>1, <1>2, <1>3, <1>4, <1>5, <1>6, <1>7, <1>8, <1>9, <1>10 DEF Next, Manifest, StreamBlob, Blob, Tar

LEMMA ConfigSteps ==
  ASSUME Inv, Next
  PROVE  ConfigInv'
<1>0. Types /\ ConfigInv /\ PhaseInv /\ UNCHANGED <<flags, img>> /\ (LoadConfig \/ UNCHANGED cfg)
  BY Fixed DEF Inv
<1>1. CASE LoadConfig
  <2>0. pc = "config" /\ UNCHANGED kept /\ kept = -1 /\ cfg = ZeroConfig
    BY <1>0, <1>1 DEF LoadConfig, ConfigInv, PhaseInv, Early
  <2>1. CASE Accepted(flags)
    BY <1>0, <1>1, <2>1 DEF LoadConfig, ConfigInv
  <2>2. CASE ~Accepted(flags)
    <3>1. UNCHANGED cfg /\ pc' = "close"
      BY <1>1, <2>0, <2>2, FailStep DEF LoadConfig, Early
    <3>2. ~(kept' >= 0)
      BY <2>0
    <3> QED
      BY <2>0, <3>1, <3>2 DEF ConfigInv, Late
  <2> QED
    BY <2>1, <2>2
<1>2. CASE ~LoadConfig
  <2>1. UNCHANGED cfg
    BY <1>0, <1>2
  <2>2. pc' \notin Late \cup {"config"} \/ kept' >= 0 => pc \notin Late \cup {"config"} \/ kept >= 0
    <3>1. pc = "pull" => pc \notin Late \cup {"config"}
      BY DEF Late
    <3> QED
      BY <1>0, <1>2, <3>1, Flow, Zenon
  <2>3. pc' = "config" => pc = "config"
    BY <1>0, <1>2, Flow
  <2> QED
    BY <1>0, <2>1, <2>2, <2>3 DEF ConfigInv
<1> QED
  BY <1>1, <1>2

\* How a create gets to its end, before its deferred calls.
LEMMA Ending ==
  ASSUME Types, PhaseInv, Next, ~(ScheduleClean \/ ScheduleCleanFails \/ Close \/ Kill \/ EditTar)
  PROVE  /\ pc \notin Late /\ UNCHANGED child
         /\ \/ pc' \notin Late /\ UNCHANGED why
            \/ pc' = "unlock" /\ why' \notin {"clean", "killed"}
            \/ pc' = "close" /\ pc \in Early /\ UNCHANGED kept /\ why' \notin {"clean", "killed"}
<1> DEFINE Ends == \/ pc' \notin Late /\ UNCHANGED why
                   \/ pc' = "unlock" /\ why' \notin {"clean", "killed"}
                   \/ pc' = "close" /\ pc \in Early /\ UNCHANGED kept /\ why' \notin {"clean", "killed"}
           Good == pc \notin Late /\ UNCHANGED child /\ Ends
<1>f. ASSUME NEW reason \in Reasons \ {"clean", "killed"}, Fail(reason), UNCHANGED kept \/ pc = "pull" PROVE Ends
  <2>1. why' = reason /\ pc' = IF pc \in Early THEN "close" ELSE "unlock"
    BY <1>f, FailStep
  <2>2. pc \in Early => UNCHANGED kept
    BY <1>f DEF Early
  <2> QED
    BY <2>1, <2>2
<1>s. UNCHANGED <<pc, why>> /\ pc \notin Late => Ends
  OBVIOUS
<1>e. pc \notin Late => why = ""
  BY DEF PhaseInv
<1>0. SUFFICES Good
  OBVIOUS
<1> HIDE DEF Ends
<1>1. CASE LoadConfig
  <2>1. pc = "config" /\ UNCHANGED <<child, kept>>
        /\ (Fail("config") \/ (pc' \in {"tarinfo", "image"} /\ UNCHANGED why))
    BY <1>1 DEF LoadConfig
  <2>2. pc' \in {"tarinfo", "image"} /\ UNCHANGED why => Ends
    BY DEF Ends, Late
  <2> QED
    BY <1>f, <2>1, <2>2 DEF Late, Reasons
<1>2. CASE LogFileFails
  <2>1. pc = "config" /\ UNCHANGED <<child, kept>> /\ Fail("config")
    BY <1>2 DEF LogFileFails
  <2> QED
    BY <1>f, <2>1 DEF Late, Reasons
<1>3. CASE CreateImageSource \/ GetImage \/ ConvertImage \/ ConfigBlob
  BY <1>3 DEF CreateImageSource, GetImage, ConvertImage, ConfigBlob, Late, Ends
<1>4. CASE CreateImageSourceRefused \/ GetBlobRefused
  <2>1. "refused" \in Reasons \ {"clean", "killed"}
    BY DEF Reasons
  <2>2. pc \in {"image", "layer"} /\ UNCHANGED <<child, kept>> /\ (UNCHANGED <<pc, why>> \/ Fail("refused"))
    BY <1>4 DEF CreateImageSourceRefused, GetBlobRefused
  <2> QED
    BY <1>f, <1>s, <2>1, <2>2 DEF Late
<1>5. CASE GetImageFails \/ RequestFails \/ GetBlobFails
  <2>1. pc \in {"image", "v1", "configblob", "layer"} /\ UNCHANGED <<child, kept>>
        /\ \E reason \in {"registry", "no such file"} : Retry(reason)
    BY <1>5 DEF GetImageFails, RequestFails, GetBlobFails
  <2>2. UNCHANGED <<pc, why>> \/ \E reason \in Reasons \ {"clean", "killed"} : Fail(reason)
    BY <2>1 DEF Retry, Reasons
  <2> QED
    BY <1>f, <1>s, <2>1, <2>2 DEF Late
<1>6. CASE V1DiffID
  <2>1. pc = "v1" /\ UNCHANGED <<child, kept>> /\ (UNCHANGED <<pc, why>> \/ Fail("corrupt"))
    BY <1>6 DEF V1DiffID
  <2> QED
    BY <1>f, <1>s, <2>1 DEF Late, Reasons
<1>7. CASE Pull
  <2>1. pc = "pull" /\ UNCHANGED child /\ ((pc' = "layer" /\ UNCHANGED why) \/ Fail("quota"))
    BY <1>7, PullStep
  <2>2. pc' = "layer" /\ UNCHANGED why => Ends
    BY DEF Ends, Late
  <2> QED
    BY <1>f, <2>1, <2>2 DEF Late, Reasons
<1>8. CASE PullDone \/ GetBlob \/ Unpack \/ TarBaseImageInfo \/ TarStreamBlob
  BY <1>8, <1>e DEF PullDone, GetBlob, Unpack, TarBaseImageInfo, TarStreamBlob, Late, Ends
<1>9. CASE OpenBlob \/ CopyChunk \/ CopyEnds \/ CheckBlob
  <2>1. /\ pc \in InBlob /\ UNCHANGED <<child, kept>>
        /\ (pc' \in InBlob /\ UNCHANGED why) \/ Fail("quota") \/ Fail("corrupt")
    BY <1>9, OpenStep, ChunkStep, EndStep, CheckStep DEF InBlob
  <2>2. pc' \in InBlob /\ UNCHANGED why => Ends
    BY DEF Ends, Late, InBlob
  <2>3. pc \notin Late
    BY <2>1 DEF Late, InBlob
  <2> QED
    BY <1>f, <2>1, <2>2, <2>3 DEF Reasons
<1>10. CASE UnpackFails \/ NewBlobReaderFails \/ TarFails
  <2>1. /\ pc \in {"reader", "tarinfo", "layer"} /\ UNCHANGED <<child, kept>>
        /\ \E reason \in {"unpack", "reader", "tar", "directory"} : Fail(reason)
    BY <1>10 DEF UnpackFails, NewBlobReaderFails, TarFails
  <2> QED
    BY <1>f, <2>1 DEF Late, Reasons
<1> QED
  BY <1>1, <1>2, <1>3, <1>4, <1>5, <1>6, <1>7, <1>8, <1>9, <1>10 DEF Next, Manifest, StreamBlob, Blob, Tar

LEMMA ChildSteps ==
  ASSUME Inv, Next
  PROVE  ChildInv'
<1>0. Types /\ ChildInv /\ PhaseInv /\ UNCHANGED <<flags, img>> /\ (LoadConfig \/ UNCHANGED cfg)
  BY Fixed DEF Inv
<1>1. CASE ScheduleClean
  <2>1. /\ pc = "unlock" /\ pc' = "close" /\ UNCHANGED <<cfg, kept, why>>
        /\ child' = IF cfg.clean THEN <<CleanSettings(CleanArgs(cfg))>> ELSE <<>>
    BY <1>1 DEF ScheduleClean
  <2>2. kept >= 0
    BY <1>0, <2>1 DEF PhaseInv
  <2>3. why # "clean"
    BY <1>0, <2>1 DEF ChildInv
  <2> QED
    BY <2>1, <2>2, <2>3 DEF ChildInv
<1>2. CASE ScheduleCleanFails
  <2>1. pc = "unlock" /\ pc' = "close" /\ UNCHANGED child /\ why' = "clean"
    BY <1>2 DEF ScheduleCleanFails
  <2> QED
    BY <1>0, <2>1 DEF ChildInv
<1>3. CASE Close \/ EditTar
  <2>1. /\ UNCHANGED <<child, cfg, kept, why>>
        /\ (pc = "close" /\ pc' = "end") \/ UNCHANGED pc
    BY <1>3 DEF Close, EditTar
  <2> QED
    BY <1>0, <2>1 DEF ChildInv
<1>4. CASE Kill
  <2>1. UNCHANGED <<child, cfg, kept>> /\ pc' = "end" /\ why' = "killed"
    BY <1>4 DEF Kill
  <2> QED
    BY <1>0, <2>1 DEF ChildInv
<1>5. CASE ~(ScheduleClean \/ ScheduleCleanFails \/ Close \/ Kill \/ EditTar)
  <2>1. /\ pc \notin Late /\ UNCHANGED child
        /\ \/ pc' \notin Late /\ UNCHANGED why
           \/ pc' = "unlock" /\ why' \notin {"clean", "killed"}
           \/ pc' = "close" /\ pc \in Early /\ UNCHANGED kept /\ why' \notin {"clean", "killed"}
    BY <1>0, <1>5, Ending
  <2>2. child' = <<>>
    BY <1>0, <2>1 DEF PhaseInv
  <2>3. pc' \in {"close", "end"} => ~(kept' >= 0)
    <3>1. pc \in Early => kept = -1
      BY <1>0 DEF PhaseInv
    <3>2. pc \in Early /\ UNCHANGED kept => ~(kept' >= 0)
      BY <3>1
    <3> QED
      BY <2>1, <3>2 DEF Late
  <2>4. pc' = "unlock" => why' # "clean"
    BY <1>0, <2>1 DEF Late
  <2> QED
    BY <2>2, <2>3, <2>4 DEF ChildInv
<1> QED
  BY <1>1, <1>2, <1>3, <1>4, <1>5
------------------------------------------------------------------------------
(* The registry *)

LEMMA AdmitSteps ==
  ASSUME Inv, Next
  PROVE  AdmitInv'
<1>0. Types /\ AdmitInv /\ PhaseInv /\ UNCHANGED <<flags, img>> /\ (LoadConfig \/ UNCHANGED cfg)
  BY Fixed DEF Inv
<1>1. CASE LoadConfig
  <2>1. pc = "config" /\ UNCHANGED <<kept, source>> /\ pc' \in {"tarinfo", "image", "close"}
    BY <1>1, FailStep DEF LoadConfig, Early
  <2>2. kept = -1 /\ source = "none"
    BY <1>0, <2>1 DEF PhaseInv, AdmitInv, Early
  <2>3. ~(kept' >= 0)
    BY <2>1, <2>2
  <2> QED
    BY <2>1, <2>2, <2>3 DEF AdmitInv
<1>2. CASE ~LoadConfig
  <2>1. Admits(SystemContext)' <=> Admits(SystemContext)
    BY <1>0, <1>2, ContextFixed
  <2>2. (pc' = "config" => pc = "config") /\ (kept' = kept \/ pc = "pull")
        /\ (source' = source \/ source' = "closed" \/ CreateImageSource)
        /\ (pc' \in {"v1", "configblob", "pull"} =>
              pc \in {"v1", "configblob", "pull"} \/ source = "open" \/ pc = "tarinfo")
    BY <1>0, <1>2, Flow
  <2>3. CreateImageSource => Admits(SystemContext) /\ UNCHANGED pc /\ pc = "image"
    BY DEF CreateImageSource
  <2>4. pc = "tarinfo" => img.scheme = ""
    BY <1>0 DEF PhaseInv
  <2>5. pc' = "config" => source' = "none"
    <3>1. source' = "closed" => source = "closed" \/ Kill \/ Close
      BY <1>2 DEF Next, LogFileFails, Manifest, CreateImageSource, CreateImageSourceRefused, GetImage,
         GetImageFails, V1DiffID, ConvertImage, ConfigBlob, RequestFails, Pull, PullDone, StreamBlob, Blob, GetBlob,
         GetBlobFails, GetBlobRefused, OpenBlob, CopyChunk, CopyEnds, CheckBlob, Unpack, UnpackFails, NewBlobReaderFails, Tar,
         TarBaseImageInfo, TarStreamBlob, TarFails, EditTar, ScheduleClean, ScheduleCleanFails
    <3>2. (Kill \/ Close) => pc' = "end"
      BY DEF Kill, Close
    <3> QED
      BY <1>0, <2>2, <2>3, <3>1, <3>2 DEF AdmitInv
  <2>6. ASSUME img.scheme # "", pc' \in {"v1", "configblob", "pull"} \/ kept' >= 0 \/ source' = "open"
        PROVE  Admits(SystemContext)
    BY <1>0, <2>2, <2>3, <2>4, <2>6, Zenon DEF AdmitInv
  <2> QED
    BY <1>0, <2>1, <2>5, <2>6 DEF AdmitInv
<1> QED
  BY <1>1, <1>2

Refusals == {"registry", "no such file"}

\* A step that makes no request.
LEMMA RetryStays ==
  ASSUME Types, RetryInv, UNCHANGED <<flags, img, cfg, attempt>>, fails' = fails \/ CallFails,
         pc' \in {"config", "tarinfo"} => pc \in {"config", "tarinfo"},
         pc' \notin Late =>
           /\ pc \notin Late /\ (pc = "image" => pc' = "image" \/ Admits(SystemContext))
           /\ pc = "layer" => pc' = "layer",
         UNCHANGED why \/ why' \notin Refusals
  PROVE  RetryInv'
<1>0. attempt \in Nat /\ fails \in Nat /\ fails' \in Nat /\ fails' >= fails /\ MAX_DOCKER_RETRIES \in Nat
  BY Bounds DEF Types, CallFails
<1>1. (Admits(SystemContext)' <=> Admits(SystemContext)) /\ (Serves' <=> Serves)
  BY ContextFixed
<1>2. attempt =< fails => attempt' =< fails'
  BY <1>0
<1>3. fails >= MAX_DOCKER_RETRIES => fails' >= MAX_DOCKER_RETRIES
  BY <1>0
<1>4. (pc' \in {"config", "tarinfo"} => attempt' = 0)
  BY DEF RetryInv
<1>5. pc' \notin Late /\ (pc' = "image" => Admits(SystemContext)') /\ (pc' = "layer" => Serves') => attempt' =< fails'
  BY <1>1, <1>2 DEF RetryInv
<1>6. why' \in {"registry", "no such file"} => fails' >= MAX_DOCKER_RETRIES /\ attempt' = MAX_DOCKER_RETRIES
  BY <1>3, Zenon DEF RetryInv, Refusals
<1> QED
  BY <1>4, <1>5, <1>6 DEF RetryInv

LEMMA RetrySteps ==
  ASSUME Inv, Next
  PROVE  RetryInv'
<1>0. Types /\ PhaseInv /\ RetryInv /\ UNCHANGED <<flags, img>> /\ (LoadConfig \/ UNCHANGED cfg)
  BY Fixed DEF Inv
<1>a. attempt \in Nat /\ fails \in Nat /\ MAX_DOCKER_RETRIES \in Nat /\ MAX_DOCKER_RETRIES > 0 /\ 0 =< fails
  BY <1>0, Bounds DEF Types
<1>b. attempt =< fails /\ attempt' = attempt + 1 /\ fails' = fails + 1 =>
        attempt' =< fails' /\ (attempt' = MAX_DOCKER_RETRIES => fails' >= MAX_DOCKER_RETRIES)
  BY <1>a
<1>e. pc \notin Late => why = ""
  BY <1>0 DEF PhaseInv
<1>f. ASSUME NEW reason \in Reasons \ Refusals, Fail(reason)
      PROVE  pc' \in {"close", "unlock"} /\ why' \notin Refusals
  BY <1>f, FailStep
<1>1. CASE LoadConfig
  <2>1. pc = "config" /\ UNCHANGED <<attempt, fails>> /\ (UNCHANGED why \/ why' = "config")
    BY <1>1, FailStep DEF LoadConfig
  <2>2. attempt = 0 /\ why = ""
    BY <1>0, <1>e, <2>1 DEF RetryInv, Late
  <2> QED
    BY <1>a, <2>1, <2>2 DEF RetryInv
<1>2. CASE GetImageFails \/ RequestFails \/ GetBlobFails
  <2>1. /\ pc \in {"image", "v1", "configblob", "layer"} /\ UNCHANGED cfg
        /\ (pc = "image" => Admits(SystemContext)) /\ (pc = "layer" => Serves)
        /\ \E reason \in {"registry", "no such file"} : Retry(reason)
    BY <1>2 DEF GetImageFails, RequestFails, GetBlobFails
  <2>2. PICK reason \in {"registry", "no such file"} : Retry(reason)
    BY <2>1
  <2>3. pc \notin Late /\ why = "" /\ attempt =< fails
    BY <1>0, <1>e, <2>1 DEF RetryInv, Late
  <2>4. /\ fails' = fails + 1 /\ attempt' = attempt + 1
        /\ \/ attempt' < MAX_DOCKER_RETRIES /\ UNCHANGED <<pc, why>>
           \/ attempt' = MAX_DOCKER_RETRIES /\ Fail(reason)
    BY <1>0, <2>2, <2>3, RetryStep
  <2>5. attempt' =< fails' /\ (attempt' = MAX_DOCKER_RETRIES => fails' >= MAX_DOCKER_RETRIES)
    BY <1>b, <2>3, <2>4, Zenon
  <2>6. CASE UNCHANGED <<pc, why>>
    BY <2>1, <2>3, <2>5, <2>6 DEF RetryInv
  <2>7. CASE attempt' = MAX_DOCKER_RETRIES /\ Fail(reason)
    <3>1. why' = reason /\ pc' \in {"close", "unlock"}
      BY <2>7, FailStep
    <3> QED
      BY <2>5, <2>7, <3>1 DEF RetryInv, Late
  <2> QED
    BY <2>4, <2>6, <2>7
<1>3. CASE CreateImageSourceRefused \/ GetBlobRefused
  <2>1. (pc = "image" /\ ~Admits(SystemContext)) \/ (pc = "layer" /\ ~Serves)
    BY <1>3 DEF CreateImageSourceRefused, GetBlobRefused
  <2>2. UNCHANGED cfg /\ (UNCHANGED <<pc, why>> \/ Fail("refused"))
    BY <1>0, <1>3, RefusedStep
  <2>3. /\ why = "" /\ (Admits(SystemContext)' <=> Admits(SystemContext)) /\ (Serves' <=> Serves)
    BY <1>0, <1>e, <2>1, <2>2, ContextFixed DEF Late
  <2>4. CASE UNCHANGED <<pc, why>>
    BY <2>1, <2>3, <2>4 DEF RetryInv
  <2>5. CASE Fail("refused")
    <3>1. why' = "refused" /\ pc' \in {"close", "unlock"}
      BY <2>5, FailStep
    <3> QED
      BY <3>1 DEF RetryInv, Late
  <2> QED
    BY <2>2, <2>4, <2>5
<1>4. CASE GetImage \/ V1DiffID \/ ConfigBlob \/ GetBlob
  <2>1. /\ pc \in {"image", "v1", "configblob", "layer"} /\ attempt' = 0 /\ UNCHANGED fails
        /\ UNCHANGED why \/ why' = "corrupt"
    BY <1>4, FailStep DEF GetImage, V1DiffID, ConfigBlob, GetBlob
  <2>2. why' \in {"", "corrupt"}
    BY <1>e, <2>1 DEF Late
  <2> QED
    BY <1>a, <2>1, <2>2 DEF RetryInv
<1>5. CASE LogFileFails
  <2>1. pc = "config" /\ UNCHANGED <<attempt, cfg>> /\ CallFails /\ Fail("config")
    BY <1>5 DEF LogFileFails
  <2>2. pc' \in {"close", "unlock"} /\ why' \notin Refusals
    BY <1>f, <2>1 DEF Reasons, Refusals
  <2> QED
    BY <1>0, <2>1, <2>2, RetryStays DEF Late
<1>6. CASE CreateImageSource \/ ConvertImage \/ PullDone \/ Unpack \/ TarBaseImageInfo \/ TarStreamBlob \/ EditTar
  <2>1. /\ UNCHANGED <<attempt, cfg, fails, why>>
        /\ \/ pc' = pc \/ pc' = "unlock"
           \/ pc \in {"v1", "reader", "tarinfo"} /\ pc' \in {"configblob", "layer", "pull"}
    BY <1>6 DEF CreateImageSource, ConvertImage, PullDone, Unpack, TarBaseImageInfo, TarStreamBlob, EditTar
  <2> QED
    BY <1>0, <2>1, RetryStays DEF Late
<1>7. CASE Pull \/ OpenBlob \/ CopyChunk \/ CopyEnds \/ CheckBlob
  <2>1. /\ UNCHANGED <<attempt, cfg, fails>> /\ pc \in {"pull"} \cup InBlob
        /\ (pc' \in {"layer"} \cup InBlob /\ UNCHANGED why) \/ Fail("quota") \/ Fail("corrupt")
    BY <1>0, <1>7, PullStep, OpenStep, ChunkStep, EndStep, CheckStep DEF InBlob
  <2>2. (pc' \in {"layer"} \cup InBlob /\ UNCHANGED why) \/ (pc' \in {"close", "unlock"} /\ why' \notin Refusals)
    BY <1>f, <2>1 DEF Reasons, Refusals
  <2> QED
    BY <1>0, <2>1, <2>2, RetryStays DEF Late, InBlob
<1>8. CASE UnpackFails \/ NewBlobReaderFails \/ TarFails
  <2>1. /\ UNCHANGED <<attempt, cfg>> /\ CallFails
        /\ \E reason \in {"unpack", "reader", "tar", "directory"} : Fail(reason)
    BY <1>8 DEF UnpackFails, NewBlobReaderFails, TarFails
  <2>2. pc' \in {"close", "unlock"} /\ why' \notin Refusals
    BY <1>f, <2>1 DEF Reasons, Refusals
  <2> QED
    BY <1>0, <2>1, <2>2, RetryStays DEF Late
<1>9. CASE ScheduleClean \/ ScheduleCleanFails \/ Close \/ Kill
  <2>1. /\ UNCHANGED <<attempt, cfg>> /\ (fails' = fails \/ CallFails) /\ pc' \in {"close", "end"}
        /\ UNCHANGED why \/ why' \in {"clean", "killed"}
    BY <1>9 DEF ScheduleClean, ScheduleCleanFails, Close, Kill
  <2>2. UNCHANGED why \/ why' \notin Refusals
    BY <2>1 DEF Refusals
  <2> QED
    BY <1>0, <2>1, <2>2, RetryStays DEF Late
<1> QED
  BY <1>1, <1>2, <1>3, <1>4, <1>5, <1>6, <1>7, <1>8, <1>9 DEF Next, Manifest, StreamBlob, Blob, Tar

LEMMA ServesSteps ==
  ASSUME Inv, Next
  PROVE  ServesInv'
<1>0. Types /\ PhaseInv /\ ServesInv /\ UNCHANGED img /\ (Serves' <=> Serves)
  BY Fixed DEF Inv, Serves
<1>f. ASSUME NEW reason, Fail(reason) PROVE pc' \notin InBlob
  BY <1>f, FailStep DEF InBlob
<1>1. CASE Pull
  <2>1. pc' \notin InBlob
    BY <1>0, <1>1, <1>f, PullStep DEF InBlob
  <2>2. kept' = Len(volumes')
    BY <1>0, <1>1, PullStep
  <2> QED
    BY <1>0, <2>1, <2>2 DEF ServesInv
<1>2. CASE TarStreamBlob
  <2>1. Serves
    BY <1>2 DEF TarStreamBlob, Serves
  <2> QED
    BY <1>0, <2>1 DEF ServesInv
<1>3. CASE Unpack
  <2>1. Serves
    BY <1>0, <1>3 DEF Unpack, ServesInv, InBlob
  <2> QED
    BY <1>0, <2>1 DEF ServesInv
<1>4. CASE GetBlob
  <2>1. Serves
    BY <1>4 DEF GetBlob
  <2> QED
    BY <1>0, <2>1 DEF ServesInv
<1>5. CASE OpenBlob \/ CopyChunk \/ CopyEnds \/ CheckBlob
  <2>1. Serves
    BY <1>0, <1>5, OpenStep, ChunkStep, EndStep, CheckStep DEF ServesInv, InBlob
  <2> QED
    BY <1>0, <2>1 DEF ServesInv
<1>6. ASSUME ~(Pull \/ TarStreamBlob \/ Unpack \/ GetBlob \/ OpenBlob \/ CopyChunk \/ CopyEnds \/ CheckBlob)
      PROVE  ServesInv'
  <2>1. UNCHANGED <<kept, volumes>>
    BY <1>6 DEF Next, LoadConfig, LogFileFails, Manifest, CreateImageSource, CreateImageSourceRefused, GetImage,
       GetImageFails, V1DiffID, ConvertImage, ConfigBlob, RequestFails, PullDone, StreamBlob, Blob,
       GetBlobFails, GetBlobRefused, UnpackFails, NewBlobReaderFails, Tar, TarBaseImageInfo, TarFails, EditTar,
       ScheduleClean, ScheduleCleanFails, Close, Kill
  <2>2. UNCHANGED pc \/ pc' \notin InBlob
    <3>1. UNCHANGED pc \/ (\E reason : Fail(reason))
          \/ pc' \in {"tarinfo", "image", "v1", "configblob", "pull", "layer", "unlock", "close", "end"}
      BY <1>6 DEF Next, LoadConfig, LogFileFails, Manifest, CreateImageSource, CreateImageSourceRefused, GetImage,
         GetImageFails, V1DiffID, ConvertImage, ConfigBlob, RequestFails, PullDone, StreamBlob, Blob,
         GetBlobFails, GetBlobRefused, UnpackFails, NewBlobReaderFails, Tar, TarBaseImageInfo, TarFails, EditTar,
         ScheduleClean, ScheduleCleanFails, Close, Kill, Retry
    <3> QED
      BY <1>f, <3>1 DEF InBlob
  <2> QED
    BY <1>0, <2>1, <2>2 DEF ServesInv
<1> QED
  BY <1>1, <1>2, <1>3, <1>4, <1>5, <1>6
------------------------------------------------------------------------------
(* The volumes *)

Right == \A k \in DOMAIN volumes : volumes[k] = Unpacked(Genuine(img.layers[k]), img.layers[k].media)

LEMMA SeqNone ==
  ASSUME NEW s, IsSeq(s), Len(s) = 0
  PROVE  s = <<>>
BY EmptySeq DEF IsSeq

\* Unpacking keeps the digest a blob is known by.
LEMMA BlobKept ==
  ASSUME NEW c \in Contents, NEW media
  PROVE  Unpacked(c, media).blob = c.blob
<1>1. DOMAIN c = DOMAIN NoContent
  BY FetcherAssumption, Zenon
<1>2. DOMAIN c = {"blob", "diff", "csize", "usize", "form", "cut"}
  BY <1>1 DEF NoContent
<1> QED
  BY <1>2 DEF Unpacked

\* A blob that passes the checks is the one the manifest names.
LEMMA CheckedGenuine ==
  ASSUME Types, PhaseInv, Checked, pc = "check",
         CheckCheckSum(Unpacked(cur.content, Layer.media).blob, Layer.blob)
  PROVE  cur.content = Genuine(Layer)
<1>1. cur.content \in Contents /\ Len(volumes) < Len(img.layers)
  BY DEF PhaseInv, InBlob
<1>2. Len(volumes) + 1 \in DOMAIN img.layers
  <2>1. Len(volumes) \in Nat /\ Len(img.layers) \in Nat /\ DOMAIN img.layers = 1 .. Len(img.layers)
    BY Lengths, LayersAre DEF Types
  <2> QED
    BY <1>1, <2>1
<1>3. Unpacked(cur.content, Layer.media).blob = Layer.blob
  BY DEF CheckCheckSum, SkipValidation, Checked
<1>4. cur.content.blob = Layer.blob
  BY <1>1, <1>3, BlobKept
<1> QED
  BY <1>1, <1>2, <1>4, GenuineIs DEF Layer, Types

\* A step that leaves the volumes alone.
LEMMA VolumesStay ==
  ASSUME Types, VolumeInv, UNCHANGED <<img, cfg, volumes, version, chain>>,
         pc' = "config" => pc = "config",
         pc' \in {"config", "tarinfo", "pull"} => pc \in {"config", "tarinfo"} \/ img.scheme # "",
         pc' # "reader"
  PROVE  VolumeInv'
<1>1. Checked' = Checked /\ Right' = Right
  BY DEF Checked, Right
<1> QED
  BY <1>1 DEF VolumeInv, Right

LEMMA VolumeSteps ==
  ASSUME Inv, Next
  PROVE  VolumeInv'
<1>0. Types /\ PhaseInv /\ VolumeInv /\ UNCHANGED <<flags, img>> /\ (LoadConfig \/ UNCHANGED cfg)
  BY Fixed DEF Inv
<1>a. /\ IsSeq(volumes) /\ Len(volumes) \in Nat /\ DOMAIN volumes = 1 .. Len(volumes)
      /\ version \in Nat /\ chain \in Nat
  BY <1>0, Lengths DEF Types
<1>f. ASSUME NEW reason, Fail(reason) PROVE pc' \in {"close", "unlock"}
  BY <1>f, FailStep
<1>1. CASE LoadConfig
  <2>1. pc = "config" /\ UNCHANGED <<volumes, version, chain, cur>> /\ pc' \in {"tarinfo", "image", "close"}
        /\ (img.scheme # "" => pc' # "tarinfo")
    BY <1>1, FailStep DEF LoadConfig, Early
  <2>2. img.scheme # "" => Right'
    BY <1>0, <2>1 DEF VolumeInv, Right
  <2>3. Checked' => img.scheme # ""
    BY <1>0 DEF Checked
  <2> QED
    BY <1>0, <2>1, <2>2, <2>3 DEF VolumeInv, Right
<1>2. CASE \/ LogFileFails \/ CreateImageSource \/ CreateImageSourceRefused \/ GetImage \/ GetImageFails
           \/ ConvertImage \/ RequestFails \/ V1DiffID
  <2>1. /\ UNCHANGED <<volumes, version, chain>> /\ pc \in Early \ {"tarinfo"}
        /\ pc' \in {pc, "v1", "configblob"} \/ \E reason : Fail(reason)
    BY <1>2 DEF LogFileFails, CreateImageSource, CreateImageSourceRefused, GetImage, GetImageFails,
       ConvertImage, RequestFails, V1DiffID, Retry, Early
  <2>2. pc' \in {pc, "v1", "configblob", "close", "unlock"}
    BY <1>f, <2>1
  <2>3. UNCHANGED cfg
    BY <1>2 DEF LogFileFails, CreateImageSource, CreateImageSourceRefused, GetImage, GetImageFails,
       ConvertImage, RequestFails, V1DiffID
  <2> QED
    BY <1>0, <2>1, <2>2, <2>3, VolumesStay DEF Early
<1>3. CASE ConfigBlob
  <2>1. pc = "configblob" /\ pc' = "pull" /\ UNCHANGED <<volumes, version, chain, cfg>> /\ img.scheme # ""
    BY <1>0, <1>3 DEF ConfigBlob, PhaseInv
  <2> QED
    BY <1>0, <2>1, VolumesStay
<1>4. CASE PullDone \/ GetBlob \/ ScheduleClean \/ ScheduleCleanFails \/ Close \/ Kill
  <2>1. UNCHANGED <<volumes, version, chain, cfg>> /\ pc' \in {"unlock", "opened", "close", "end"}
    BY <1>4 DEF PullDone, GetBlob, ScheduleClean, ScheduleCleanFails, Close, Kill
  <2> QED
    BY <1>0, <2>1, VolumesStay
<1>5. CASE GetBlobFails \/ GetBlobRefused \/ UnpackFails \/ NewBlobReaderFails \/ TarFails
  <2>1. /\ UNCHANGED <<volumes, version, chain, cfg>>
        /\ (pc = "layer" /\ UNCHANGED pc) \/ \E reason : Fail(reason)
    BY <1>5 DEF GetBlobFails, GetBlobRefused, UnpackFails, NewBlobReaderFails, TarFails, Retry
  <2>2. pc' \in {"layer", "close", "unlock"}
    BY <1>f, <2>1
  <2> QED
    BY <1>0, <2>1, <2>2, VolumesStay
<1>6. CASE OpenBlob \/ CopyChunk \/ CopyEnds
  <2>1. /\ UNCHANGED <<volumes, version, chain, cfg>>
        /\ pc' \in {"copy", "check"} \/ Fail("quota") \/ Fail("corrupt")
    BY <1>6, OpenStep, ChunkStep, EndStep
  <2>2. pc' \in {"copy", "check", "close", "unlock"}
    BY <1>f, <2>1
  <2> QED
    BY <1>0, <2>1, <2>2, VolumesStay
<1>7. CASE CheckBlob
  <2>0. pc = "check" /\ UNCHANGED <<volumes, version, chain, cfg, img>>
    BY <1>7, CheckStep
  <2>1. CASE Fail("corrupt")
    BY <1>0, <1>f, <2>0, <2>1, VolumesStay
  <2>2. CASE /\ CheckCheckSum(Unpacked(cur.content, Layer.media).blob, Layer.blob)
             /\ pc' = "reader" /\ UNCHANGED cur
    <3>1. Checked => cur.content = Genuine(Layer)
      BY <1>0, <2>0, <2>2, CheckedGenuine
    <3>2. Checked' = Checked /\ Right' = Right /\ Layer' = Layer
      BY <2>0 DEF Checked, Right, Layer
    <3> QED
      BY <1>0, <2>0, <2>2, <3>1, <3>2 DEF VolumeInv, Right
  <2> QED
    BY <1>7, <2>1, <2>2, CheckStep
<1>8. CASE Pull
  <2>0. pc = "pull" /\ UNCHANGED <<version, chain, cfg, cur>> /\ pc' \in {"layer", "close", "unlock"}
    BY <1>0, <1>8, <1>f, PullStep
  <2>1. CASE UNCHANGED volumes
    BY <1>0, <2>0, <2>1, VolumesStay
  <2>2. ASSUME NEW m \in 0 .. Len(volumes), volumes' = SubSeq(volumes, 1, m) PROVE VolumeInv'
    <3>1. IsSeq(volumes') /\ Len(volumes') = m /\ \A k \in 1 .. m : volumes'[k] = volumes[k]
      BY <1>a, <2>2, SeqPrefix
    <3>2. DOMAIN volumes' = 1 .. m /\ \A k \in 1 .. m : k \in DOMAIN volumes
      BY <1>a, <3>1, Lengths
    <3>3. Right => Right'
      BY <1>0, <3>1, <3>2 DEF Right
    <3>4. Checked' = Checked
      BY <1>0, <2>0 DEF Checked
    <3>5. img.scheme = "" => volumes' = <<>>
      <4>1. SUFFICES ASSUME img.scheme = "" PROVE volumes' = <<>>
        OBVIOUS
      <4>2. volumes = <<>>
        BY <1>0, <2>0, <4>1 DEF VolumeInv
      <4>3. Len(volumes) = 0
        BY <4>2
      <4>4. Len(volumes') = 0
        BY <3>1, <4>3
      <4> QED
        BY <3>1, <4>4, SeqNone
    <3> QED
      BY <1>0, <2>0, <3>3, <3>4, <3>5 DEF VolumeInv, Right
  <2> QED
    BY <1>0, <1>8, <2>1, <2>2, PullStep
<1>9. CASE Unpack
  <2>0. pc = "reader" /\ pc' = "layer" /\ UNCHANGED <<version, chain, cfg>> /\ img.scheme # ""
    BY <1>0, <1>9 DEF Unpack, PhaseInv, InBlob
  <2>1. /\ IsSeq(volumes') /\ Len(volumes') = Len(volumes) + 1
        /\ volumes'[Len(volumes) + 1] = Unpacked(cur.content, Layer.media)
        /\ \A k \in 1 .. Len(volumes) : volumes'[k] = volumes[k]
    BY <1>0, <1>9, UnpackStep
  <2>2. Checked' = Checked
    BY <1>0, <2>0 DEF Checked
  <2>3. DOMAIN volumes' = 1 .. Len(volumes) + 1
    BY <2>1, Lengths
  <2>4. \A k \in DOMAIN volumes' : k = Len(volumes) + 1 \/ k \in DOMAIN volumes
    BY <1>a, <2>3
  <2>5. ASSUME Checked PROVE Right'
    <3>1. Right /\ cur.content = Genuine(Layer) /\ Layer = img.layers[Len(volumes) + 1]
      BY <1>0, <2>0, <2>5 DEF VolumeInv, Right, Layer
    <3>2. ASSUME NEW k \in DOMAIN volumes'
          PROVE  volumes'[k] = Unpacked(Genuine(img.layers[k]), img.layers[k].media)
      <4>1. CASE k = Len(volumes) + 1
        BY <2>1, <3>1, <4>1
      <4>2. CASE k \in DOMAIN volumes
        BY <1>a, <2>1, <3>1, <4>2 DEF Right
      <4> QED
        BY <2>4, <4>1, <4>2
    <3> QED
      BY <1>0, <3>2 DEF Right
  <2> QED
    BY <1>0, <2>0, <2>2, <2>5 DEF VolumeInv, Right
<1>10. CASE TarStreamBlob
  <2>0. pc = "layer" /\ UNCHANGED <<version, chain, pc>> /\ img.scheme = ""
    BY <1>10 DEF TarStreamBlob
  <2>1. volumes'[1].diff = version
    BY <1>0, <1>10, TarStep
  <2>2. ~Checked' /\ version >= chain
    BY <1>0, <1>a, <2>0 DEF Checked, VolumeInv
  <2> QED
    BY <1>0, <1>a, <2>0, <2>1, <2>2 DEF VolumeInv
<1>11. CASE TarBaseImageInfo
  <2>0. pc = "tarinfo" /\ UNCHANGED <<version, volumes>> /\ chain' = version /\ img.scheme = "" /\ pc' = "pull"
    BY <1>0, <1>11 DEF TarBaseImageInfo, PhaseInv
  <2>1. volumes' = <<>> /\ ~Checked'
    BY <1>0, <2>0 DEF Checked, VolumeInv
  <2>2. chain' =< version'
    <3>1. chain' = version /\ version' = version /\ version \in Nat
      BY <1>a, <2>0
    <3> QED
      BY <3>1
  <2> QED
    BY <1>0, <2>0, <2>1, <2>2 DEF VolumeInv
<1>12. CASE EditTar
  <2>0. UNCHANGED <<pc, volumes, chain, cur, cfg>> /\ version' = version + 1
    BY <1>12 DEF EditTar
  <2>1. Checked' = Checked /\ Right' = Right /\ Layer' = Layer
    BY <1>0, <2>0 DEF Checked, Right, Layer
  <2>2. chain' =< version'
    <3>1. chain =< version
      BY <1>0 DEF VolumeInv
    <3> QED
      BY <1>a, <2>0, <3>1
  <2> QED
    BY <1>0, <2>0, <2>1, <2>2 DEF VolumeInv, Right
<1> QED
  BY <1>1, <1>2, <1>3, <1>4, <1>5, <1>6, <1>7, <1>8, <1>9, <1>10, <1>11, <1>12
     DEF Next, Manifest, StreamBlob, Blob, Tar
------------------------------------------------------------------------------
(* The limit *)

LEMMA UptoFinite ==
  ASSUME NEW n \in Nat
  PROVE  IsFiniteSet(1 .. n) /\ n + 1 \notin 1 .. n /\ (1 .. n) \cup {n + 1} = 1 .. n + 1
BY FS_Interval

LEMMA SameSizes ==
  ASSUME NEW S, NEW f, NEW g, \A k \in S : f[k] \in Nat /\ g[k] = f[k]
  PROVE  \A k \in S : f[k] \in Int /\ g[k] \in Int /\ f[k] =< g[k] /\ g[k] =< f[k]
OBVIOUS

LEMMA SumSizesIs ==
  ASSUME NEW n \in Nat, NEW f, f = [k \in 1 .. n |-> f[k]]
  PROVE  SumSizes(f) = SumFunctionOnSet(f, 1 .. n)
<1>1. DOMAIN f = 1 .. n
  OBVIOUS
<1>2. SumSizes(f) = SumFunctionOnSet(f, DOMAIN f)
  BY Zenon DEF SumSizes, FoldSeq, FoldFunction, SumFunctionOnSet, FoldFunctionOnSet
<1> QED
  BY <1>1, <1>2

LEMMA SizesNone ==
  ASSUME NEW f, f = [k \in 1 .. 0 |-> f[k]]
  PROVE  SumSizes(f) = 0
<1>1. 1 .. 0 = {} /\ IsFiniteSet({})
  BY FS_EmptySet
<1>2. SumFunctionOnSet(f, {}) = 0
  BY <1>1, SumUnfold
<1>3. SumSizes(f) = SumFunctionOnSet(f, 1 .. 0)
  BY SumSizesIs
<1> QED
  BY <1>1, <1>2, <1>3

LEMMA SizesType ==
  ASSUME NEW n \in Nat, NEW f, f = [k \in 1 .. n |-> f[k]], \A k \in 1 .. n : f[k] \in Nat
  PROVE  SumSizes(f) \in Nat
<1>1. IsFiniteSet(1 .. n)
  BY UptoFinite
<1> QED
  BY <1>1, SumSizesIs, SumPositive

LEMMA SizesGrow ==
  ASSUME NEW n \in Nat, NEW f, NEW g, f = [k \in 1 .. n |-> f[k]], g = [k \in 1 .. n + 1 |-> g[k]],
         \A k \in 1 .. n : f[k] \in Nat /\ g[k] = f[k], g[n + 1] \in Nat
  PROVE  SumSizes(g) = SumSizes(f) + g[n + 1]
<1>1. IsFiniteSet(1 .. n) /\ n + 1 \notin 1 .. n /\ (1 .. n) \cup {n + 1} = 1 .. n + 1
  BY UptoFinite
<1>2. \A k \in 1 .. n : f[k] \in Int /\ g[k] \in Int /\ f[k] =< g[k] /\ g[k] =< f[k]
  BY SameSizes, Zenon
<1>3. SumFunctionOnSet(g, 1 .. n + 1) = g[n + 1] + SumFunctionOnSet(g, 1 .. n)
  <2>1. g[n + 1] \in Int
    OBVIOUS
  <2> QED
    BY <1>1, <1>2, <2>1, SumAdd
<1>4. /\ SumFunctionOnSet(f, 1 .. n) =< SumFunctionOnSet(g, 1 .. n) /\ SumFunctionOnSet(g, 1 .. n) =< SumFunctionOnSet(f, 1 .. n)
      /\ SumFunctionOnSet(f, 1 .. n) \in Int /\ SumFunctionOnSet(g, 1 .. n) \in Int
  BY <1>1, <1>2, SumMonotone
<1>5. SumSizes(g) = SumFunctionOnSet(g, 1 .. n + 1) /\ SumSizes(f) = SumFunctionOnSet(f, 1 .. n)
  BY SumSizesIs
<1> QED
  BY <1>3, <1>4, <1>5

\* What was fetched since Pull: nothing when it ends, and one blob more after
\* each Unpack.
LEMMA FetchedType ==
  ASSUME Types, kept >= 0
  PROVE  Fetched \in Nat
<1> DEFINE n == Len(volumes) - kept
           f == [k \in 1 .. n |-> volumes[kept + k].usize]
<1>1. Len(volumes) \in Nat /\ kept \in Int /\ kept =< Len(volumes) /\ DOMAIN volumes = 1 .. Len(volumes)
  BY Lengths DEF Types
<1>2. n \in Nat
  BY <1>1
<1>3. \A k \in 1 .. n : kept + k \in DOMAIN volumes
  BY <1>1
<1>4. \A k \in 1 .. n : f[k] \in Nat
  BY <1>3 DEF Types
<1>5. f = [k \in 1 .. n |-> f[k]] /\ Fetched = SumSizes(f)
  BY DEF Fetched
<1> HIDE DEF n, f
<1> QED
  BY <1>2, <1>4, <1>5, SizesType

LEMMA FetchedNone ==
  ASSUME kept' = Len(volumes'), Len(volumes') \in Nat
  PROVE  Fetched' = 0
<1> DEFINE f == [k \in 1 .. Len(volumes') - kept' |-> volumes'[kept' + k].usize]
<1>1. Len(volumes') - kept' = 0
  OBVIOUS
<1>2. f = [k \in 1 .. 0 |-> f[k]] /\ Fetched' = SumSizes(f)
  BY <1>1 DEF Fetched
<1> HIDE DEF f
<1> QED
  BY <1>2, SizesNone

LEMMA FetchedGrows ==
  ASSUME Types, PhaseInv, Unpack
  PROVE  Fetched' = Fetched + Opened /\ Opened \in Nat
<1> DEFINE n == Len(volumes) - kept
           f == [k \in 1 .. n |-> volumes[kept + k].usize]
           g == [k \in 1 .. n + 1 |-> volumes'[kept + k].usize]
<1>0. pc = "reader" /\ UNCHANGED kept
  BY DEF Unpack
<1>1. Len(volumes) \in Nat /\ kept \in Int /\ kept =< Len(volumes) /\ DOMAIN volumes = 1 .. Len(volumes) /\ kept >= 0
  BY <1>0, Lengths DEF Types, PhaseInv, InBlob
<1>2. n \in Nat /\ kept + (n + 1) = Len(volumes) + 1 /\ Len(volumes) + 1 - kept = n + 1
  BY <1>1
<1>3. /\ Len(volumes') = Len(volumes) + 1
      /\ volumes'[Len(volumes) + 1] = Unpacked(cur.content, Layer.media)
      /\ \A k \in 1 .. Len(volumes) : volumes'[k] = volumes[k]
  BY UnpackStep
<1>4. Opened \in Nat
  BY <1>0, UnpackedSize DEF PhaseInv, InBlob, Opened
<1>5. \A k \in 1 .. n : kept + k \in 1 .. Len(volumes)
  BY <1>1
<1>6. \A k \in 1 .. n : f[k] \in Nat
  BY <1>1, <1>5 DEF Types
<1>7. \A k \in 1 .. n : k \in 1 .. n + 1 /\ g[k] = f[k]
  BY <1>2, <1>3, <1>5
<1>8. g[n + 1] = Opened
  <2>1. g[n + 1] = volumes'[kept + (n + 1)].usize
    BY <1>2
  <2> QED
    BY <1>2, <1>3, <2>1 DEF Opened
<1>9. Fetched = SumSizes(f) /\ f = [k \in 1 .. n |-> f[k]]
  BY DEF Fetched
<1>10. Fetched' = SumSizes(g) /\ g = [k \in 1 .. n + 1 |-> g[k]]
  <2>1. Fetched' = SumSizes([k \in 1 .. Len(volumes') - kept' |-> volumes'[kept' + k].usize])
    BY DEF Fetched
  <2>2. Len(volumes') - kept' = n + 1 /\ kept' = kept
    <3>1. Len(volumes') = Len(volumes) + 1 /\ kept' = kept
      BY <1>0, <1>3
    <3>2. Len(volumes') - kept' = Len(volumes) + 1 - kept
      BY <1>1, <3>1
    <3> QED
      BY <1>2, <3>1, <3>2
  <2> QED
    BY <2>1, <2>2
<1> HIDE DEF n, f, g
<1>11. SumSizes(g) = SumSizes(f) + g[n + 1]
  BY <1>2, <1>4, <1>6, <1>7, <1>8, <1>9, <1>10, SizesGrow
<1> QED
  BY <1>4, <1>8, <1>9, <1>10, <1>11

\* A limit that is in force is a size.
LEMMA LimitType ==
  ASSUME Types, ConfigInv, kept >= 0
  PROVE  cfg.limit \in Nat /\ cfg.limit \in Int
<1>1. cfg.limit \in Nat
  BY SettingsTypes DEF Types, ConfigInv
<1> QED
  BY <1>1

LEMMA BlobIs ==
  ASSUME Types
  PROVE  cur.copied \in Nat /\ quota \in Int /\ DOMAIN cur = {"content", "reported", "copied"}
BY DEF Types, BlobType

LEMMA PendingType ==
  ASSUME Types
  PROVE  Pending \in Nat
<1>1. cur.copied \in Nat
  BY BlobIs
<1> QED
  BY <1>1 DEF Pending

LEMMA OpenedType ==
  ASSUME Types
  PROVE  Opened \in Nat
BY UnpackedSize DEF Types, BlobType, Opened

LEMMA OpenedFixed ==
  ASSUME UNCHANGED <<img, volumes>>, cur'.content = cur.content
  PROVE  Opened' = Opened
BY DEF Opened, Layer

LEMMA Less ==
  ASSUME NEW q \in Int, NEW F \in Nat, NEW c \in Nat, NEW l \in Int, q + F + c =< l
  PROVE  q + F + 0 =< l
OBVIOUS

LEMMA Within ==
  ASSUME NEW q \in Int, NEW F \in Nat, NEW c \in Nat, NEW l \in Int, q + F + c =< l, q >= 0
  PROVE  F =< l
OBVIOUS

\* A step that leaves the limit and the volumes alone.
LEMMA SpentStays ==
  ASSUME Types, ConfigInv, Spent, UNCHANGED <<img, cfg, volumes, kept, quota>>,
         pc' = "reader" => pc = "reader" /\ UNCHANGED cur
  PROVE  Spent'
<1> SUFFICES ASSUME img.scheme # "", kept >= 0 PROVE quota + Fetched + Pending' =< cfg.limit
  <2>1. Fetched' = Fetched
    BY DEF Fetched
  <2> QED
    BY <2>1 DEF Spent
<1>0. quota + Fetched + Pending =< cfg.limit
  BY DEF Spent
<1>1. CASE pc' = "reader"
  BY <1>0, <1>1 DEF Pending
<1>2. CASE pc' # "reader"
  <2>1. quota \in Int /\ Fetched \in Nat /\ Pending \in Nat /\ cfg.limit \in Int
    BY BlobIs, FetchedType, LimitType, PendingType, Zenon
  <2>2. Pending' = 0
    BY <1>2 DEF Pending
  <2> QED
    BY <1>0, <2>1, <2>2, Less
<1> QED
  BY <1>1, <1>2

LEMMA SpentSteps ==
  ASSUME Inv, Next
  PROVE  Spent'
<1>0. Types /\ PhaseInv /\ ConfigInv /\ Spent /\ Left /\ Copied /\ UNCHANGED <<flags, img>> /\ (LoadConfig \/ UNCHANGED cfg)
  BY Fixed DEF Inv, QuotaInv
<1>a. Len(volumes) \in Nat /\ quota \in Int /\ cur.copied \in Nat
  BY <1>0, Lengths, BlobIs DEF Types
<1>f. ASSUME NEW reason, Fail(reason) PROVE pc' \in {"close", "unlock"}
  BY <1>f, FailStep
<1>1. CASE LoadConfig
  <2>1. UNCHANGED kept /\ pc = "config"
    BY <1>1 DEF LoadConfig
  <2>2. kept = -1
    BY <1>0, <2>1 DEF PhaseInv, Early
  <2>3. ~(kept' >= 0)
    BY <2>1, <2>2
  <2> QED
    BY <2>3 DEF Spent
<1>2. CASE Pull
  <2>0. pc = "pull" /\ UNCHANGED <<quota, cfg, cur>> /\ pc' # "reader" /\ kept = -1
    BY <1>0, <1>2, <1>f, PullStep DEF PhaseInv
  <2>1. kept' = Len(volumes') /\ Len(volumes') \in Nat
    <3>1. ASSUME NEW m \in 0 .. Len(volumes), kept' = m, volumes' = SubSeq(volumes, 1, m)
          PROVE  kept' = Len(volumes') /\ Len(volumes') \in Nat
      <4>1. Len(volumes') = m
        BY <1>0, <3>1, SeqPrefix DEF Types
      <4> QED
        BY <1>a, <3>1, <4>1
    <3> QED
      BY <1>0, <1>2, <1>a, <3>1, PullStep
  <2>2. Fetched' = 0
    BY <2>1, FetchedNone
  <2>3. quota = cfg.limit
    BY <1>0, <2>0 DEF Left
  <2>4. Pending' = 0
    BY <2>0 DEF Pending
  <2>5. quota' + Fetched' + Pending' =< cfg'.limit
    <3>1. quota' = quota /\ cfg'.limit = quota
      BY <2>0, <2>3
    <3> QED
      BY <1>a, <2>2, <2>4, <3>1
  <2> QED
    BY <2>5 DEF Spent
<1>3. CASE CheckBlob
  <2>0. pc = "check" /\ UNCHANGED <<volumes, kept, cfg>>
    BY <1>3, CheckStep
  <2>1. CASE Fail("corrupt") /\ UNCHANGED quota
    BY <1>0, <1>f, <2>0, <2>1, SpentStays
  <2>2. CASE pc' = "reader" /\ quota' = quota - cur.copied /\ UNCHANGED cur
    <3>0. Fetched' = Fetched
      BY <2>0 DEF Fetched
    <3>1. SUFFICES ASSUME img.scheme # "", kept >= 0 PROVE quota' + Fetched' + Pending' =< cfg.limit
      BY <1>0, <2>0, <3>0 DEF Spent
    <3>2. quota + Fetched + Pending =< cfg.limit
      BY <1>0, <3>1 DEF Spent
    <3>3. Pending = 0 /\ Pending' = cur.copied
      BY <2>0, <2>2 DEF Pending
    <3>4. Fetched \in Nat
      BY <1>0, <3>1, FetchedType
    <3>5. quota + Fetched + 0 = (quota - cur.copied) + Fetched + cur.copied
      BY <1>a, <3>4
    <3> QED
      BY <2>2, <3>0, <3>2, <3>3, <3>5
  <2> QED
    BY <1>3, <2>1, <2>2, CheckStep
<1>4. CASE Unpack
  <2>0. pc = "reader" /\ UNCHANGED <<kept, cfg, quota>> /\ pc' = "layer"
    BY <1>4 DEF Unpack
  <2>1. Fetched' = Fetched + Opened /\ Opened \in Nat
    BY <1>0, <1>4, FetchedGrows
  <2>2. SUFFICES ASSUME img.scheme # "", kept >= 0 PROVE quota + Fetched' + Pending' =< cfg.limit
    BY <1>0, <2>0 DEF Spent
  <2>3. quota + Fetched + Pending =< cfg.limit
    BY <1>0, <2>2 DEF Spent
  <2>4. Pending = Opened /\ Pending' = 0
    BY <1>0, <2>0 DEF Pending, Copied
  <2>5. Fetched \in Nat
    BY <1>0, <2>2, FetchedType
  <2>6. quota + (Fetched + Opened) + 0 = quota + Fetched + Opened
    BY <1>a, <2>1, <2>5
  <2> QED
    BY <2>1, <2>3, <2>4, <2>6
<1>5. CASE TarStreamBlob
  <2>1. img.scheme = ""
    BY <1>5 DEF TarStreamBlob
  <2> QED
    BY <1>0, <2>1 DEF Spent
<1>6. CASE \/ LogFileFails \/ CreateImageSource \/ CreateImageSourceRefused \/ GetImage \/ GetImageFails
           \/ ConvertImage \/ RequestFails \/ V1DiffID \/ ConfigBlob \/ GetBlobFails \/ GetBlobRefused
           \/ UnpackFails \/ NewBlobReaderFails \/ TarFails
  <2>1. /\ UNCHANGED <<cfg, volumes, kept, quota>>
        /\ pc' # "reader" \/ \E reason : Fail(reason)
    BY <1>6 DEF LogFileFails, CreateImageSource, CreateImageSourceRefused, GetImage, GetImageFails,
       ConvertImage, RequestFails, V1DiffID, ConfigBlob, GetBlobFails, GetBlobRefused, UnpackFails,
       NewBlobReaderFails, TarFails, Retry
  <2>2. pc' # "reader"
    BY <1>f, <2>1
  <2> QED
    BY <1>0, <2>1, <2>2, SpentStays
<1>7. CASE OpenBlob \/ CopyChunk \/ CopyEnds
  <2>1. /\ UNCHANGED <<cfg, volumes, kept, quota>>
        /\ pc' \in {"copy", "check"} \/ \E reason : Fail(reason)
    BY <1>7, OpenStep, ChunkStep, EndStep
  <2>2. pc' # "reader"
    BY <1>f, <2>1
  <2> QED
    BY <1>0, <2>1, <2>2, SpentStays
<1>8. CASE PullDone \/ GetBlob \/ ScheduleClean \/ ScheduleCleanFails \/ Close \/ Kill \/ TarBaseImageInfo \/ EditTar
  <2>1. /\ UNCHANGED <<cfg, volumes, kept, quota>>
        /\ pc' \in {"unlock", "opened", "close", "end", "pull"} \/ UNCHANGED <<pc, cur>>
    BY <1>8 DEF PullDone, GetBlob, ScheduleClean, ScheduleCleanFails, Close, Kill, TarBaseImageInfo, EditTar
  <2> QED
    BY <1>0, <2>1, SpentStays
<1> QED
  BY <1>1, <1>2, <1>3, <1>4, <1>5, <1>6, <1>7, <1>8 DEF Next, Manifest, StreamBlob, Blob, Tar

\* A step that leaves the limit and the blob alone.
LEMMA LeftStays ==
  ASSUME Left, Copied, UNCHANGED <<img, cfg, volumes, quota>>, kept' = -1 => kept = -1,
         pc' \notin InBlob \/ (pc' = pc /\ UNCHANGED cur)
  PROVE  Left' /\ Copied'
<1>1. EnforceQuota' <=> EnforceQuota
  BY DEF EnforceQuota
<1>2. Left'
  BY <1>1 DEF Left, InBlob
<1>3. UNCHANGED cur => Opened' = Opened
  BY OpenedFixed
<1>4. Copied'
  BY <1>3 DEF Copied, InBlob
<1> QED
  BY <1>2, <1>4

\* A blob in hand: how much of it there is and how much of the limit is left.
LEMMA BlobBounds ==
  ASSUME Types, Left, Copied, UNCHANGED <<img, cfg, volumes, kept>>
  PROVE  /\ quota \in Int /\ cur.copied \in Nat /\ Opened \in Nat /\ (EnforceQuota' <=> EnforceQuota)
         /\ EnforceQuota /\ pc \in {"opened", "copy", "check"} => cur.copied =< quota
         /\ EnforceQuota => quota >= 0
         /\ kept >= 0 => kept' # -1
<1>1. EnforceQuota' <=> EnforceQuota
  BY DEF EnforceQuota
<1>2. kept >= 0 => kept' # -1
  BY DEF Types
<1> QED
  BY <1>1, <1>2, BlobIs, OpenedType DEF Left

LEMMA LeftSteps ==
  ASSUME Inv, Next
  PROVE  Left' /\ Copied'
<1>0. Types /\ PhaseInv /\ ConfigInv /\ Left /\ Copied /\ UNCHANGED <<flags, img>> /\ (LoadConfig \/ UNCHANGED cfg)
  BY Fixed DEF Inv, QuotaInv
<1>f. ASSUME NEW reason, Fail(reason) PROVE pc' \in {"close", "unlock"}
  BY <1>f, FailStep
<1>1. CASE LoadConfig
  <2>0. pc = "config" /\ pc' \in {"tarinfo", "image", "close"} /\ UNCHANGED <<kept, volumes>>
    BY <1>1, FailStep DEF LoadConfig, Early
  <2>1. CASE Accepted(flags)
    <3>1. cfg' = Settings(flags) /\ quota' = cfg'.limit
      BY <1>1, <2>1 DEF LoadConfig
    <3>2. quota' \in Nat
      BY <1>0, <2>1, <3>1, SettingsTypes DEF Types
    <3>3. quota' >= 0
      BY <3>2
    <3> QED
      BY <2>0, <3>1, <3>3 DEF Left, Copied
  <2>2. CASE ~Accepted(flags)
    <3>1. UNCHANGED <<cfg, quota>>
      BY <1>1, <2>2 DEF LoadConfig
    <3> QED
      BY <1>0, <2>0, <3>1, LeftStays DEF InBlob
  <2> QED
    BY <2>1, <2>2
<1>2. CASE \/ LogFileFails \/ CreateImageSource \/ CreateImageSourceRefused \/ GetImage \/ GetImageFails
           \/ ConvertImage \/ RequestFails \/ V1DiffID \/ ConfigBlob \/ GetBlobFails \/ GetBlobRefused
           \/ UnpackFails \/ NewBlobReaderFails \/ TarFails
  <2>1. /\ UNCHANGED <<cfg, volumes, kept, quota>>
        /\ pc' \in {"image", "v1", "configblob", "layer", "pull"} \/ \E reason : Fail(reason)
    BY <1>2 DEF LogFileFails, CreateImageSource, CreateImageSourceRefused, GetImage, GetImageFails,
       ConvertImage, RequestFails, V1DiffID, ConfigBlob, GetBlobFails, GetBlobRefused, UnpackFails,
       NewBlobReaderFails, TarFails, Retry
  <2>2. pc' \notin InBlob
    BY <1>f, <2>1 DEF InBlob
  <2> QED
    BY <1>0, <2>1, <2>2, LeftStays
<1>3. CASE PullDone \/ ScheduleClean \/ ScheduleCleanFails \/ Close \/ Kill \/ TarBaseImageInfo \/ EditTar
  <2>1. /\ UNCHANGED <<cfg, volumes, kept, quota>>
        /\ pc' \in {"unlock", "close", "end", "pull"} \/ UNCHANGED <<pc, cur>>
    BY <1>3 DEF PullDone, ScheduleClean, ScheduleCleanFails, Close, Kill, TarBaseImageInfo, EditTar
  <2> QED
    BY <1>0, <2>1, LeftStays DEF InBlob
<1>4. CASE Pull \/ TarStreamBlob \/ Unpack
  <2>1. UNCHANGED <<cfg, quota>> /\ pc' \in {"layer", "close", "unlock"} /\ (Pull \/ (UNCHANGED kept /\ pc \in {"layer", "reader"}))
    BY <1>0, <1>4, <1>f, PullStep DEF TarStreamBlob, Unpack
  <2>2. kept' # -1
    <3>1. CASE Pull
      <4>1. kept' \in 0 .. Len(volumes) \/ kept' = Len(volumes)
        BY <1>0, <3>1, PullStep
      <4>2. Len(volumes) \in Nat
        BY <1>0, Lengths DEF Types
      <4> QED
        BY <4>1, <4>2
    <3>2. CASE UNCHANGED kept /\ pc \in {"layer", "reader"}
      <4>1. kept' >= 0
        BY <1>0, <3>2 DEF PhaseInv, InBlob
      <4> QED
        BY <4>1
    <3> QED
      BY <2>1, <3>1, <3>2
  <2>3. EnforceQuota' <=> EnforceQuota
    BY <2>1 DEF EnforceQuota
  <2> QED
    BY <1>0, <2>1, <2>2, <2>3 DEF Left, Copied
<1>5. CASE GetBlob
  <2>0. pc' = "opened" /\ UNCHANGED <<cfg, quota, volumes, kept>> /\ kept >= 0
    BY <1>0, <1>5 DEF GetBlob, PhaseInv
  <2>1. PICK c \in Contents, r \in Int : cur' = [content |-> c, reported |-> r, copied |-> 0]
    BY <1>0, <1>5, GetStep
  <2>2. cur'.copied = 0 /\ cur'.content = c
    BY <2>1
  <2>3. Opened' = Unpacked(c, Layer'.media).usize
    BY <2>2 DEF Opened
  <2>4. Opened' \in Nat
    BY <2>3, UnpackedSize
  <2>5. 0 =< Opened'
    BY <2>4
  <2>6. quota \in Int /\ (EnforceQuota' <=> EnforceQuota) /\ kept' # -1 /\ (EnforceQuota => quota >= 0)
    BY <1>0, <2>0, BlobBounds
  <2>7. EnforceQuota => 0 =< quota
    BY <2>6
  <2> QED
    BY <2>0, <2>2, <2>5, <2>6, <2>7 DEF Left, Copied
<1>6. CASE OpenBlob \/ CopyEnds
  <2>0. pc \in {"opened", "copy"} /\ UNCHANGED <<cfg, quota, volumes, kept, img>>
    BY <1>6, OpenStep, EndStep
  <2>1. CASE Fail("corrupt")
    BY <1>0, <1>f, <2>0, <2>1, LeftStays DEF InBlob
  <2>2. CASE UNCHANGED cur /\ ((pc = "opened" /\ pc' = "copy") \/ (pc' = "check" /\ cur.copied = Opened))
    <3>1. Opened' = Opened /\ (EnforceQuota' <=> EnforceQuota)
      BY <2>0, <2>2, OpenedFixed DEF EnforceQuota
    <3> QED
      BY <1>0, <2>0, <2>2, <3>1 DEF Left, Copied
  <2> QED
    BY <1>6, <2>1, <2>2, OpenStep, EndStep
<1>7. CASE CopyChunk
  <2>0. pc = "copy" /\ UNCHANGED <<cfg, quota, volumes, kept, img>>
    BY <1>7, ChunkStep
  <2>1. CASE Fail("quota")
    BY <1>0, <1>f, <2>0, <2>1, LeftStays DEF InBlob
  <2>2. ASSUME NEW n \in 1 .. BufSize, n =< Opened - cur.copied, ~(EnforceQuota /\ n > quota - cur.copied),
               cur' = [cur EXCEPT !.copied = cur.copied + n], UNCHANGED pc
        PROVE  Left' /\ Copied'
    <3>1. cur'.copied = cur.copied + n /\ cur'.content = cur.content
      BY <1>0, <2>2, BlobIs
    <3>2. Opened' = Opened
      BY <2>0, <3>1, OpenedFixed
    <3>3. /\ quota \in Int /\ cur.copied \in Nat /\ Opened \in Nat /\ (EnforceQuota' <=> EnforceQuota)
          /\ (EnforceQuota => quota >= 0) /\ (kept = -1 => quota = cfg.limit)
      BY <1>0, <2>0, BlobBounds DEF Left
    <3>4. n \in Nat
      BY Bounds
    <3>5. cur.copied + n =< Opened
      BY <2>2, <3>3, <3>4
    <3>6. EnforceQuota => cur.copied + n =< quota
      <4>1. n > quota - cur.copied \/ cur.copied + n =< quota
        BY <3>3, <3>4
      <4> QED
        BY <2>2, <4>1
    <3> QED
      BY <2>0, <2>2, <3>1, <3>2, <3>3, <3>5, <3>6 DEF Left, Copied
  <2> QED
    BY <1>7, <2>1, <2>2, ChunkStep
<1>8. CASE CheckBlob
  <2>0. pc = "check" /\ UNCHANGED <<cfg, volumes, kept, img>>
    BY <1>8, CheckStep
  <2>1. CASE Fail("corrupt") /\ UNCHANGED quota
    BY <1>0, <1>f, <2>0, <2>1, LeftStays DEF InBlob
  <2>2. CASE pc' = "reader" /\ quota' = quota - cur.copied /\ UNCHANGED cur
    <3>1. Opened' = Opened
      BY <2>0, <2>2, OpenedFixed
    <3>2. /\ quota \in Int /\ cur.copied \in Nat /\ (EnforceQuota' <=> EnforceQuota)
          /\ (EnforceQuota => cur.copied =< quota)
      BY <1>0, <2>0, BlobBounds
    <3>3. EnforceQuota => quota - cur.copied >= 0
      BY <3>2
    <3>4. kept >= 0
      BY <1>0, <2>0 DEF PhaseInv, InBlob
    <3>5. kept' # -1
      BY <1>0, <2>0, <3>4, BlobBounds
    <3> QED
      BY <1>0, <2>0, <2>2, <3>1, <3>2, <3>3, <3>5 DEF Left, Copied
  <2> QED
    BY <1>8, <2>1, <2>2, CheckStep
<1> QED
  BY <1>1, <1>2, <1>3, <1>4, <1>5, <1>6, <1>7, <1>8 DEF Next, Manifest, StreamBlob, Blob, Tar

LEMMA CauseSteps ==
  ASSUME Inv, Next
  PROVE  Cause'
<1>0. Types /\ PhaseInv /\ Left /\ Copied /\ Cause /\ UNCHANGED <<flags, img>> /\ (LoadConfig \/ UNCHANGED cfg)
  BY Fixed DEF Inv, QuotaInv
<1>1. CASE why = "quota"
  <2>1. pc \in Late
    BY <1>0, <1>1 DEF PhaseInv
  <2>2. ScheduleClean \/ ScheduleCleanFails \/ Close \/ Kill \/ EditTar
    BY <1>0, <2>1, Ending
  <2>3. UNCHANGED <<cfg, volumes, quota, cur>>
    BY <2>2 DEF ScheduleClean, ScheduleCleanFails, Close, Kill, EditTar
  <2>4. Opened' = Opened
    BY <1>0, <2>3, OpenedFixed
  <2> QED
    BY <1>0, <1>1, <2>3, <2>4 DEF Cause
<1>2. CASE Pull
  <2>1. SumSizes([k \in DOMAIN img.layers |-> img.layers[k].size]) > cfg.limit \/ UNCHANGED why
    BY <1>0, <1>2, PullStep
  <2>2. UNCHANGED cfg
    BY <1>0, <1>2, PullStep
  <2> QED
    BY <1>0, <1>1, <2>1, <2>2 DEF Cause
<1>3. CASE CopyChunk
  <2>0. pc = "copy" /\ UNCHANGED <<cfg, quota, volumes, kept, img>>
    BY <1>3, ChunkStep
  <2>1. CASE UNCHANGED why
    BY <1>0, <1>1, <2>1 DEF Cause
  <2>2. ASSUME NEW n \in 1 .. BufSize, n =< Opened - cur.copied, EnforceQuota, n > quota - cur.copied, UNCHANGED cur
        PROVE  Cause'
    <3>1. quota \in Int /\ cur.copied \in Nat /\ Opened \in Nat
      BY <1>0, <2>0, BlobBounds
    <3>2. n \in Nat /\ n >= 1
      BY Bounds
    <3>3. Opened > quota /\ Opened >= 1
      BY <2>2, <3>1, <3>2
    <3>4. cur # NoBlob
      <4>1. SUFFICES ASSUME cur = NoBlob PROVE FALSE
        OBVIOUS
      <4>2. Opened = 0
        BY <4>1 DEF Opened, NoBlob, NoContent, Unpacked
      <4> QED
        BY <3>3, <4>2
    <3>5. Opened' = Opened
      BY <2>0, <2>2, OpenedFixed
    <3> QED
      BY <2>0, <2>2, <3>3, <3>4, <3>5 DEF Cause
  <2> QED
    BY <1>3, <2>1, <2>2, ChunkStep
<1>4. CASE why # "quota" /\ ~Pull /\ ~CopyChunk
  <2> SUFFICES why' # "quota"
    BY DEF Cause
  <2>f. ASSUME NEW reason, reason # "quota", Fail(reason) PROVE why' # "quota"
    BY <2>f, FailStep
  <2>1. CASE \/ LoadConfig \/ LogFileFails \/ GetImageFails \/ RequestFails \/ V1DiffID \/ GetBlobFails
             \/ UnpackFails \/ NewBlobReaderFails \/ TarFails
    <3>1. UNCHANGED why \/ \E reason : reason # "quota" /\ Fail(reason)
      BY <2>1 DEF LoadConfig, LogFileFails, GetImageFails, RequestFails, V1DiffID, GetBlobFails, UnpackFails,
         NewBlobReaderFails, TarFails, Retry
    <3> QED
      BY <1>4, <2>f, <3>1
  <2>2. CASE CreateImageSourceRefused \/ GetBlobRefused
    BY <1>4, <2>2, <2>f DEF CreateImageSourceRefused, GetBlobRefused
  <2>3. CASE OpenBlob \/ CopyEnds \/ CheckBlob
    <3>1. UNCHANGED why \/ Fail("corrupt")
      BY <2>3, OpenStep, EndStep, CheckStep
    <3> QED
      BY <1>4, <2>f, <3>1
  <2>4. CASE \/ CreateImageSource \/ GetImage \/ ConvertImage \/ ConfigBlob \/ PullDone \/ GetBlob \/ Unpack
             \/ TarBaseImageInfo \/ TarStreamBlob \/ EditTar \/ ScheduleClean \/ ScheduleCleanFails \/ Close \/ Kill
    BY <1>4, <2>4 DEF CreateImageSource, GetImage, ConvertImage, ConfigBlob, PullDone, GetBlob, Unpack,
       TarBaseImageInfo, TarStreamBlob, EditTar, ScheduleClean, ScheduleCleanFails, Close, Kill
  <2> QED
    BY <1>4, <2>1, <2>2, <2>3, <2>4 DEF Next, Manifest, StreamBlob, Blob, Tar
<1> QED
  BY <1>1, <1>2, <1>3, <1>4
------------------------------------------------------------------------------
(* The inductive invariant *)

LEMMA SeqEmpty == IsSeq(<<>>) /\ Len(<<>>) = 0 /\ DOMAIN <<>> = {}
<1>1. <<>> \in Seq({}) /\ Len(<<>>) = 0
  BY EmptySeq
<1> QED
  BY <1>1 DEF IsSeq

\* The volumes a create finds: the lower layers of its image.
LEMMA FoundTypes ==
  ASSUME Init
  PROVE  /\ IsSeq(volumes) /\ Len(volumes) \in Nat /\ Len(volumes) =< Len(img.layers)
         /\ \A k \in DOMAIN volumes : volumes[k].usize \in Nat
         /\ img.scheme = "" => volumes = <<>>
         /\ img.scheme # "" => Right
<1>0. img \in Images
  BY DEF Init
<1>a. Len(img.layers) \in Nat /\ DOMAIN img.layers = 1 .. Len(img.layers)
  BY <1>0, LayersAre
<1>1. PICK n \in 0 .. Len(img.layers) :
        volumes = IF img.scheme = "" THEN <<>>
                  ELSE [k \in 1 .. n |-> Unpacked(Genuine(img.layers[k]), img.layers[k].media)]
  BY DEF Init
<1>2. CASE img.scheme = ""
  <2>1. volumes = <<>>
    BY <1>1, <1>2
  <2>2. Len(volumes) = 0 /\ IsSeq(volumes) /\ DOMAIN volumes = {}
    BY <2>1, SeqEmpty
  <2>3. Len(volumes) \in Nat /\ Len(volumes) =< Len(img.layers)
    BY <1>a, <2>2
  <2> QED
    BY <1>2, <2>1, <2>2, <2>3
<1>3. CASE img.scheme # ""
  <2>1. volumes = [k \in 1 .. n |-> Unpacked(Genuine(img.layers[k]), img.layers[k].media)]
    BY <1>1, <1>3
  <2>2. n \in Nat /\ n =< Len(img.layers)
    BY <1>a
  <2>3. volumes = [k \in 1 .. n |-> volumes[k]] /\ DOMAIN volumes = 1 .. n
    BY <2>1
  <2>4. IsSeq(volumes) /\ Len(volumes) = n
    BY <2>2, <2>3, SeqMade
  <2>5. Right
    BY <2>1, <2>3 DEF Right
  <2>6. ASSUME NEW k \in DOMAIN volumes PROVE volumes[k].usize \in Nat
    <3>1. k \in DOMAIN img.layers
      BY <1>a, <2>2, <2>3
    <3>2. Genuine(img.layers[k]) \in Contents
      BY <1>0, <3>1, GenuineIs
    <3> QED
      BY <2>5, <3>2, UnpackedSize DEF Right
  <2> QED
    BY <1>3, <2>2, <2>4, <2>5, <2>6
<1> QED
  BY <1>2, <1>3

LEMMA InitInv == Init => Inv
<1> SUFFICES ASSUME Init PROVE Inv
  OBVIOUS
<1>0. /\ flags \in Flags /\ img \in Images /\ cfg = ZeroConfig /\ child = <<>> /\ pc = "config" /\ source = "none"
      /\ cur = NoBlob /\ why = ""
  BY DEF Init
<1>n. attempt = 0 /\ fails = 0 /\ version = 1 /\ chain = 0 /\ quota = 0 /\ tmp = 0 /\ kept = -1
  BY DEF Init
<1>a. Len(img.layers) \in Nat /\ MAX_DOCKER_RETRIES \in Nat /\ MAX_DOCKER_RETRIES > 0
  BY <1>0, LayersAre, Bounds
<1>b. ~(kept >= 0) /\ attempt < MAX_DOCKER_RETRIES /\ attempt =< fails /\ chain =< version /\ quota >= 0
  BY <1>a, <1>n
<1>1. Types
  <2>1. pc \in PC /\ why \in Reasons /\ source \in {"none", "open", "closed"} /\ cur \in BlobType
    BY <1>0, NoBlobType DEF PC, Early, Reasons
  <2>2. attempt \in Nat /\ attempt =< MAX_DOCKER_RETRIES /\ fails \in Nat
    BY <1>a, <1>n
  <2>3. diffs = <<>>
    BY DEF Init
  <2>4. IsSeq(diffs) /\ Len(diffs) = 0
    BY <2>3, SeqEmpty, Zenon
  <2>5. Len(diffs) =< Len(img.layers)
    BY <1>a, <2>4
  <2>6. Len(volumes) \in Nat
    BY FoundTypes
  <2>7. kept \in Int /\ kept >= -1 /\ kept =< Len(volumes)
    BY <1>n, <2>6
  <2>8. version \in Nat /\ chain \in Nat /\ quota \in Int /\ tmp \in 0 .. 1
    BY <1>n
  <2> QED
    BY <1>0, <2>1, <2>2, <2>4, <2>5, <2>7, <2>8, FoundTypes DEF Types
<1>2. PhaseInv
  BY <1>0, <1>b, <1>n DEF PhaseInv, Early, InBlob, Late
<1>3. FileInv
  BY <1>0, <1>n DEF FileInv, WithFile, Late
<1>4. ConfigInv
  BY <1>0, <1>b DEF ConfigInv
<1>5. ChildInv
  BY <1>0 DEF ChildInv
<1>6. AdmitInv
  BY <1>0, <1>b DEF AdmitInv
<1>7. RetryInv
  BY <1>0, <1>b, <1>n DEF RetryInv
<1>s. ServesInv
  BY <1>0, <1>b DEF ServesInv, InBlob
<1>8. VolumeInv
  <2>1. img.scheme # "" => Right
    BY FoundTypes
  <2>2. Checked => img.scheme # ""
    BY DEF Checked
  <2>3. img.scheme = "" => volumes = <<>>
    BY FoundTypes
  <2> QED
    BY <1>0, <1>b, <2>1, <2>2, <2>3 DEF VolumeInv, Right
<1>9. QuotaInv
  <2>1. Spent
    BY <1>b DEF Spent
  <2>2. quota = cfg.limit
    BY <1>0, <1>n, ZeroNumbers
  <2>3. Left
    BY <1>0, <1>b, <2>2 DEF Left
  <2>4. Copied /\ Cause
    BY <1>0 DEF Copied, Cause
  <2> QED
    BY <2>1, <2>3, <2>4 DEF QuotaInv
<1> QED
  BY <1>1, <1>2, <1>3, <1>4, <1>5, <1>6, <1>7, <1>s, <1>8, <1>9 DEF Inv

LEMMA NextInv == Inv /\ [Next]_vars => Inv'
<1> SUFFICES ASSUME Inv, [Next]_vars PROVE Inv'
  OBVIOUS
<1>1. CASE Next
  <2>1. Types' /\ PhaseInv' /\ FileInv' /\ ConfigInv' /\ ChildInv'
    BY <1>1, TypeSteps, PhaseSteps, FileSteps, ConfigSteps, ChildSteps
  <2>2. AdmitInv' /\ RetryInv' /\ ServesInv' /\ VolumeInv'
    BY <1>1, AdmitSteps, RetrySteps, ServesSteps, VolumeSteps
  <2>3. QuotaInv'
    BY <1>1, SpentSteps, LeftSteps, CauseSteps DEF QuotaInv
  <2> QED
    BY <2>1, <2>2, <2>3 DEF Inv
<1>2. CASE UNCHANGED vars
  <2>0. UNCHANGED <<flags, child, cfg, img, diffs, version, chain, pc, attempt, source, quota, cur, tmp, volumes, kept, why, fails>>
    BY <1>2 DEF vars
  <2>1. Types' /\ PhaseInv' /\ FileInv'
    BY <2>0 DEF Inv, Types, PhaseInv, FileInv
  <2>2. ConfigInv' /\ ChildInv'
    BY <2>0 DEF Inv, ConfigInv, ChildInv
  <2>3. AdmitInv' /\ RetryInv' /\ ServesInv'
    BY <2>0, ContextFixed DEF Inv, AdmitInv, RetryInv, ServesInv
  <2>4. Right' = Right /\ Checked' = Checked /\ Layer' = Layer /\ Opened' = Opened /\ Fetched' = Fetched
        /\ (EnforceQuota' <=> EnforceQuota)
    BY <2>0 DEF Right, Checked, Layer, Opened, Fetched, EnforceQuota
  <2>5. VolumeInv'
    BY <2>0, <2>4 DEF Inv, VolumeInv, Right
  <2>6. Spent' /\ Left' /\ Copied' /\ Cause'
    BY <2>0, <2>4 DEF Inv, QuotaInv, Spent, Pending, Left, Copied, Cause
  <2> QED
    BY <2>1, <2>2, <2>3, <2>5, <2>6 DEF Inv, QuotaInv
<1> QED
  BY <1>1, <1>2

LEMMA AlwaysInv == Spec => []Inv
BY InitInv, NextInv, PTL DEF Spec
------------------------------------------------------------------------------
(* What follows *)

LEMMA InvTypes == Inv => TypeOK
<1> SUFFICES ASSUME Inv PROVE TypeOK
  OBVIOUS
<1>1. Types
  BY DEF Inv
<1>2. attempt \in Nat /\ attempt =< MAX_DOCKER_RETRIES /\ MAX_DOCKER_RETRIES \in Nat
  BY <1>1, Bounds DEF Types
<1>3. attempt \in 0 .. MAX_DOCKER_RETRIES
  BY <1>2
<1> QED
  BY <1>1, <1>3, BlobIs DEF Types, TypeOK

LEMMA InvVolumes == Inv => VolumesGenuine
<1> SUFFICES ASSUME Inv PROVE VolumesGenuine
  OBVIOUS
<1>0. Types /\ PhaseInv /\ ConfigInv /\ AdmitInv /\ ServesInv /\ VolumeInv
  BY DEF Inv
<1>1. img.scheme \notin {"", "oci"} \/ ~cfg.skip =>
        \A k \in DOMAIN volumes :
          img.scheme # "" => volumes[k] = Unpacked(Genuine(img.layers[k]), img.layers[k].media)
  BY <1>0 DEF VolumeInv, Checked
<1>2. ASSUME kept >= 0, Len(volumes) > kept, img.scheme # "", ~img.trusted
      PROVE  img.scheme = "docker" /\ img.host \in Declared("insecure")
  <2>0. img.scheme = "docker"
    <3>1. kept \in Int /\ Len(volumes) \in Nat
      BY <1>0, Lengths DEF Types
    <3>2. Len(volumes) # kept
      BY <1>2, <3>1, Apart
    <3>3. Serves
      BY <1>0, <1>2, <3>2 DEF ServesInv
    <3>4. img.scheme \in {"", "docker", "oci"}
      BY <1>0, FetcherAssumption, Zenon DEF Types
    <3> QED
      BY <1>2, <3>3, <3>4 DEF Serves
  <2>1. cfg = Settings(flags) /\ Accepted(flags) /\ flags \in Flags
    BY <1>0, <1>2 DEF ConfigInv, Types
  <2>2. Admits(SystemContext)
    BY <1>0, <1>2 DEF AdmitInv
  <2>3. SystemContext.skipTLS
    BY <1>2, <2>0, <2>2 DEF Admits
  <2>4. img.host \in cfg.insecure
    BY <2>3 DEF SystemContext, CreateSystemContext, SkipTLSValidation
  <2>5. Settings(flags).insecure = Declared("insecure")
    BY <2>1, SettingsDeclared
  <2> QED
    BY <2>0, <2>1, <2>4, <2>5
<1>3. img.scheme = "" /\ volumes # <<>> => volumes[1].diff >= chain
  BY <1>0 DEF VolumeInv
<1>4. pc = "end" /\ ExitCode = 0 => Len(volumes) = Len(img.layers)
  <2>0. 0 # 1
    OBVIOUS
  <2>1. ExitCode = 0 => why = ""
    BY <2>0, Zenon DEF ExitCode
  <2> QED
    BY <1>0, <2>1 DEF PhaseInv, Late
<1> QED
  BY <1>1, <1>2, <1>3, <1>4 DEF VolumesGenuine

LEMMA InvQuota == Inv => QuotaKept
<1> SUFFICES ASSUME Inv, EnforceQuota, img.scheme # "", kept >= 0
             PROVE  quota >= 0 /\ Fetched =< cfg.limit
  BY DEF QuotaKept, Fetched
<1>0. Types /\ ConfigInv /\ Left /\ Spent
  BY DEF Inv, QuotaInv
<1>1. quota >= 0 /\ quota + Fetched + Pending =< cfg.limit
  BY <1>0 DEF Left, Spent
<1>2. quota \in Int /\ Fetched \in Nat /\ Pending \in Nat /\ cfg.limit \in Int
  BY <1>0, BlobIs, FetchedType, PendingType, LimitType, Zenon
<1> QED
  BY <1>1, <1>2, Within

LEMMA InvCause == Inv => RefusedForCause
BY DEF Inv, QuotaInv, Cause, Opened, RetryInv, RefusedForCause

LEMMA InvFiles == Inv => NothingLeft
BY DEF Inv, FileInv, NothingLeft, Late

LEMMA InvSettings == Inv => SettingsInForce
<1> SUFFICES ASSUME Inv PROVE SettingsInForce
  OBVIOUS
<1>0. flags \in Flags /\ ConfigInv /\ ChildInv
  BY DEF Inv, Types
<1>1. ASSUME cfg # ZeroConfig,
             NEW n \in {"store", "tardis", "uidmap", "gidmap", "metron", "log", "limit", "exclude",
                        "skip", "threshold", "insecure", "cleanLog"}
      PROVE  cfg[n] = Declared(n)
  <2>1. cfg = Settings(flags) /\ Accepted(flags)
    BY <1>0, <1>1 DEF ConfigInv
  <2> QED
    BY <1>0, <2>1, SettingsDeclared
<1>2. ASSUME NEW i \in DOMAIN child
      PROVE  /\ Build(child[i])
             /\ \A n \in {"store", "tardis", "uidmap", "gidmap", "metron", "threshold"} :
                  child[i][n] = Declared(n)
             /\ TranslateLogLevel(child[i].level) = TranslateLogLevel(Declared("level"))
             /\ child[i].log = Declared("cleanLog")
  <2>1. child # <<>>
    BY <1>2
  <2>2. child = <<CleanSettings(CleanArgs(cfg))>> /\ kept >= 0
    BY <1>0, <2>1 DEF ChildInv
  <2>3. cfg = Settings(flags) /\ Accepted(flags)
    BY <1>0, <2>2 DEF ConfigInv
  <2>4. PICK y : y = CleanSettings(CleanArgs(Settings(flags)))
    OBVIOUS
  <2>5. child[i] = y
    BY <1>2, <2>2, <2>3, <2>4
  <2> QED
    BY <1>0, <2>3, <2>4, <2>5, ChildDeclared
<1>3. ASSUME child # <<>> PROVE ~IsSet(flags, "withoutClean") /\ (IsSet(flags, "withClean") \/ Declared("clean"))
  <2>1. child = <<CleanSettings(CleanArgs(cfg))>> /\ kept >= 0
    BY <1>0, <1>3 DEF ChildInv
  <2>2. cfg = Settings(flags) /\ Accepted(flags)
    BY <1>0, <2>1 DEF ConfigInv
  <2>3. cfg.clean
    BY <1>0, <1>3 DEF ChildInv
  <2> QED
    BY <1>0, <2>2, <2>3, CleanDeclared DEF Wanted
<1> QED
  BY <1>1, <1>2, <1>3 DEF SettingsInForce

\* Types: the attempts of one request never exceed MAX_DOCKER_RETRIES and a
\* create has at most one temporary blob file, whatever fails.
THEOREM FetchTypes == Spec => []TypeOK
BY AlwaysInv, InvTypes, PTL

\* LayerSource.Blob's size and digest checks: only the content of a layer's
\* digest becomes its volume, unless an oci image is not validated; an
\* untrusted server, only a registry that the create names insecure; a local tar
\* is never older than its chain id; a create that ends with 0 has all layers.
THEOREM FetchedGenuine == Spec => []VolumesGenuine
BY AlwaysInv, InvVolumes, PTL

\* QuotaedReader and LayerSource.imageQuota: what a create with an inclusive
\* limit fetches never unpacks to more than the limit, for any sizes, any
\* chunks io.Copy reads and any sizes the registry claims.
THEOREM FetchedWithinLimit == Spec => []QuotaKept
BY AlwaysInv, InvQuota, PTL

\* QuotaedReader.Read and the retry loops: a create is refused for its limit
\* only if it is exceeded, and for its registry only when one request failed
\* MAX_DOCKER_RETRIES times.
THEOREM FailsForCause == Spec => []RefusedForCause
BY AlwaysInv, InvCause, PTL

\* The deferred calls of Blob, StreamBlob and Create: no blob file and no open
\* source is left by a create that ends by itself, but for the file it could
\* not open again.
THEOREM FilesRemoved == Spec => []NothingLeft
BY AlwaysInv, InvFiles, PTL

\* config.Builder and asyncCleaner.Clean: every setting in force is the
\* declared one; a clean is started only if asked for, and works with them.
THEOREM SettingsRight == Spec => []SettingsInForce
BY AlwaysInv, InvSettings, PTL
==============================================================================
