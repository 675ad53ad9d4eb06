------------------------------- MODULE Fetcher -------------------------------
(***************************************************************************)
(* How the layers of a base image reach the unpacker of one create: the    *)
(* layer fetcher and its source, which talk to a registry (docker) or to a *)
(* directory (oci), and the tar fetcher.  The registry may fail a request, *)
(* report a wrong size, cut a blob short or send another one; the retries, *)
(* size and digest checks and the reader that enforces the disk limit      *)
(* stand between it and the volumes of the store.                          *)
(***************************************************************************)
EXTENDS Config, Sequences, SequencesExt, FiniteSetsExt

CONSTANTS
  Images,    \* [scheme, host, trusted: is the certificate of its registry, or
             \*  (oci) of the servers that have its layers, login: what its
             \*  registry asks for, v1, layers: Seq of LayerInfo]
  Contents,  \* what a registry may send:
             \* [blob, diff: digests, csize, usize: sizes, form, cut: BOOLEAN]
  MAX_DOCKER_RETRIES,
  BufSize,   \* bytes io.Copy asks for at a time
  MaxFails,  \* bound: failing calls
  MaxEdits   \* bound: changes of a local tar file

UNKNOWN_LAYER_SIZE == -1
Raw == "tar"

\* groot.LayerInfo, the part of it that the fetchers use.
LayerInfo(l) == DOMAIN l = {"blob", "diff", "size", "media"}

NoContent == [blob |-> "", diff |-> "", csize |-> 0, usize |-> 0, form |-> "", cut |-> FALSE]

\* A digest is one of some content, and of no other.
ASSUME FetcherAssumption ==
  /\ MAX_DOCKER_RETRIES \in Nat \ {0} /\ BufSize \in Nat \ {0}
  /\ MaxFails \in Nat /\ MaxEdits \in Nat
  /\ \A c \in Contents : DOMAIN c = DOMAIN NoContent /\ c.csize \in Nat /\ c.usize \in Nat
  /\ \A c, d \in Contents : c.blob = d.blob => c = d
  /\ \A m \in Images :
       /\ m.scheme \in {"", "docker", "oci"} /\ m.layers \in Seq(Range(m.layers))
       /\ m.scheme = "" => Len(m.layers) = 1
       /\ \A k \in DOMAIN m.layers :
            /\ LayerInfo(m.layers[k]) /\ m.layers[k].size \in Int
            /\ \E c \in Contents : c.blob = m.layers[k].blob

VARIABLES
  flags,     \* the command line
  cfg,       \* the settings in force
  img,       \* the base image
  diffs,     \* diff ids of its layers, once known
  version,   \* the version (content and mtime) of a local tar file
  chain,     \* the version its chain id was made from
  pc,
  attempt,   \* failed requests in a row
  source,    \* the image source: "none", "open", "closed"
  quota,     \* LayerSource.imageQuota
  cur,       \* the blob being read: content, reported size, bytes copied
  tmp,       \* blob files in the temporary directory
  volumes,   \* contents of the layers in the store, bottom first
  kept,      \* history: how many of them Pull found, -1 before it
  why,       \* history: "" or why the create failed
  child,     \* settings of the clean it has started, <<>> or <<settings>>
  fails

vars == <<flags, child, cfg, img, diffs, version, chain, pc, attempt, source, quota, cur, tmp, volumes, kept, why, fails>>

NoBlob == [content |-> NoContent, reported |-> 0, copied |-> 0]

SkipValidation == cfg.skip /\ img.scheme = "oci"
EnforceQuota == ~(cfg.exclude \/ cfg.limit = 0)
Layer == img.layers[Len(volumes) + 1]
SumSizes(s) == FoldSeq(+, 0, s)

\* What comes out of the blob's reader for the layer's media type.
Unpacked(c, media) == IF media = Raw THEN [c EXCEPT !.diff = c.blob, !.usize = c.csize] ELSE c
Gunzips(media) == media \in {"", "gzip"}

\* The content a layer stands for: the one of its digest.
Genuine(layer) == CHOOSE c \in Contents : c.blob = layer.blob

\* Layers 1 .. n of the image are in the store already.
Init ==
  /\ flags \in Flags
  /\ img \in Images
  /\ \E n \in 0 .. Len(img.layers) :
       volumes = IF img.scheme = "" THEN <<>>
                 ELSE [k \in 1 .. n |-> Unpacked(Genuine(img.layers[k]), img.layers[k].media)]
  /\ cfg = ZeroConfig /\ child = <<>>
  /\ diffs = <<>> /\ version = 1 /\ chain = 0
  /\ pc = "config" /\ attempt = 0 /\ source = "none" /\ quota = 0
  /\ cur = NoBlob /\ tmp = 0 /\ kept = -1 /\ why = "" /\ fails = 0

\* From Pull on the create holds the global lock, which it gives back first.
Fail(reason) ==
  /\ why' = reason
  /\ pc' = IF pc \in {"config", "tarinfo", "image", "v1", "configblob"} THEN "close" ELSE "unlock"

CallFails == fails < MaxFails /\ fails' = fails + 1

\* Mutant of Retry: one attempt more.
RetryOnceMore(reason) ==
  /\ CallFails
  /\ attempt' = attempt + 1
  /\ IF attempt < MAX_DOCKER_RETRIES THEN UNCHANGED <<pc, why>> ELSE Fail(reason)

\* Mutant of Retry: one attempt less.
RetryOnceLess(reason) ==
  /\ CallFails
  /\ attempt' = attempt + 1
  /\ IF attempt + 2 < MAX_DOCKER_RETRIES THEN UNCHANGED <<pc, why>> ELSE Fail(reason)

\* A request that failed for the n-th time in a row is given up; its error
\* is what the create fails with.
Retry(reason) ==
  /\ CallFails
  /\ attempt' = attempt + 1
  /\ IF attempt + 1 < MAX_DOCKER_RETRIES THEN UNCHANGED <<pc, why>> ELSE Fail(reason)

------------------------------------------------------------------------------
(* Settings, manifest and config                                            *)

\* The flags and the file, and the log file.
LoadConfig ==
  /\ pc = "config"
  /\ IF Accepted(flags)
     THEN /\ cfg' = Settings(flags) /\ quota' = cfg'.limit
          /\ pc' = IF img.scheme = "" THEN "tarinfo" ELSE "image"
          /\ UNCHANGED why
     ELSE Fail("config") /\ UNCHANGED <<cfg, quota>>
  /\ UNCHANGED <<flags, child, kept, img, diffs, version, chain, attempt, source, cur, tmp, volumes, fails>>

LogFileFails ==
  /\ pc = "config" /\ Accepted(flags) /\ ConfigureLogger(Before(flags)).sink # "stderr"
  /\ CallFails /\ Fail("config")
  /\ UNCHANGED <<flags, child, kept, cfg, img, diffs, version, chain, attempt, source, quota, cur, tmp, volumes>>

\* A registry with a certificate nobody trusts is only used without TLS
\* validation; one that asks for a login gets the one of the command line.
\* The source of an oci image is a directory.
Admits(context) ==
  img.scheme = "docker" => (img.trusted \/ context.skipTLS) /\ img.login \in {"", context.login}

SystemContext == CreateSystemContext(img.scheme, img.host, cfg, Value(flags, "login"))

\* getImageSource: the source is created once and kept.
CreateImageSource ==
  /\ pc = "image" /\ source = "none" /\ Admits(SystemContext)
  /\ source' = "open"
  /\ UNCHANGED <<flags, child, kept, cfg, img, diffs, version, chain, pc, attempt, quota, cur, tmp, volumes, why, fails>>

\* It is asked for again, with the same answer, as often as any request.
CreateImageSourceRefused ==
  /\ pc = "image" /\ source = "none" /\ ~Admits(SystemContext)
  /\ attempt' = attempt + 1
  /\ IF attempt + 1 < MAX_DOCKER_RETRIES THEN UNCHANGED <<pc, why>> ELSE Fail("refused")
  /\ UNCHANGED <<flags, child, kept, cfg, img, diffs, version, chain, source, quota, cur, tmp, volumes, fails>>

\* getImageWithRetries: the manifest.
GetImage ==
  /\ pc = "image" /\ source = "open"
  /\ attempt' = 0
  /\ pc' = IF img.v1 THEN "v1" ELSE "configblob"
  /\ UNCHANGED <<flags, child, kept, cfg, img, diffs, version, chain, source, quota, cur, tmp, volumes, why, fails>>

\* The source cannot be made, or its manifest does not come.
GetImageFails ==
  /\ pc = "image" /\ Admits(SystemContext)
  /\ \E reason \in {"registry"} \cup (IF img.scheme = "oci" /\ source = "none" THEN {"no such file"} ELSE {}) :
       Retry(reason)
  /\ UNCHANGED <<flags, child, kept, cfg, img, diffs, version, chain, source, quota, cur, tmp, volumes>>

\* v1DiffID: the diff id is that of what the registry sends, gunzipped.
V1DiffID ==
  /\ pc = "v1" /\ Len(diffs) < Len(img.layers)
  /\ attempt' = 0
  /\ \E c \in Contents :
       IF c.form = "gzip" /\ ~c.cut
       THEN diffs' = Append(diffs, c.diff) /\ UNCHANGED <<pc, why>>
       ELSE Fail("corrupt") /\ UNCHANGED diffs
  /\ UNCHANGED <<flags, child, kept, cfg, img, version, chain, source, quota, cur, tmp, volumes, fails>>

ConvertImage ==
  /\ pc = "v1" /\ Len(diffs) = Len(img.layers)
  /\ pc' = "configblob"
  /\ UNCHANGED <<flags, child, kept, cfg, img, diffs, version, chain, attempt, source, quota, cur, tmp, volumes, why, fails>>

\* ConfigBlob; createLayerInfos takes the diff ids from it, and a chain id
\* stands for the diff ids up to its layer.
ConfigBlob ==
  /\ pc = "configblob"
  /\ attempt' = 0
  /\ diffs' = IF img.v1 THEN diffs ELSE [k \in DOMAIN img.layers |-> img.layers[k].diff]
  /\ pc' = "pull"
  /\ UNCHANGED <<flags, child, kept, cfg, img, version, chain, source, quota, cur, tmp, volumes, why, fails>>

RequestFails ==
  /\ pc \in {"v1", "configblob"}
  /\ Retry("registry")
  /\ UNCHANGED <<flags, child, kept, cfg, img, diffs, version, chain, source, quota, cur, tmp, volumes>>

\* Pull: quotaExceeded adds up the sizes of the manifest (-1 for each layer
\* of a V1 image); buildLayer starts above the layers it finds by chain id.
Pull ==
  /\ pc = "pull"
  /\ LET sizes == [k \in DOMAIN img.layers |-> img.layers[k].size]
         known == {n \in 0 .. Len(volumes) : \A k \in 1 .. n : volumes[k].diff = diffs[k]}
     IN IF EnforceQuota /\ SumSizes(sizes) > cfg.limit
        THEN Fail("quota") /\ kept' = Len(volumes) /\ UNCHANGED volumes
        ELSE /\ pc' = "layer" /\ kept' = Max(known)
             /\ volumes' = SubSeq(volumes, 1, Max(known)) /\ UNCHANGED why
  /\ UNCHANGED <<flags, child, cfg, img, diffs, version, chain, attempt, source, quota, cur, tmp, fails>>

PullDone ==
  /\ pc = "layer" /\ Len(volumes) = Len(img.layers)
  /\ pc' = "unlock"
  /\ UNCHANGED <<flags, child, kept, cfg, img, diffs, version, chain, attempt, source, quota, cur, tmp, volumes, why, fails>>

------------------------------------------------------------------------------
(* LayerSource.Blob                                                         *)

More == img.scheme # "" /\ Len(volumes) < Len(img.layers)

\* The servers of an oci image's layers: no setting makes the client accept
\* their certificates.
Serves == img.scheme = "oci" => img.trusted

\* getBlobWithRetries: a stream of some content, and the size reported for it.
GetBlob ==
  /\ pc = "layer" /\ More /\ Serves
  /\ \E c \in Contents : \E r \in {c.csize, Layer.size, UNKNOWN_LAYER_SIZE} :
       cur' = [content |-> c, reported |-> r, copied |-> 0]
  /\ attempt' = 0 /\ pc' = "opened"
  /\ UNCHANGED <<flags, child, kept, cfg, img, diffs, version, chain, source, quota, tmp, volumes, why, fails>>

GetBlobFails ==
  /\ pc = "layer" /\ More /\ Serves
  /\ Retry("registry")
  /\ UNCHANGED <<flags, child, kept, cfg, img, diffs, version, chain, source, quota, cur, tmp, volumes>>

GetBlobRefused ==
  /\ pc = "layer" /\ More /\ ~Serves
  /\ attempt' = attempt + 1
  /\ IF attempt + 1 < MAX_DOCKER_RETRIES THEN UNCHANGED <<pc, why>> ELSE Fail("refused")
  /\ UNCHANGED <<flags, child, kept, cfg, img, diffs, version, chain, source, quota, cur, tmp, volumes, fails>>

\* V1 images have no sizes, and a registry may not know one.
ValidateLayerSize(size) ==
  SkipValidation \/ Layer.size = -1 \/ size = UNKNOWN_LAYER_SIZE \/ Layer.size = size

\* The reported size is checked, the temporary file made, and a gzip header
\* read if the media type says so.  What fails later removes the file.
OpenBlob ==
  /\ pc = "opened"
  /\ IF ~ValidateLayerSize(cur.reported) THEN Fail("corrupt") /\ UNCHANGED tmp
     ELSE IF Gunzips(Layer.media) /\ cur.content.form # "gzip" THEN Fail("corrupt") /\ UNCHANGED tmp
     ELSE pc' = "copy" /\ tmp' = tmp + 1 /\ UNCHANGED why
  /\ UNCHANGED <<flags, child, kept, cfg, img, diffs, version, chain, attempt, source, quota, cur, volumes, fails>>

\* QuotaedReader.Read asks for one byte more than is left, to notice it.
Ask(left) == IF EnforceQuota /\ BufSize > left THEN left + 1 ELSE BufSize

\* Mutant of Exceeds: a read that uses up the quota is refused.
ExceedsEagerly(n, left) == EnforceQuota /\ n >= left

Exceeds(n, left) == EnforceQuota /\ n > left

\* io.Copy: a read returns some of the bytes asked for.
CopyChunk ==
  /\ pc = "copy"
  /\ LET size == Unpacked(cur.content, Layer.media).usize
         left == quota - cur.copied
     IN \E n \in 1 .. BufSize :
          /\ n <= Ask(left) /\ n <= size - cur.copied
          /\ IF Exceeds(n, left)
             THEN Fail("quota") /\ tmp' = tmp - 1 /\ UNCHANGED cur
             ELSE cur' = [cur EXCEPT !.copied = @ + n] /\ UNCHANGED <<pc, why, tmp>>
  /\ UNCHANGED <<flags, child, kept, cfg, img, diffs, version, chain, attempt, source, quota, volumes, fails>>

\* Nothing comes any more: the end of the content, a blob cut short, or
\* a format the decompressor rejects.
CopyEnds ==
  /\ pc = "copy"
  /\ LET c == cur.content
         ended == cur.copied = Unpacked(c, Layer.media).usize
     IN /\ ended
        /\ IF (Layer.media = Raw \/ (~c.cut /\ (Layer.media = "zstd" => c.form = "zstd")))
           THEN pc' = "check" /\ UNCHANGED <<why, tmp, cur>>
           ELSE Fail("corrupt") /\ tmp' = tmp - 1 /\ cur' = NoBlob
  /\ UNCHANGED <<flags, child, kept, cfg, img, diffs, version, chain, attempt, source, quota, volumes, fails>>

\* Mutant of CheckCheckSum: skipped for every image when validation is off.
CheckCheckSumLoose(actual, digest) == cfg.skip \/ actual = digest

CheckCheckSum(actual, digest) == SkipValidation \/ actual = digest

\* Mutant of CheckBlob: the file of a blob that fails a check stays.
CheckBlobKeepsFile ==
  /\ pc = "check"
  /\ LET c == Unpacked(cur.content, Layer.media)
     IN IF /\ ValidateLayerSize(c.csize) /\ CheckCheckSum(c.blob, Layer.blob)
           /\ CheckCheckSum(c.diff, diffs[Len(volumes) + 1])
        THEN pc' = "reader" /\ quota' = quota - cur.copied /\ UNCHANGED <<why, tmp, cur>>
        ELSE Fail("corrupt") /\ cur' = NoBlob /\ UNCHANGED <<quota, tmp>>
  /\ UNCHANGED <<flags, child, kept, cfg, img, diffs, version, chain, attempt, source, volumes, fails>>

\* Mutant of CheckBlob: the quota is charged the compressed size.
CheckBlobCheap ==
  /\ pc = "check"
  /\ LET c == Unpacked(cur.content, Layer.media)
     IN IF /\ ValidateLayerSize(c.csize) /\ CheckCheckSum(c.blob, Layer.blob)
           /\ CheckCheckSum(c.diff, diffs[Len(volumes) + 1])
        THEN pc' = "reader" /\ quota' = quota - c.csize /\ UNCHANGED <<why, tmp, cur>>
        ELSE Fail("corrupt") /\ tmp' = tmp - 1 /\ cur' = NoBlob /\ UNCHANGED quota
  /\ UNCHANGED <<flags, child, kept, cfg, img, diffs, version, chain, attempt, source, volumes, fails>>

\* The size counted, the digest of the blob and the digest of its content;
\* then the quota is charged what was written.
CheckBlob ==
  /\ pc = "check"
  /\ LET c == Unpacked(cur.content, Layer.media)
     IN IF /\ ValidateLayerSize(c.csize) /\ CheckCheckSum(c.blob, Layer.blob)
           /\ CheckCheckSum(c.diff, diffs[Len(volumes) + 1])
        THEN pc' = "reader" /\ quota' = quota - cur.copied /\ UNCHANGED <<why, tmp, cur>>
        ELSE Fail("corrupt") /\ tmp' = tmp - 1 /\ cur' = NoBlob /\ UNCHANGED quota
  /\ UNCHANGED <<flags, child, kept, cfg, img, diffs, version, chain, attempt, source, volumes, fails>>

------------------------------------------------------------------------------
(* StreamBlob, unpacking, the end of the command                            *)

\* Unpacked or not, the stream is closed, which removes the file.
Unpack ==
  /\ pc = "reader"
  /\ volumes' = Append(volumes, Unpacked(cur.content, Layer.media))
  /\ tmp' = tmp - 1 /\ cur' = NoBlob /\ pc' = "layer"
  /\ UNCHANGED <<flags, child, kept, cfg, img, diffs, version, chain, attempt, source, quota, why, fails>>

UnpackFails ==
  /\ pc = "reader" /\ CallFails
  /\ tmp' = tmp - 1 /\ cur' = NoBlob /\ Fail("unpack")
  /\ UNCHANGED <<flags, child, kept, cfg, img, diffs, version, chain, attempt, source, quota, volumes>>

\* NewBlobReader cannot open the file: nobody removes it.
NewBlobReaderFails ==
  /\ pc = "reader" /\ CallFails
  /\ cur' = NoBlob /\ Fail("reader")
  /\ UNCHANGED <<flags, child, kept, cfg, img, diffs, version, chain, attempt, source, quota, tmp, volumes>>

\* The deferred function of Create: the lock is given back and, whether or
\* not there is an image, a clean started and not waited for.
ScheduleClean ==
  /\ pc = "unlock"
  /\ pc' = "close"
  /\ child' = IF cfg.clean THEN <<CleanSettings(CleanArgs(cfg))>> ELSE <<>>
  /\ UNCHANGED <<flags, kept, cfg, img, diffs, version, chain, attempt, source, quota, cur, tmp, volumes, why, fails>>

\* A clean that cannot be started is what the create then fails with.
ScheduleCleanFails ==
  /\ pc = "unlock" /\ cfg.clean /\ CallFails
  /\ why' = "clean" /\ pc' = "close"
  /\ UNCHANGED <<flags, child, kept, cfg, img, diffs, version, chain, attempt, source, quota, cur, tmp, volumes>>

\* The deferred Close of the fetcher, on every return.
Close ==
  /\ pc = "close"
  /\ source' = IF source = "open" THEN "closed" ELSE source
  /\ pc' = "end"
  /\ UNCHANGED <<flags, child, kept, cfg, img, diffs, version, chain, attempt, quota, cur, tmp, volumes, why, fails>>

\* A killed process closes its connections; its files stay.
Kill ==
  /\ pc \notin {"config", "end"} /\ CallFails
  /\ why' = "killed" /\ pc' = "end" /\ source' = "closed"
  /\ UNCHANGED <<flags, child, kept, cfg, img, diffs, version, chain, attempt, quota, cur, tmp, volumes>>

------------------------------------------------------------------------------
(* TarFetcher: the layer is a local file that may change at any time        *)

EditTar ==
  /\ img.scheme = "" /\ version <= MaxEdits
  /\ version' = version + 1
  /\ UNCHANGED <<flags, child, kept, cfg, img, diffs, chain, pc, attempt, source, quota, cur, tmp, volumes, why, fails>>

\* BaseImageInfo: the chain id hashes path and modification time.
TarBaseImageInfo ==
  /\ pc = "tarinfo"
  /\ chain' = version /\ diffs' = <<version>> /\ pc' = "pull"
  /\ UNCHANGED <<flags, child, kept, cfg, img, version, attempt, source, quota, cur, tmp, volumes, why, fails>>

\* Mutant of TarStreamBlob: the content is the one before the last change.
TarStreamBlobCached ==
  /\ pc = "layer" /\ img.scheme = "" /\ volumes = <<>>
  /\ volumes' = <<[Genuine(Layer) EXCEPT !.diff = version - 1]>>
  /\ UNCHANGED <<flags, child, kept, cfg, img, diffs, version, chain, pc, attempt, source, quota, cur, tmp, why, fails>>

\* StreamBlob: whatever the file holds now is unpacked.
TarStreamBlob ==
  /\ pc = "layer" /\ img.scheme = "" /\ volumes = <<>>
  /\ volumes' = <<[Genuine(Layer) EXCEPT !.diff = version]>>
  /\ UNCHANGED <<flags, child, kept, cfg, img, diffs, version, chain, pc, attempt, source, quota, cur, tmp, why, fails>>

\* The file is missing, a directory (only StreamBlob looks) or cannot be
\* opened.
TarFails ==
  /\ pc \in {"tarinfo", "layer"} /\ img.scheme = "" /\ volumes = <<>>
  /\ CallFails
  /\ \E reason \in {"tar"} \cup (IF pc = "layer" THEN {"directory"} ELSE {}) : Fail(reason)
  /\ UNCHANGED <<flags, child, kept, cfg, img, diffs, version, chain, attempt, source, quota, cur, tmp, volumes>>

------------------------------------------------------------------------------

Manifest ==
  CreateImageSource \/ CreateImageSourceRefused \/ GetImage \/ GetImageFails \/ V1DiffID \/ ConvertImage \/ ConfigBlob \/ RequestFails
Blob == GetBlob \/ GetBlobFails \/ GetBlobRefused \/ OpenBlob \/ CopyChunk \/ CopyEnds \/ CheckBlob
StreamBlob == Blob \/ Unpack \/ UnpackFails \/ NewBlobReaderFails
Tar == TarBaseImageInfo \/ TarStreamBlob \/ TarFails \/ EditTar

Next ==
  \/ LoadConfig \/ LogFileFails \/ Manifest \/ Pull \/ PullDone \/ StreamBlob \/ Tar
  \/ ScheduleClean \/ ScheduleCleanFails \/ Close \/ Kill

Spec == Init /\ [][Next]_vars

------------------------------------------------------------------------------

\* The variables have the types their comments give.
TypeOK ==
  /\ img \in Images
  /\ Len(diffs) <= Len(img.layers) /\ Len(volumes) <= Len(img.layers)
  /\ attempt \in 0 .. MAX_DOCKER_RETRIES
  /\ source \in {"none", "open", "closed"}
  /\ tmp \in 0 .. 1
  /\ cur.copied \in Nat

\* The status a create that ends by itself ends with.
ExitCode == IF why = "" THEN 0 ELSE 1

\* The layers fetched for a create with an inclusive limit never unpack to
\* more than the limit, and what is left of it is never negative (a reader
\* built on less than -1 would slice out of range).
QuotaKept ==
  EnforceQuota /\ img.scheme # "" /\ kept >= 0 =>
    /\ quota >= 0
    /\ SumSizes([k \in 1 .. Len(volumes) - kept |-> volumes[kept + k].usize]) <= cfg.limit

\* A create fails only for cause.  For its limit, only if its layers really
\* exceed it: a last layer that fills the quota to the byte is accepted, and
\* layers already in the store are charged by the manifest's sizes only.  On
\* the registry, only when one request failed MAX_DOCKER_RETRIES times in a
\* row.
RefusedForCause ==
  /\ why = "quota" =>
       \/ SumSizes([k \in DOMAIN img.layers |-> img.layers[k].size]) > cfg.limit
       \/ cur # NoBlob /\ Unpacked(cur.content, Layer.media).usize > quota
  /\ why \in {"registry", "no such file"} => fails >= MAX_DOCKER_RETRIES /\ attempt = MAX_DOCKER_RETRIES

\* What a setting is declared to be: the flag, else the file's, else the
\* default.
Declared(n) ==
  LET path == Value(flags, "config")
  IN IF IsSet(flags, n) THEN flags[n]
     ELSE IF path # "" /\ n \in DOMAIN Files[path] THEN Files[path][n]
     ELSE IF n \in DOMAIN FlagDefaults THEN FlagDefaults[n]
     ELSE ZeroConfig[n]

\* Layers 1 .. k of the store are this image's, as its chain ids say: what
\* a registry sent in place of a layer never becomes a volume, through any
\* number of retries, wrong sizes and V1 conversions, unless validation is
\* off, which only an oci image may have.  What a server with an untrusted
\* certificate sent becomes one only if it is a registry and the list in
\* force, the command line's if it has one, names it.  The volume of a local tar
\* file is never older than its chain id says: a create after a change never
\* yields the content before it.  All layers are there when the create ends
\* with 0.
VolumesGenuine ==
  /\ img.scheme \notin {"", "oci"} \/ ~cfg.skip =>
       \A k \in DOMAIN volumes :
         img.scheme # "" => volumes[k] = Unpacked(Genuine(img.layers[k]), img.layers[k].media)
  /\ kept >= 0 /\ Len(volumes) > kept /\ img.scheme # "" /\ ~img.trusted
       => img.scheme = "docker" /\ img.host \in Declared("insecure")
  /\ img.scheme = "" /\ volumes # <<>> => volumes[1].diff >= chain
  /\ pc = "end" /\ ExitCode = 0 => Len(volumes) = Len(img.layers)

\* A create works with the settings declared for it, none of which is lost
\* or overridden on the way through two builders, and starts a clean only if
\* told to, which --without-clean revokes; the clean it starts works
\* on the same store, with the same binaries, endpoint, log level and
\* threshold, although it never sees the create's configuration file, and
\* logs to the file meant for it.
SettingsInForce ==
  /\ cfg # ZeroConfig =>
       \A n \in {"store", "tardis", "uidmap", "gidmap", "metron", "log", "limit", "exclude",
                 "skip", "threshold", "insecure", "cleanLog"} : cfg[n] = Declared(n)
  /\ child # <<>> => ~IsSet(flags, "withoutClean") /\ (IsSet(flags, "withClean") \/ Declared("clean"))
  /\ \A i \in DOMAIN child :
       /\ Build(child[i])
       /\ \A n \in {"store", "tardis", "uidmap", "gidmap", "metron", "threshold"} :
            child[i][n] = Declared(n)
       /\ TranslateLogLevel(child[i].level) = TranslateLogLevel(Declared("level"))
       /\ child[i].log = Declared("cleanLog")

\* "Clean up unused layers before creating rootfs" (commands/create.go, of
\* --with-clean): what a create brings into a store that is to be cleaned
\* first comes after the clean has been started.
CleanBeforeCreate == kept >= 0 /\ cfg.clean /\ Len(volumes) > kept => child # <<>>

\* A create that ends by itself leaves no blob file behind, and no source
\* open, whatever failed; but for a file it could not open again, a failure
\* that the one of starting a clean may replace.
NothingLeft ==
  pc = "end" => source # "open" /\ (why \notin {"killed", "reader", "clean"} => tmp = 0)
==============================================================================
