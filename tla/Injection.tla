------------------------------ MODULE Injection ------------------------------
(***************************************************************************)
(* How InjectorLoadMods makes the game load a super mod: it builds the     *)
(* archive (ResourceArchive), lists it in packagemapspec.json              *)
(* (PackageMapSpec), and enters it into the container mask, the only       *)
(* resource of meta.resources; PatchManifest then has the manifest list    *)
(* the files as they are now (ManifestPatcher).  The files must agree, and *)
(* nothing tells the next step that the one before it failed.              *)
(*                                                                         *)
(* Both game files are whole when the steps begin: they have just been     *)
(* restored from their backups or copied to them (module Loader, which     *)
(* also has the runs on damaged files).                                    *)
(***************************************************************************)
EXTENDS ResourceArchive, PackageMapSpec, ManifestPatcher

CONSTANTS
  DataLengths,    \* lengths of a mod file's data
  MaxModFiles,    \* bound: mod files of the super mod
  LongBits,       \* the bits of a long of the mask: 64
  Hashes,         \* hashes of the game's own archives
  CounterAt,      \* which word of 4 bytes counts the entries of a container mask:
                  \* the 2nd in the Eternal build, the 1st without DOOMETERNAL
  GameMasks,      \* the container masks the game may ship
  PackedSize,     \* what such a mask takes when it is compressed
  GarbageCounts,  \* what may be read for numResources from a torn header
  Manifests,      \* file tables the game may ship
  OtherFiles,     \* sizes of the files of the game that stay as they are
  LineSize,       \* what an element of a list takes in packagemapspec.json
  Pms, Meta,      \* the paths of the two files in the manifest
  NoArchive, TornArchive, TornMeta, Garbage

(* An entry of the mask: where it begins, the hash, and how many longs of  *)
(* bits follow.                                                            *)
Entry == [at : Nat, hash : Hashes, longs : Nat]
Mask == [counters : [1 .. CounterAt -> Nat], table : Seq(Entry), size : Nat]

(* A reader of a mask whose c-th word counts its entries: each entry is a  *)
(* hash of 8 bytes, a counter of 4 and so many longs, it begins where the  *)
(* one before it ends, and when all are read no byte is left.              *)
EndOf(entry) == entry.at + SizeOfLong + 4 + entry.longs * SizeOfLong

EndOfFirst(mask, n, c) == IF n = 0 THEN 4 * c ELSE EndOf(mask.table[n])

ReadToItsEnd(mask, c) ==
  LET hashCount == mask.counters[c] IN
    /\ hashCount = Len(mask.table)
    /\ \A k \in DOMAIN mask.table : mask.table[k].at = EndOfFirst(mask, k - 1, c)
    /\ mask.size = EndOfFirst(mask, hashCount, c)

(* The only reader in the repository: the count is the first word.         *)
Test_ContainerMask(mask) == ReadToItsEnd(mask, 1)

ASSUME InjectionAssumption ==
  /\ DataLengths \cup GarbageCounts \cup {LineSize, PackedSize, MaxModFiles} \subseteq Nat
  /\ LongBits \in Nat \ {0}
  /\ CounterAt \in {1, 2}
  /\ GameMasks \subseteq Mask
  /\ \A mask \in GameMasks : ReadToItsEnd(mask, CounterAt)
  /\ OtherFiles \in [DOMAIN OtherFiles -> Nat]
  /\ {Pms, Meta} \cap DOMAIN OtherFiles = {}
  /\ DOMAIN ModDir \cap ({Pms, Meta} \cup DOMAIN OtherFiles) = {}

VARIABLES
  supermod,  \* the mod files, each once, in the order of the unordered_map
  archive,   \* base/modarchives/common_mod.resources
  meta,      \* base/meta.resources: its entry, and the mask it unpacks to
  manifest,  \* the table of build-manifest.bin
  pc,        \* "build", "inject", "mask", "manifest", "done", or "died"
  failed,    \* some write or allocation has failed
  repacked   \* the manifest patcher has succeeded

injectionVars == <<vars, supermod, archive, meta, manifest, pc, failed, repacked>>

-----------------------------------------------------------------------------
(* Faulty variant: the bits that do not fill a long are left out.          *)
bitmasklongsFull(n) == n \div LongBits

bitmasklongs(n) == n \div LongBits + (IF n % LongBits = 0 THEN 0 ELSE 1) + 1

extraSize(longs) == SizeOfLong + 4 + longs * SizeOfLong

ShippedMeta ==
  {[compMode |-> mode, mask |-> mask,
    dataSize |-> IF mode = 0 THEN mask.size ELSE PackedSize] :
     mode \in {0, 2, 4}, mask \in GameMasks}

IsSuperMod(s) ==
  /\ Len(s) > 0
  /\ \A j, k \in DOMAIN s : s[j].assetPath = s[k].assetPath => j = k

SuperMods ==
  {s \in UNION {[1 .. n -> [assetPath : Assets, dataLength : DataLengths]] :
                  n \in 1 .. MaxModFiles} : IsSuperMod(s)}

ASSUME MarkersAssumption ==
  \A s \in SuperMods : BuildArchive(s) \notin {NoArchive, TornArchive}

InjectionInit ==
  /\ Init
  /\ supermod \in SuperMods
  /\ archive = NoArchive
  /\ meta \in ShippedMeta
  /\ manifest \in Manifests
  /\ pc = "build"
  /\ failed = FALSE /\ repacked = FALSE

-----------------------------------------------------------------------------
(* Faulty variant: the manifest is patched before the mask is rebuilt.     *)
SuccessorManifestFirst ==
  [build |-> "inject", inject |-> "manifest", manifest |-> "mask", mask |-> "done"]

Successor ==
  [build |-> "inject", inject |-> "mask", mask |-> "manifest", manifest |-> "done"]

Proceed == pc' = Successor[pc]

(* A stream that could not be opened or written is not noticed.            *)
Build ==
  /\ pc = "build"
  /\ \/ archive' = BuildArchive(supermod) /\ UNCHANGED failed
     \/ archive' \in {NoArchive, TornArchive} /\ failed' = TRUE
  /\ Proceed
  /\ UNCHANGED <<vars, supermod, meta, manifest, repacked>>

InjectCommonArchive ==
  /\ pc = "inject"
  /\ Next
  /\ UNCHANGED <<supermod, archive, meta, manifest, pc, failed, repacked>>

(* The file is not opened for writing, and nobody notices.                 *)
InjectNotWritten ==
  /\ pc = "inject" /\ step = "write"
  /\ step' = "injected"
  /\ failed' = TRUE
  /\ UNCHANGED <<pms, parsed, i, commas, supermod, archive, meta, manifest, pc, repacked>>

Injected ==
  /\ pc = "inject" /\ step = "injected"
  /\ Proceed
  /\ UNCHANGED <<vars, supermod, archive, meta, manifest, failed, repacked>>

(* What GetContainerMaskHash may make of the archive: of one that is torn  *)
(* or missing it reads a header nobody has initialised.                    *)
NewEntries ==
  IF archive \in {NoArchive, TornArchive}
    THEN [hash : {Garbage}, numResources : GarbageCounts]
    ELSE {GetContainerMaskHash(archive)}

Extended(mask, newentry, counters) ==
  LET longs == bitmasklongs(newentry.numResources) IN
    [counters |-> counters,
     table |-> Append(mask.table, [at |-> mask.size, hash |-> newentry.hash, longs |-> longs]),
     size |-> mask.size + extraSize(longs)]

Stored(mask) == [compMode |-> 0, mask |-> mask, dataSize |-> mask.size]

(* Faulty variant: the counter is not rewritten.                           *)
RebuiltUncounted(newentry) ==
  Stored(Extended(meta.mask, newentry, meta.mask.counters))

(* The mask is unpacked, its counter rewritten, and the new entry put      *)
(* right after it; all of it is then stored uncompressed.                  *)
Rebuilt(newentry) ==
  Stored(Extended(meta.mask, newentry, [meta.mask.counters EXCEPT ![CounterAt] = @ + 1]))

RebuildContainerMask ==
  /\ pc = "mask"
  /\ meta.compMode \in {0, 2}
  /\ \E newentry \in NewEntries :
       \/ meta' = Rebuilt(newentry) /\ UNCHANGED failed
       \/ meta' = TornMeta /\ failed' = TRUE
  /\ Proceed
  /\ UNCHANGED <<vars, supermod, archive, manifest, repacked>>

(* An early return: an unknown compression mode, the file not opened, no   *)
(* memory, or nothing decompressed.                                        *)
RebuildReturns ==
  /\ pc = "mask"
  /\ failed' = TRUE
  /\ Proceed
  /\ UNCHANGED <<vars, supermod, archive, meta, manifest, repacked>>

(* The parser throws where it cannot read the file; a length made of       *)
(* garbage cannot be allocated.  main says so and ends.                    *)
Dies ==
  /\ \/ pc = "inject" /\ step = "parse"
     \/ pc = "mask" /\ archive \in {NoArchive, TornArchive}
  /\ pc' = "died"
  /\ failed' = TRUE
  /\ UNCHANGED <<vars, supermod, archive, meta, manifest, repacked>>

(* The files of the game and their sizes; of a torn one some of it.        *)
Disk ==
  [p \in {Pms, Meta} \cup DOMAIN OtherFiles |->
     IF p = Pms THEN LineSize * (Len(pms.files) + Len(pms.mapFileRefs))
     ELSE IF p = Meta THEN (IF meta = TornMeta THEN 1 ELSE meta.dataSize)
     ELSE OtherFiles[p]]

PatchManifest ==
  /\ pc = "manifest"
  /\ manifest' = optimizeBuildManifest(manifest, Disk)
  /\ repacked' = TRUE
  /\ Proceed
  /\ UNCHANGED <<vars, supermod, archive, meta, failed>>

(* "Manifest patcher returned non-zero exit code".                         *)
PatchManifestFails ==
  /\ pc = "manifest"
  /\ Proceed
  /\ UNCHANGED <<vars, supermod, archive, meta, manifest, failed, repacked>>

InjectionNext ==
  \/ Build \/ InjectCommonArchive \/ InjectNotWritten \/ Injected
  \/ RebuildContainerMask \/ RebuildReturns \/ Dies
  \/ PatchManifest \/ PatchManifestFails

InjectionSpec == InjectionInit /\ [][InjectionNext]_injectionVars

-----------------------------------------------------------------------------
(* The types of the variables.                                             *)
InjectionTypeOK ==
  /\ TypeOK
  /\ IsSuperMod(supermod)
  /\ archive \in {NoArchive, TornArchive, BuildArchive(supermod)}
  /\ pc \in {"build", "inject", "mask", "manifest", "done", "died"}
  /\ failed \in BOOLEAN /\ repacked \in BOOLEAN

IsArchive == archive \notin {NoArchive, TornArchive}

(* Read_ResourceArchive and Get_EntryData find in the archive what         *)
(* BuildArchive meant to put there, and no block overlaps another one.     *)
ArchiveReadsBack ==
  IsArchive =>
    /\ ReadsBack(archive)
    /\ Aligned(archive)
    /\ \A v, w \in archive.file : v = w \/ v.end <= w.start \/ w.end <= v.start

(* GetContainerMaskHash hashes the entries, the strings and the indices,   *)
(* whole, up to and including IDCL: its asserts on the last four bytes.    *)
HashEndsAtIDCL ==
  IsArchive =>
    LET hashed == GetContainerMaskHash(archive).hash IN
      /\ hashed.whole
      /\ hashed.pieces = {w.what : w \in archive.file}
           \ ({Piece("header", 0), Piece("idcl padding", 0)}
              \cup {Piece("data", k) : k \in DOMAIN supermod})

(* Whatever failed before it, a mask that is whole is read to its end by   *)
(* Test_ContainerMask: as many entries as its first word says, and not a   *)
(* byte more.  It reads the file as meta.resources has it, so what is      *)
(* stored uncompressed must be all of the mask.  (A property of the build  *)
(* without DOOMETERNAL: in the other one the first word counts nothing.)   *)
MaskReadsToItsEnd ==
  meta # TornMeta =>
    /\ Test_ContainerMask(meta.mask)
    /\ meta.compMode = 0 => meta.dataSize = meta.mask.size

Listed == /\ pms.files # <<>> /\ pms.files[1] = NewArchive
          /\ Head(ArchivesOf(pms)[CommonMap]) = NewArchive

(* When all has been done and nothing has failed, the game loads the       *)
(* archive: the spec lists it first, and among the entries that the mask   *)
(* counts is one with its hash and a bit for each of its resources.        *)
FilesAgree ==
  pc = "done" /\ ~failed =>
    /\ IsArchive
    /\ Listed
    /\ \E k \in DOMAIN meta.mask.table :
         /\ k <= meta.mask.counters[CounterAt]
         /\ meta.mask.table[k].hash = GetContainerMaskHash(archive).hash
         /\ meta.mask.table[k].longs * LongBits >= archive.header.numResources

(* Whatever failed before it, a manifest that has been repacked describes  *)
(* the files the loader has written as they are on the disk.               *)
ManifestListsDisk ==
  pc = "done" /\ repacked =>
    \A p \in DOMAIN manifest \cap DOMAIN Disk : Describes(manifest[p], Disk[p])

(* Audit_ResourceArchive asserts this of every archive BuildArchive is     *)
(* about to write: "Insure string indices are in-bounds".                  *)
AuditedStrings == IsArchive => StringsInBounds(archive)
=============================================================================
