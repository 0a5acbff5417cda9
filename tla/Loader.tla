------------------------------- MODULE Loader -------------------------------
(***************************************************************************)
(* The life of a modded game directory over many runs of AtlanModLoader    *)
(* (LoaderMain.cpp).  One run is InjectorMain: read the cache and hash the *)
(* build manifest, run the executable patcher, save the cache, then        *)
(* InjectorLoadMods (create, refresh or restore the backups, delete the    *)
(* old archive, build a new one, inject it into packagemapspec.json and    *)
(* into the container mask of meta.resources), then PatchManifest.         *)
(*                                                                         *)
(* Between runs the game may be updated or verified, the user may change   *)
(* the mods or lose a file.  During a run any write may fail (the code     *)
(* ignores or only logs it) and the process may be killed at any point.    *)
(*                                                                         *)
(* A file's contents are abstracted to the vanilla version it comes from,  *)
(* the archives injected into it since, and the mark by which the loader   *)
(* recognises a modded file.                                               *)
(***************************************************************************)
EXTENDS Sequences, Integers

CONSTANTS
  Releases,      \* releases of the game; a release also names the manifest it ships
  FileVersion,   \* FileVersion[r][f]: the vanilla version of file f in release r
  FirstRelease,  \* the release installed at first
  Mods,          \* what the mods folder may consolidate to, besides NoMods
  NoMods,        \* no mod file survives reading: the supermod is empty
  Nonces,        \* images of a re-encrypted manifest, one per random nonce
  TornManifests, \* images of a manifest whose write was interrupted
  NoHash,        \* the default manifesthash of LoaderCache_t
  Torn,          \* the version of a file whose write was interrupted
  Absent,        \* the version of a file that does not exist
  TornArchive,   \* a partially written common_mod.resources
  NoArchive,     \* no common_mod.resources
  MaxInjections, \* bound: archives injected into one file
  MaxFaults      \* bound: MaxFaults[k] faults of kind k

Pms   == "packagemapspec.json"
Meta  == "meta.resources"
Files == {Pms, Meta}

FaultKinds == {"kill", "io", "loss"}

Versions == {FileVersion[r][f] : r \in Releases, f \in Files}

ASSUME ConstantsAssumption ==
  /\ FirstRelease \in Releases
  /\ FileVersion \in [Releases -> [Files -> Versions]]
  /\ NoMods \notin Mods
  /\ Torn \notin Versions /\ Absent \notin Versions /\ Torn # Absent
  /\ Nonces \cap Releases = {}
  /\ TornManifests \cap (Releases \cup Nonces) = {}
  /\ NoHash \notin Releases \cup Nonces \cup TornManifests
  /\ TornArchive \notin Mods /\ NoArchive \notin Mods /\ NoArchive # TornArchive
  /\ MaxInjections \in Nat
  /\ MaxFaults \in [FaultKinds -> Nat]

VARIABLES
  release,     \* the installed release of the game
  mods,        \* what the mods folder holds
  orig,        \* base/packagemapspec.json and base/meta.resources
  backup,      \* their .backup copies
  archive,     \* base/modarchives/common_mod.resources
  manifest,    \* the contents of build-manifest.bin
  manifestAt,  \* the directory it is in
  exePatched,  \* whether the game executable carries every patch
  cache,       \* modloader_cache.bin
  pc,          \* the next step of the running loader, or "idle"
  newcache,    \* the run's newcache
  updated,     \* the run's argflag_gameupdated
  forced,      \* the run's argflag_forceload
  faults,      \* how often each kind of fault has happened
  changed,     \* the game or the cache was changed from outside since a run completed
  returned     \* an outside change put back the very manifest the cache remembers

disk     == <<orig, backup, archive, manifest, manifestAt, exePatched, cache>>
process  == <<newcache, updated, forced>>
world    == <<release, mods>>
history  == <<faults, changed, returned>>
vars     == <<world, disk, pc, process, history>>

-----------------------------------------------------------------------------
(* Contents                                                                *)

ArchiveImages == Mods \cup {TornArchive, NoArchive}
Manifests     == Releases \cup Nonces \cup TornManifests

Contents == [ver : Versions \cup {Torn, Absent}, inj : Seq(ArchiveImages), tag : BOOLEAN]
CacheRecord == [hash : Manifests \cup {NoHash}, patched : BOOLEAN]

Pristine(v)     == [ver |-> v, inj |-> <<>>, tag |-> FALSE]
AbsentFile      == Pristine(Absent)
TornFile(t)     == [ver |-> Torn, inj |-> <<>>, tag |-> t]
Inject(c, a)    == [ver |-> c.ver, inj |-> Append(c.inj, a), tag |-> TRUE]
DefaultCache    == [hash |-> NoHash, patched |-> FALSE]

Exists(c)       == c.ver # Absent
IsWhole(c)      == c.ver \in Versions
Vanilla(f)      == Pristine(FileVersion[release][f])

-----------------------------------------------------------------------------
(* Control                                                                 *)

Steps == {"patch", "save", Pms, Meta, "clean", "build",
          "inject", "mask", "move", "repack", "back"}

Successor == [s \in Steps |->
  CASE s = "patch"  -> "save"   [] s = "save"   -> Pms
    [] s = Pms      -> Meta     [] s = Meta     -> "clean"
    [] s = "clean"  -> "build"  [] s = "build"  -> "inject"
    [] s = "inject" -> "mask"   [] s = "mask"   -> "move"
    [] s = "move"   -> "repack" [] s = "repack" -> "back"
    [] s = "back"   -> "idle"]

At(s)   == pc = s
Goto(s) == pc' = s /\ UNCHANGED process
Proceed == Goto(Successor[pc])

(* The run is over: what it held in memory is gone.                        *)
Exit ==
  /\ pc' = "idle"
  /\ newcache' = DefaultCache
  /\ updated' = FALSE
  /\ forced' = FALSE

Init ==
  /\ release = FirstRelease
  /\ mods = NoMods
  /\ orig = [f \in Files |-> Vanilla(f)]
  /\ backup = [f \in Files |-> AbsentFile]
  /\ archive = NoArchive
  /\ manifest = FirstRelease
  /\ manifestAt = "base"
  /\ exePatched = FALSE
  /\ cache = DefaultCache
  /\ pc = "idle"
  /\ newcache = DefaultCache
  /\ updated = FALSE
  /\ forced = FALSE
  /\ faults = [k \in FaultKinds |-> 0]
  /\ changed = TRUE
  /\ returned = FALSE

-----------------------------------------------------------------------------
(* InjectorMain up to the cache file                                       *)

(* The manifest is hashed and compared with the cached hash.  Where it is  *)
(* missing the run ends with "FATAL ERROR: Could not find", having read    *)
(* and written nothing.                                                    *)
Launch ==
  /\ At("idle")
  /\ manifestAt = "base"
  /\ pc' = "patch"
  /\ newcache' = [hash |-> manifest, patched |-> FALSE]
  /\ updated' = (manifest # cache.hash)
  /\ forced' \in BOOLEAN
  /\ UNCHANGED <<world, disk, history>>

(* Faulty variant: an update alone does not run the patcher again.         *)
RunPatcherOnce == ~cache.patched

RunPatcher == updated \/ ~cache.patched

SetPatched(b) == newcache' = [hash |-> newcache.hash, patched |-> b]

SkipPatcher ==
  /\ At("patch")
  /\ ~RunPatcher
  /\ SetPatched(cache.patched)
  /\ pc' = Successor[pc]
  /\ UNCHANGED <<world, disk, updated, forced, history>>

(* Code 6, or code 0 with no failed patch.                                 *)
PatcherSucceeds ==
  /\ At("patch")
  /\ RunPatcher
  /\ exePatched' = TRUE
  /\ returned' = FALSE
  /\ SetPatched(TRUE)
  /\ pc' = Successor[pc]
  /\ UNCHANGED <<world, orig, backup, archive, manifest, manifestAt, cache,
                 updated, forced, faults, changed>>

(* Any other code, or a failed patch: only --forceload goes on.  Where     *)
(* there is no patcher to run, not even that does.                         *)
PatcherFails ==
  /\ At("patch")
  /\ RunPatcher
  /\ \/ forced /\ Proceed
     \/ Exit
  /\ UNCHANGED <<world, disk, history>>

(* Faulty variant: the new hash is left for the end of the run to save.    *)
SaveCacheNever ==
  /\ At("save")
  /\ Proceed
  /\ UNCHANGED <<world, disk, history>>

SaveCache ==
  /\ At("save")
  /\ cache' = newcache
  /\ Proceed
  /\ UNCHANGED <<world, orig, backup, archive, manifest, manifestAt, exePatched, history>>

-----------------------------------------------------------------------------
(* InjectorLoadMods                                                        *)

(* IsModded_MapSpec looks for "modarchives", IsModded_Meta for the modded  *)
(* timestamp.  Both are asked before the first file is handled; neither    *)
(* file changes between the question and its own turn.                     *)
IsModded(f) == orig[f].tag

(* Faulty variants: a refresh takes modded originals too, or never happens.*)
ToBackupModded(f) == ~Exists(backup[f]) \/ updated
ToBackupOnce(f)   == ~Exists(backup[f])

(* A first-time setup, or a new vanilla file: the original is copied over  *)
(* the backup.  Otherwise the backup is copied over the original.          *)
ToBackup(f) == ~Exists(backup[f]) \/ (updated /\ ~IsModded(f))

CopyTo(f, c) ==
  IF ToBackup(f)
    THEN backup' = [backup EXCEPT ![f] = c] /\ UNCHANGED orig
    ELSE orig' = [orig EXCEPT ![f] = c] /\ UNCHANGED backup

ManageBackup(f) ==
  /\ At(f)
  /\ Exists(orig[f])
  /\ CopyTo(f, IF ToBackup(f) THEN orig[f] ELSE backup[f])
  /\ Proceed
  /\ UNCHANGED <<world, archive, manifest, manifestAt, exePatched, cache, history>>

(* "ERROR: Could not find" the original: InjectorLoadMods returns, and     *)
(* InjectorMain goes on to the manifest.                                   *)
OriginalMissing(f) ==
  /\ At(f)
  /\ ~Exists(orig[f])
  /\ Goto("move")
  /\ UNCHANGED <<world, disk, history>>

(* Faulty variant: the previous run's archive is left in place.            *)
CleanNothing ==
  /\ At("clean")
  /\ Proceed
  /\ UNCHANGED <<world, disk, history>>

CleanOutput ==
  /\ At("clean")
  /\ archive' = NoArchive
  /\ Proceed
  /\ UNCHANGED <<world, orig, backup, manifest, manifestAt, exePatched, cache, history>>

(* Faulty variant: an empty supermod is built all the same.                *)
BuildAnyway ==
  /\ At("build")
  /\ archive' = mods
  /\ Proceed
  /\ UNCHANGED <<world, orig, backup, manifest, manifestAt, exePatched, cache, history>>

(* The mods are gathered, read and consolidated; what is left of them, if  *)
(* anything, becomes the archive.                                          *)
BuildArchive ==
  /\ At("build")
  /\ mods # NoMods
  /\ archive' = mods
  /\ Proceed
  /\ UNCHANGED <<world, orig, backup, manifest, manifestAt, exePatched, cache, history>>

(* "No mods will be loaded."                                               *)
NothingToLoad ==
  /\ At("build")
  /\ mods = NoMods
  /\ Goto("move")
  /\ UNCHANGED <<world, disk, history>>

(* InjectCommonArchive and RebuildContainerMask rewrite one file each.     *)
TargetOf(step) == IF step = "inject" THEN Pms ELSE Meta

InjectArchive ==
  /\ pc \in {"inject", "mask"}
  /\ LET f == TargetOf(pc) IN
       /\ IsWhole(orig[f])
       /\ Len(orig[f].inj) < MaxInjections
       /\ orig' = [orig EXCEPT ![f] = Inject(orig[f], archive)]
  /\ Proceed
  /\ UNCHANGED <<world, backup, archive, manifest, manifestAt, exePatched, cache, history>>

(* The parser throws on a damaged packagemapspec; main catches it.         *)
InjectThrows ==
  /\ At("inject")
  /\ ~IsWhole(orig[Pms])
  /\ Exit
  /\ UNCHANGED <<world, disk, history>>

(* A damaged meta.resources has an arbitrary header: the mask is left      *)
(* alone, or the damaged file is rewritten with the modded timestamp, or   *)
(* the read leaves the buffer and the process dies.                        *)
MaskDamagedMeta ==
  /\ At("mask")
  /\ ~IsWhole(orig[Meta])
  /\ \/ Proceed /\ UNCHANGED orig
     \/ Proceed /\ orig' = [orig EXCEPT ![Meta] = TornFile(TRUE)]
     \/ Exit /\ UNCHANGED orig
  /\ UNCHANGED <<world, backup, archive, manifest, manifestAt, exePatched, cache, history>>

-----------------------------------------------------------------------------
(* PatchManifest                                                           *)

MoveManifest ==
  /\ At("move")
  /\ manifestAt' = "gamedir"
  /\ Proceed
  /\ UNCHANGED <<world, orig, backup, archive, manifest, exePatched, cache, history>>

(* The manifest patcher re-encrypts under a fresh random nonce; an image   *)
(* that the disk or the cache still remembers does not come up again.      *)
RepackManifest ==
  /\ At("repack")
  /\ manifest \notin TornManifests
  /\ manifest' \in Nonces \ {manifest, cache.hash}
  /\ Proceed
  /\ UNCHANGED <<world, orig, backup, archive, manifestAt, exePatched, cache, history>>

(* The manifest patcher fails: the exit code is only logged.               *)
RepackFails ==
  /\ At("repack")
  /\ Proceed
  /\ UNCHANGED <<world, disk, history>>

MoveManifestBack ==
  /\ At("back")
  /\ manifestAt' = "base"
  /\ changed' = FALSE
  /\ Exit
  /\ UNCHANGED <<world, orig, backup, archive, manifest, exePatched, cache, faults,
                 returned>>

-----------------------------------------------------------------------------
(* Failures of the run                                                     *)

Strike(kind) ==
  /\ faults[kind] < MaxFaults[kind]
  /\ faults' = [faults EXCEPT ![kind] = @ + 1]

(* What an interrupted or failed write leaves of the current step.         *)
PartialWrite ==
  \/ /\ At("save") /\ cache # newcache
     /\ cache' \in {cache, DefaultCache}
     /\ UNCHANGED <<orig, backup, archive, manifest>>
  \/ /\ pc \in Files /\ Exists(orig[pc])
     /\ \E t \in BOOLEAN : CopyTo(pc, TornFile(t))
     /\ UNCHANGED <<archive, manifest, cache>>
  \/ /\ pc \in Files /\ Exists(orig[pc])
     /\ UNCHANGED <<orig, backup, archive, manifest, cache>>
  \/ /\ At("clean")
     /\ UNCHANGED <<orig, backup, archive, manifest, cache>>
  \/ /\ At("build")
     /\ mods # NoMods
     /\ archive' \in {archive, TornArchive}
     /\ UNCHANGED <<orig, backup, manifest, cache>>
  \/ /\ pc \in {"inject", "mask"} /\ IsWhole(orig[TargetOf(pc)])
     /\ \/ \E t \in BOOLEAN : orig' = [orig EXCEPT ![TargetOf(pc)] = TornFile(t)]
        \/ UNCHANGED orig
     /\ UNCHANGED <<backup, archive, manifest, cache>>
  \/ /\ At("repack")
     /\ manifest' \in TornManifests \ {manifest, cache.hash}
     /\ UNCHANGED <<orig, backup, archive, cache>>

(* A write fails and the run goes on: error codes and stream states are    *)
(* ignored or only logged.                                                 *)
WriteFails ==
  /\ PartialWrite
  /\ Proceed
  /\ Strike("io")
  /\ UNCHANGED <<world, manifestAt, exePatched, changed, returned>>

(* A rename of the manifest fails: PatchManifest returns false, which      *)
(* InjectorMain ignores.                                                   *)
MoveFails ==
  /\ pc \in {"move", "back"}
  /\ Strike("io")
  /\ changed' = FALSE
  /\ Exit
  /\ UNCHANGED <<world, disk, returned>>

(* The process is killed, in the middle of a write or between two.         *)
Kill ==
  /\ pc # "idle"
  /\ PartialWrite \/ UNCHANGED <<orig, backup, archive, manifest, cache>>
  /\ Exit
  /\ Strike("kill")
  /\ UNCHANGED <<world, manifestAt, exePatched, changed, returned>>

-----------------------------------------------------------------------------
(* Between runs                                                            *)

(* An update ships a new manifest and executable, and the files that       *)
(* differ between the two releases.                                        *)
Update(r) ==
  /\ At("idle")
  /\ r # release
  /\ release' = r
  /\ manifest' = r
  /\ manifestAt' = "base"
  /\ exePatched' = FALSE
  /\ orig' = [f \in Files |-> IF FileVersion[r][f] = FileVersion[release][f]
                                THEN orig[f] ELSE Pristine(FileVersion[r][f])]
  /\ changed' = TRUE
  /\ returned' = (r = cache.hash)
  /\ UNCHANGED <<mods, backup, archive, cache, pc, process, faults>>

(* The store's file verification puts back everything the release ships.   *)
Verify ==
  /\ At("idle")
  /\ manifest' = release
  /\ manifestAt' = "base"
  /\ exePatched' = FALSE
  /\ orig' = [f \in Files |-> Vanilla(f)]
  /\ changed' = TRUE
  /\ returned' = (release = cache.hash)
  /\ UNCHANGED <<world, backup, archive, cache, pc, process, faults>>

ChangeMods ==
  /\ At("idle")
  /\ mods' \in Mods \cup {NoMods}
  /\ UNCHANGED <<release, disk, pc, process, history>>

LoseCache ==
  /\ At("idle")
  /\ cache' = DefaultCache
  /\ changed' = TRUE
  /\ UNCHANGED <<world, orig, backup, archive, manifest, manifestAt, exePatched,
                 pc, process, faults, returned>>

LoseFile(f) ==
  /\ At("idle")
  /\ orig' = [orig EXCEPT ![f] = AbsentFile]
  /\ Strike("loss")
  /\ UNCHANGED <<world, backup, archive, manifest, manifestAt, exePatched, cache,
                 pc, process, changed, returned>>

-----------------------------------------------------------------------------
RunStep ==
  \/ SkipPatcher \/ PatcherSucceeds \/ PatcherFails \/ SaveCache
  \/ \E f \in Files : ManageBackup(f) \/ OriginalMissing(f)
  \/ CleanOutput \/ BuildArchive \/ NothingToLoad
  \/ InjectArchive \/ InjectThrows \/ MaskDamagedMeta
  \/ MoveManifest \/ RepackManifest \/ RepackFails \/ MoveManifestBack

Fault == WriteFails \/ MoveFails \/ Kill \/ \E f \in Files : LoseFile(f)

Outside == (\E r \in Releases : Update(r)) \/ Verify \/ ChangeMods \/ LoseCache

Next == Launch \/ RunStep \/ Fault \/ Outside

Spec == Init /\ [][Next]_vars

-----------------------------------------------------------------------------
(* Properties                                                              *)

AfterBackups == {"clean", "build", "inject", "mask", "move"}
Finished     == {"move", "repack", "back"}

(* Every variable keeps its type.                                          *)
TypeOK ==
  /\ release \in Releases
  /\ mods \in Mods \cup {NoMods}
  /\ orig \in [Files -> Contents]
  /\ backup \in [Files -> Contents]
  /\ archive \in ArchiveImages
  /\ manifest \in Manifests
  /\ manifestAt \in {"base", "gamedir"}
  /\ exePatched \in BOOLEAN
  /\ cache \in CacheRecord
  /\ pc \in Steps \cup {"idle"}
  /\ newcache \in CacheRecord
  /\ updated \in BOOLEAN
  /\ forced \in BOOLEAN
  /\ faults \in [FaultKinds -> Nat]
  /\ changed \in BOOLEAN
  /\ returned \in BOOLEAN

Faultless == \A k \in FaultKinds : faults[k] = 0
OnlyKills == faults["io"] = 0 /\ faults["loss"] = 0

(* A file is never injected into twice and no backup ever holds injected   *)
(* contents, whatever updates come and wherever the process is killed, as  *)
(* long as no write fails silently.  The restore before every injection    *)
(* and the IsModded test before every backup refresh are there for this.   *)
InjectedOnce ==
  faults["io"] = 0 =>
    \A f \in Files : Len(orig[f].inj) <= 1 /\ backup[f].inj = <<>>

(* When a run is done with the files, the archive on disk, the file list   *)
(* of packagemapspec.json and the hashes in the container mask name the    *)
(* same set of mods (all of them none when there is no mod), even if       *)
(* earlier runs were killed; only files torn by a kill are out of step.    *)
InstalledTogether ==
  pc \in Finished /\ OnlyKills =>
    /\ archive = (IF mods = NoMods THEN NoArchive ELSE mods)
    /\ \A f \in Files : IsWhole(orig[f]) =>
         orig[f].inj = (IF mods = NoMods THEN <<>> ELSE <<mods>>)

(* The file the next run will take as vanilla.                             *)
NextSource(f) ==
  IF ~Exists(backup[f]) \/ (manifest # cache.hash /\ ~orig[f].tag)
    THEN orig[f] ELSE backup[f]

Reloadable == \A f \in Files : NextSource(f) = Vanilla(f)

(* Between runs the next run starts from the vanilla files of the release  *)
(* installed now: no sequence of updates (whole or of some files only),    *)
(* verifications, refused, forced or completed runs and cache losses makes *)
(* it restore an outdated backup or take a modded file as vanilla.         *)
SafeToReload == pc = "idle" /\ Faultless => Reloadable

(* The executable is fully patched whenever mods are loaded, unless the    *)
(* user forced it or something outside put back both the executable and    *)
(* the very manifest image whose hash is cached.                           *)
PatchedWhenLoading ==
  pc \in Steps \ {"patch"} => exePatched \/ forced \/ returned

(* A kill after the backups are settled, and before the manifest is moved, *)
(* leaves files from which the next run recovers.                          *)
KillRecoverable ==
  [][(pc \in AfterBackups /\ pc' = "idle" /\ Faultless) => Reloadable']_vars

(* "To determine if the game has been updated, we hash part of the         *)
(* build-manifest": a run that concludes the game was updated has seen a   *)
(* change made outside the loader.                                         *)
UpdateFlagAccurate == pc = "patch" /\ updated => changed

(* "Please re-run the mod loader with no mods loaded to restore them":     *)
(* after a sudden end, a run without mods leaves both files vanilla.       *)
RerunRestores ==
  pc \in Finished /\ mods = NoMods /\ OnlyKills =>
    \A f \in Files : orig[f] = Vanilla(f)

-----------------------------------------------------------------------------
(* Inductive strengthenings, used by the proofs                            *)

(* The steps by which the backup of f is settled, and those of them before *)
(* the run injects into f.                                                 *)
Settled(f)  == {"clean", "build", "inject", "mask"} \cup (IF f = Pms THEN {Meta} ELSE {})
Restored(f) == Settled(f) \ (IF f = Pms THEN {"mask"} ELSE {})

(* A file without the mark holds no injection, and a file without a backup *)
(* has never been injected into.                                           *)
InjectedOnceInv ==
  faults["io"] = 0 => \A f \in Files :
    /\ ~orig[f].tag => orig[f].inj = <<>>
    /\ backup[f].inj = <<>>
    /\ Len(orig[f].inj) <= 1
    /\ ~Exists(backup[f]) => orig[f].inj = <<>>
    /\ pc \in Settled(f) => Exists(backup[f])
    /\ pc \in Restored(f) => orig[f].inj = <<>>

InstalledTogetherInv ==
  OnlyKills =>
    /\ \A f \in Files : Exists(orig[f])
    /\ pc = "build" => archive = NoArchive
    /\ pc \in {"inject", "mask"} => archive = mods /\ mods # NoMods
    /\ pc = "mask" => orig[Pms].inj = <<mods>>
    /\ InstalledTogether

(* A cached hash stands for a manifest whose executable was patched.       *)
PatchedInv ==
  /\ cache.patched /\ cache.hash = manifest => exePatched \/ returned
  /\ pc = "patch" => ~newcache.patched /\ (updated <=> manifest # cache.hash)
  /\ pc \in Steps \ {"patch"} /\ newcache.patched => exePatched \/ returned
  /\ PatchedWhenLoading

(* An unmarked file is vanilla; a marked one has a vanilla backup; the     *)
(* cached hash, where it is that of a release or of the manifest on disk,  *)
(* vouches for the backups.                                                *)
SafeInv ==
  Faultless =>
    /\ manifest \in Releases => manifest = release
    /\ \A f \in Files :
         /\ Exists(orig[f])
         /\ ~orig[f].tag => orig[f] = Vanilla(f)
         /\ orig[f].tag => backup[f] = Vanilla(f)
         /\ pc \in {"idle", "patch", "save"} =>
              /\ cache.hash = manifest => backup[f] = Vanilla(f)
              /\ cache.hash \in Releases => backup[f] = Pristine(FileVersion[cache.hash][f])
         /\ pc \in Settled(f) \cup Finished => backup[f] = Vanilla(f)
         /\ pc \in {Pms, Meta} /\ ~updated => backup[f] = Vanilla(f)
    /\ pc \in {"patch", "save"} =>
         newcache.hash = manifest /\ (updated <=> manifest # cache.hash)
    /\ pc \in {Pms, Meta} \cup AfterBackups => cache.hash = manifest
    /\ pc \in Finished /\ cache.hash \in Releases => cache.hash = release

=============================================================================
