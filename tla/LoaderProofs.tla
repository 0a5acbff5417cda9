---------------------------- MODULE LoaderProofs ----------------------------
(***************************************************************************)
(* Proofs about Loader for every set of releases, mods and file versions   *)
(* and every number of faults: type correctness, that the executable is    *)
(* patched whenever mods are loaded, that injections never pile up, and    *)
(* that a faultless history always leaves the next run a vanilla source.   *)
(***************************************************************************)
EXTENDS Loader, TLAPS

LEMMA SuccessorValues ==
  /\ Successor["patch"] = "save"   /\ Successor["save"] = Pms
  /\ Successor[Pms] = Meta         /\ Successor[Meta] = "clean"
  /\ Successor["clean"] = "build"
  /\ Successor["build"] = "inject" /\ Successor["inject"] = "mask"
  /\ Successor["mask"] = "move"    /\ Successor["move"] = "repack"
  /\ Successor["repack"] = "back"  /\ Successor["back"] = "idle"
BY DEF Successor, Steps, Pms, Meta

LEMMA SuccessorType == \A s \in Steps : Successor[s] \in Steps \cup {"idle"}
BY SuccessorValues DEF Steps

LEMMA FilesAreSteps == Files \subseteq Steps \ {"patch"}
BY DEF Files, Steps, Pms, Meta

LEMMA VanillaType ==
  ASSUME NEW r \in Releases, NEW f \in Files
  PROVE  /\ FileVersion[r][f] \in Versions
         /\ Pristine(FileVersion[r][f]) \in Contents
BY DEF Versions, Pristine, Contents

LEMMA SpecialContents ==
  /\ AbsentFile \in Contents
  /\ \A t \in BOOLEAN : TornFile(t) \in Contents
  /\ \A c \in Contents, a \in ArchiveImages : Inject(c, a) \in Contents
  /\ DefaultCache \in CacheRecord
BY DEF AbsentFile, TornFile, Pristine, Inject, Contents, DefaultCache, CacheRecord

LEMMA PartialWriteType ==
  ASSUME TypeOK, PartialWrite \/ UNCHANGED <<orig, backup, archive, manifest, cache>>
  PROVE  /\ orig' \in [Files -> Contents]
         /\ backup' \in [Files -> Contents]
         /\ archive' \in ArchiveImages
         /\ manifest' \in Manifests
         /\ cache' \in CacheRecord
BY SpecialContents
DEF TypeOK, PartialWrite, CopyTo, TargetOf, At, ArchiveImages, Manifests, Files

LEMMA PartialWriteSteps == PartialWrite => pc \in Steps \ {"patch"}
<1>1. PartialWrite => pc \in {"save", "clean", "build", "inject", "mask", "repack"} \cup Files
  BY DEF PartialWrite, At
<1>. QED
  BY <1>1, FilesAreSteps DEF Steps

LEMMA StrikeType ==
  ASSUME TypeOK, NEW k \in FaultKinds, Strike(k)
  PROVE  faults' \in [FaultKinds -> Nat] /\ faults'[k] > 0
BY DEF TypeOK, Strike

(* Every variable keeps its type.                                          *)
THEOREM TypeCorrect == Spec => []TypeOK
<1>1. Init => TypeOK
  <2> SUFFICES ASSUME Init PROVE TypeOK
    OBVIOUS
  <2>1. orig \in [Files -> Contents] /\ backup \in [Files -> Contents]
    BY ConstantsAssumption, VanillaType, SpecialContents DEF Init, Vanilla
  <2>2. faults \in [FaultKinds -> Nat]
    BY DEF Init
  <2>. QED
    BY <2>1, <2>2, ConstantsAssumption, SpecialContents
    DEF Init, TypeOK, Manifests, ArchiveImages
<1>2. TypeOK /\ [Next]_vars => TypeOK'
  <2> SUFFICES ASSUME TypeOK, [Next]_vars PROVE TypeOK'
    OBVIOUS
  <2> USE SuccessorType DEF TypeOK, At, Goto, Proceed, Exit, world, disk, process, history
  <2>1. CASE Launch
    BY <2>1 DEF Launch, CacheRecord, Steps
  <2>2. CASE SkipPatcher
    BY <2>2 DEF SkipPatcher, SetPatched, CacheRecord, Steps
  <2>3. CASE PatcherSucceeds
    BY <2>3 DEF PatcherSucceeds, SetPatched, CacheRecord, Steps
  <2>4. CASE PatcherFails
    BY <2>4, SpecialContents DEF PatcherFails, Steps
  <2>5. CASE SaveCache
    BY <2>5 DEF SaveCache, Steps
  <2>6. ASSUME NEW f \in Files, ManageBackup(f) PROVE TypeOK'
    BY <2>6 DEF ManageBackup, CopyTo, Steps, Files
  <2>7. ASSUME NEW f \in Files, OriginalMissing(f) PROVE TypeOK'
    BY <2>7 DEF OriginalMissing, Steps
  <2>8. CASE CleanOutput
    BY <2>8 DEF CleanOutput, Steps, ArchiveImages
  <2>9. CASE NothingToLoad
    BY <2>9 DEF NothingToLoad, Steps
  <2>10. CASE BuildArchive
    BY <2>10 DEF BuildArchive, Steps, ArchiveImages
  <2>11. CASE InjectArchive
    <3>1. PICK f \in Files : orig' = [orig EXCEPT ![f] = Inject(orig[f], archive)]
      BY <2>11 DEF InjectArchive, TargetOf, Files
    <3>2. orig' \in [Files -> Contents]
      BY <3>1, SpecialContents
    <3>. QED
      BY <2>11, <3>2 DEF InjectArchive, Steps
  <2>12. CASE InjectThrows
    BY <2>12, SpecialContents DEF InjectThrows, Steps
  <2>13. CASE MaskDamagedMeta
    BY <2>13, SpecialContents DEF MaskDamagedMeta, Steps, Files
  <2>14. CASE MoveManifest
    BY <2>14 DEF MoveManifest, Steps
  <2>15. CASE RepackManifest
    BY <2>15 DEF RepackManifest, Manifests, Steps
  <2>16. CASE RepackFails
    BY <2>16 DEF RepackFails, Steps
  <2>17. CASE MoveManifestBack
    BY <2>17, SpecialContents DEF MoveManifestBack, Steps
  <2>18. CASE WriteFails
    <3>1. PartialWrite => /\ orig' \in [Files -> Contents]
                          /\ backup' \in [Files -> Contents]
                          /\ archive' \in ArchiveImages
                          /\ manifest' \in Manifests
                          /\ cache' \in CacheRecord
      BY PartialWriteType
    <3>2. faults' \in [FaultKinds -> Nat]
      BY <2>18, StrikeType DEF FaultKinds, WriteFails
    <3>. QED
      BY <2>18, <3>1, <3>2 DEF WriteFails, PartialWrite, Steps, Files
  <2>19. CASE MoveFails
    BY <2>19, SpecialContents, StrikeType DEF FaultKinds, MoveFails, Steps
  <2>20. CASE Kill
    <3>1. /\ orig' \in [Files -> Contents]
          /\ backup' \in [Files -> Contents]
          /\ archive' \in ArchiveImages
          /\ manifest' \in Manifests
          /\ cache' \in CacheRecord
      BY <2>20, PartialWriteType DEF Kill
    <3>2. faults' \in [FaultKinds -> Nat]
      BY <2>20, StrikeType DEF FaultKinds, Kill
    <3>. QED
      BY <2>20, <3>1, <3>2, SpecialContents DEF Kill
  <2>21. ASSUME NEW f \in Files, LoseFile(f) PROVE TypeOK'
    BY <2>21, SpecialContents, StrikeType DEF FaultKinds, LoseFile
  <2>22. ASSUME NEW r \in Releases, Update(r) PROVE TypeOK'
    BY <2>22, VanillaType DEF Update, Manifests
  <2>23. CASE Verify
    BY <2>23, VanillaType DEF Verify, Vanilla, Manifests
  <2>24. CASE ChangeMods
    BY <2>24 DEF ChangeMods
  <2>25. CASE LoseCache
    BY <2>25, SpecialContents DEF LoseCache
  <2>26. CASE UNCHANGED vars
    BY <2>26 DEF vars
  <2>. QED
    BY <2>1, <2>2, <2>3, <2>4, <2>5, <2>6, <2>7, <2>8, <2>9, <2>10, <2>11, <2>12,
       <2>13, <2>14, <2>15, <2>16, <2>17, <2>18, <2>19, <2>20, <2>21, <2>22, <2>23,
       <2>24, <2>25, <2>26
    DEF Next, RunStep, Fault, Outside
<1>. QED
  BY <1>1, <1>2, PTL DEF Spec

-----------------------------------------------------------------------------
(* The executable                                                          *)

(* The executable is fully patched whenever mods are loaded, unless forced *)
(* or put back together with the cached manifest, under every fault.       *)
THEOREM PatchedTheorem == Spec => []PatchedWhenLoading
<1>1. Init => PatchedInv
  BY DEF Init, PatchedInv, PatchedWhenLoading, DefaultCache, Steps, Pms, Meta
<1>2. TypeOK /\ PatchedInv /\ [Next]_vars => PatchedInv'
  <2> SUFFICES ASSUME TypeOK, PatchedInv, [Next]_vars PROVE PatchedInv'
    OBVIOUS
  <2> USE DEF PatchedInv, PatchedWhenLoading, At, Goto, Proceed, Exit,
              world, disk, process, history
  <2> DEFINE Late == Steps \ {"patch"}
  <2>0. /\ "idle" \notin Late /\ "patch" \notin Late
        /\ \A s \in Steps : Successor[s] \in Late \cup {"idle"}
        /\ "save" \in Late /\ "move" \in Late
        /\ Successor["patch"] \in Late
    BY SuccessorValues DEF Steps, Pms, Meta
  <2>1. CASE Launch
    BY <2>0, <2>1 DEF Launch
  <2>2. CASE SkipPatcher
    BY <2>0, <2>2 DEF SkipPatcher, SetPatched, RunPatcher, TypeOK, CacheRecord
  <2>3. CASE PatcherSucceeds
    BY <2>0, <2>3 DEF PatcherSucceeds, SetPatched
  <2>4. CASE PatcherFails
    <3>1. CASE forced /\ Proceed
      BY <2>0, <2>4, <3>1 DEF PatcherFails
    <3>2. CASE Exit
      BY <2>0, <2>4, <3>2 DEF PatcherFails
    <3>. QED
      BY <2>4, <3>1, <3>2 DEF PatcherFails
  <2>5. CASE SaveCache
    BY <2>0, <2>5 DEF SaveCache
  <2>6. ASSUME NEW f \in Files, ManageBackup(f) \/ OriginalMissing(f) PROVE PatchedInv'
    BY <2>0, <2>6, FilesAreSteps DEF ManageBackup, OriginalMissing
  <2>7. CASE CleanOutput \/ NothingToLoad \/ BuildArchive
    BY <2>0, <2>7 DEF CleanOutput, NothingToLoad, BuildArchive, Steps
  <2>8. CASE InjectArchive \/ InjectThrows \/ MaskDamagedMeta
    BY <2>0, <2>8 DEF InjectArchive, InjectThrows, MaskDamagedMeta, Steps
  <2>9. CASE MoveManifest \/ RepackFails \/ MoveManifestBack
    BY <2>0, <2>9 DEF MoveManifest, RepackFails, MoveManifestBack, Steps
  <2>10. CASE RepackManifest
    BY <2>0, <2>10 DEF RepackManifest, Steps
  <2>11. CASE WriteFails
    <3>1. pc \in Late /\ pc' \in Late \cup {"idle"}
      BY <2>0, <2>11, PartialWriteSteps DEF WriteFails
    <3>2. manifest' = manifest \/ manifest' # cache.hash
      BY <2>11 DEF WriteFails, PartialWrite
    <3>3. cache' = cache \/ ~cache'.patched
      BY <2>11 DEF WriteFails, PartialWrite, DefaultCache
    <3>4. manifest' = manifest \/ cache' = cache
      BY <2>11 DEF WriteFails, PartialWrite
    <3>. QED
      BY <2>0, <2>11, <3>1, <3>2, <3>3, <3>4 DEF WriteFails
  <2>12. CASE MoveFails
    BY <2>0, <2>12 DEF MoveFails
  <2>13. CASE Kill
    BY <2>0, <2>13 DEF Kill, PartialWrite, DefaultCache
  <2>14. ASSUME NEW f \in Files, LoseFile(f) PROVE PatchedInv'
    BY <2>0, <2>14 DEF LoseFile
  <2>15. ASSUME NEW r \in Releases, Update(r) PROVE PatchedInv'
    BY <2>0, <2>15 DEF Update
  <2>16. CASE Verify
    BY <2>0, <2>16 DEF Verify
  <2>17. CASE ChangeMods \/ LoseCache
    BY <2>0, <2>17 DEF ChangeMods, LoseCache, DefaultCache
  <2>18. CASE UNCHANGED vars
    BY <2>18 DEF vars
  <2>. QED
    BY <2>1, <2>2, <2>3, <2>4, <2>5, <2>6, <2>7, <2>8, <2>9, <2>10, <2>11, <2>12,
       <2>13, <2>14, <2>15, <2>16, <2>17, <2>18
    DEF Next, RunStep, Fault, Outside
<1>3. PatchedInv => PatchedWhenLoading
  BY DEF PatchedInv
<1>. QED
  BY <1>1, <1>2, <1>3, TypeCorrect, PTL DEF Spec

-----------------------------------------------------------------------------
(* Faults only accumulate                                                  *)

LEMMA FaultsGrow ==
  ASSUME TypeOK, [Next]_vars, NEW k \in FaultKinds
  PROVE  faults'[k] = 0 => faults[k] = 0
<1>1. ASSUME NEW j \in FaultKinds, Strike(j) PROVE faults'[k] = 0 => faults[k] = 0
  BY <1>1 DEF TypeOK, Strike
<1>2. CASE faults' = faults
  BY <1>2
<1>3. faults' = faults \/ \E j \in FaultKinds : Strike(j)
  BY DEF Next, RunStep, Fault, Outside, Launch, SkipPatcher, PatcherSucceeds, PatcherFails,
     SaveCache, ManageBackup, OriginalMissing, CleanOutput, BuildArchive, NothingToLoad,
     InjectArchive, InjectThrows, MaskDamagedMeta, MoveManifest, RepackManifest, RepackFails,
     MoveManifestBack, WriteFails, MoveFails, Kill, LoseFile, Update, Verify, ChangeMods,
     LoseCache, vars, history, FaultKinds
<1>. QED
  BY <1>1, <1>2, <1>3

LEMMA StrikeCounts ==
  ASSUME TypeOK, NEW k \in FaultKinds, Strike(k)
  PROVE  faults'[k] # 0
BY DEF TypeOK, Strike

-----------------------------------------------------------------------------
(* Injections                                                              *)

LEMMA SettledSteps ==
  ASSUME NEW f \in Files
  PROVE  /\ Restored(f) \subseteq Settled(f)
         /\ {"idle", "patch", "save", Pms, f, "move", "repack", "back"} \cap Settled(f) = {}
         /\ Successor[f] \in Restored(f)
         /\ \A g \in Files \ {f} : Successor[g] \in Settled(f) => g \in Restored(f)
         /\ "clean" \in Restored(f) /\ "build" \in Restored(f)
         /\ "inject" \in Restored(f) /\ "mask" \in Settled(f)
         /\ "mask" \in Restored(f) => f = Meta
         /\ Settled(f) \subseteq {"clean", "build", "inject", "mask"} \cup Files
BY SuccessorValues DEF Files, Settled, Restored, Pms, Meta

(* Without a silent write failure an unmarked file holds no injection, and *)
(* a run injects only into files it has just restored.                     *)
THEOREM InjectionInvariant == Spec => []InjectedOnceInv
<1>1. Init => InjectedOnceInv
  BY SettledSteps DEF Init, InjectedOnceInv, Vanilla, Pristine, AbsentFile, Exists, Files
<1>2. TypeOK /\ InjectedOnceInv /\ [Next]_vars => InjectedOnceInv'
  <2> DEFINE P(f) == /\ ~orig[f].tag => orig[f].inj = <<>>
                     /\ backup[f].inj = <<>>
                     /\ Len(orig[f].inj) <= 1
                     /\ ~Exists(backup[f]) => orig[f].inj = <<>>
                     /\ pc \in Settled(f) => Exists(backup[f])
                     /\ pc \in Restored(f) => orig[f].inj = <<>>
  <2> SUFFICES ASSUME TypeOK, InjectedOnceInv, [Next]_vars,
                      faults'["io"] = 0, NEW f \in Files
               PROVE  P(f)'
    BY DEF InjectedOnceInv
  <2>0. faults["io"] = 0 /\ \A g \in Files : P(g)
    BY FaultsGrow DEF InjectedOnceInv, FaultKinds
  <2> USE SettledSteps, SuccessorValues
      DEF At, Goto, Proceed, Exit, world, disk, process, history, Exists
  <2>1. CASE Launch \/ SkipPatcher \/ PatcherSucceeds \/ PatcherFails \/ SaveCache
    <3>1. pc' \in {"idle", "patch", "save", Pms}
      BY <2>1, ZenonT(40) DEF Launch, SkipPatcher, PatcherSucceeds, PatcherFails, SaveCache
    <3>2. orig' = orig /\ backup' = backup
      BY <2>1 DEF Launch, SkipPatcher, PatcherSucceeds, PatcherFails, SaveCache
    <3>. QED
      BY <2>0, <3>1, <3>2
  <2>2. ASSUME NEW g \in Files, ManageBackup(g) PROVE P(f)'
    <3>1. pc = g /\ pc' = Successor[g]
      BY <2>2 DEF ManageBackup
    <3>2. CASE g # f
      <4>1. orig'[f] = orig[f] /\ backup'[f] = backup[f]
        BY <2>2, <3>2 DEF ManageBackup, CopyTo, TypeOK
      <4>. QED
        BY <2>0, <3>1, <3>2, <4>1
    <3>3. CASE g = f /\ ToBackup(f)
      <4>1. orig'[f] = orig[f] /\ backup'[f] = orig[f] /\ Exists(orig[f])
        BY <2>2, <3>3 DEF ManageBackup, CopyTo, TypeOK
      <4>2. orig[f].inj = <<>>
        BY <2>0, <3>3 DEF ToBackup, IsModded
      <4>. QED
        BY <2>0, <4>1, <4>2
    <3>4. CASE g = f /\ ~ToBackup(f)
      <4>1. orig'[f] = backup[f] /\ backup'[f] = backup[f] /\ Exists(backup[f])
        BY <2>2, <3>4 DEF ManageBackup, CopyTo, ToBackup, TypeOK
      <4>2. backup[f].inj = <<>> /\ Len(backup[f].inj) <= 1
        BY <2>0
      <4>. QED
        BY <4>1, <4>2
    <3>. QED
      BY <3>2, <3>3, <3>4
  <2>3. ASSUME NEW g \in Files, OriginalMissing(g) PROVE P(f)'
    BY <2>0, <2>3 DEF OriginalMissing
  <2>4. CASE CleanOutput \/ NothingToLoad \/ BuildArchive
    BY <2>0, <2>4 DEF CleanOutput, NothingToLoad, BuildArchive
  <2>5. CASE InjectArchive
    <3>1. PICK g \in Files : /\ g = TargetOf(pc)
                             /\ orig' = [orig EXCEPT ![g] = Inject(orig[g], archive)]
      BY <2>5 DEF InjectArchive, TargetOf, Files
    <3>2. /\ backup' = backup /\ pc' = Successor[pc]
          /\ pc = "inject" \/ pc = "mask"
      BY <2>5 DEF InjectArchive
    <3>3. CASE g # f
      <4>1. orig'[f] = orig[f]
        BY <3>1, <3>3 DEF TypeOK
      <4>. QED
        BY <2>0, <3>1, <3>2, <3>3, <4>1 DEF TargetOf
    <3>4. CASE g = f
      <4>1. orig'[f] = Inject(orig[f], archive)
        BY <3>1, <3>4 DEF TypeOK
      <4>2. pc \in Restored(f) /\ pc' \notin Restored(f) /\ Exists(backup[f])
        BY <2>0, <3>1, <3>2, <3>4 DEF TargetOf, Restored, Settled, Pms, Meta
      <4>3. orig[f].inj = <<>>
        BY <2>0, <4>2
      <4>4. orig'[f].tag /\ orig'[f].inj = Append(<<>>, archive)
        BY <4>1, <4>3 DEF Inject
      <4>5. Len(orig'[f].inj) = 1
        BY <4>4
      <4>. QED
        BY <2>0, <3>2, <4>2, <4>4, <4>5
    <3>. QED
      BY <3>3, <3>4
  <2>6. CASE InjectThrows
    BY <2>0, <2>6 DEF InjectThrows
  <2>7. CASE MaskDamagedMeta
    BY <2>0, <2>7 DEF MaskDamagedMeta, TornFile, TypeOK
  <2>8. CASE MoveManifest \/ RepackManifest \/ RepackFails \/ MoveManifestBack
    BY <2>0, <2>8 DEF MoveManifest, RepackManifest, RepackFails, MoveManifestBack
  <2>9. CASE WriteFails \/ MoveFails
    BY <2>9, StrikeCounts DEF WriteFails, MoveFails, FaultKinds
  <2>10. CASE Kill
    <3>1. pc' = "idle"
      BY <2>10 DEF Kill
    <3>2. \/ orig'[f] = orig[f]
          \/ \E t \in BOOLEAN : orig'[f] = TornFile(t)
      BY <2>10 DEF Kill, PartialWrite, CopyTo, TypeOK, TargetOf, Files
    <3>3. \/ backup'[f] = backup[f]
          \/ \E t \in BOOLEAN : backup'[f] = TornFile(t)
      BY <2>10 DEF Kill, PartialWrite, CopyTo, TypeOK
    <3>4. \A t \in BOOLEAN : TornFile(t).inj = <<>> /\ Len(TornFile(t).inj) <= 1
                             /\ Exists(TornFile(t))
      BY ConstantsAssumption DEF TornFile
    <3>. QED
      BY <2>0, <3>1, <3>2, <3>3, <3>4
  <2>11. ASSUME NEW g \in Files, LoseFile(g) PROVE P(f)'
    BY <2>0, <2>11 DEF LoseFile, AbsentFile, Pristine, TypeOK
  <2>12. ASSUME NEW r \in Releases, Update(r) PROVE P(f)'
    BY <2>0, <2>12 DEF Update, Pristine
  <2>13. CASE Verify
    BY <2>0, <2>13 DEF Verify, Vanilla, Pristine
  <2>14. CASE ChangeMods \/ LoseCache
    BY <2>0, <2>14 DEF ChangeMods, LoseCache
  <2>15. CASE UNCHANGED vars
    BY <2>0, <2>15 DEF vars
  <2>. QED
    BY <2>1, <2>2, <2>3, <2>4, <2>5, <2>6, <2>7, <2>8, <2>9, <2>10, <2>11, <2>12,
       <2>13, <2>14, <2>15
    DEF Next, RunStep, Fault, Outside
<1>. QED
  BY <1>1, <1>2, TypeCorrect, PTL DEF Spec

(* No injection into an injected file, no injected contents in a backup,   *)
(* for every history without a silent write failure.                       *)
THEOREM InjectedOnceTheorem == Spec => []InjectedOnce
<1>1. InjectedOnceInv => InjectedOnce
  BY DEF InjectedOnceInv, InjectedOnce
<1>. QED
  BY <1>1, InjectionInvariant, PTL

-----------------------------------------------------------------------------
(* One set of mods in three places                                         *)

LEMMA VersionsExist ==
  /\ \A v \in Versions :
       Exists(Pristine(v)) /\ IsWhole(Pristine(v)) /\ ~Pristine(v).tag
  /\ \A t \in BOOLEAN : Exists(TornFile(t)) /\ ~IsWhole(TornFile(t))
  /\ \A c : \A a : Exists(Inject(c, a)) <=> Exists(c)
BY ConstantsAssumption DEF Exists, IsWhole, Pristine, TornFile, Inject

(* When a run leaves the files, the archive, the file list and the mask    *)
(* name the same mods, whatever was killed before.                         *)
THEOREM InstalledTogetherTheorem == Spec => []InstalledTogether
<1> DEFINE Q == /\ \A f \in Files : Exists(orig[f])
                /\ pc = "build" => archive = NoArchive
                /\ pc \in {"inject", "mask"} => archive = mods /\ mods # NoMods
                /\ pc = "mask" => orig[Pms].inj = <<mods>>
                /\ InstalledTogether
<1>1. Init => InstalledTogetherInv
  <2> SUFFICES ASSUME Init, NEW f \in Files PROVE pc = "idle" /\ Exists(orig[f])
    BY DEF Init, InstalledTogetherInv, InstalledTogether, Finished
  <2>. QED
    BY ConstantsAssumption, VanillaType, VersionsExist DEF Init, Vanilla
<1>2. TypeOK /\ InjectedOnceInv /\ InstalledTogetherInv /\ [Next]_vars
        => InstalledTogetherInv'
  <2> SUFFICES ASSUME TypeOK, InjectedOnceInv, InstalledTogetherInv, [Next]_vars,
                      OnlyKills'
               PROVE  Q'
    BY DEF InstalledTogetherInv
  <2>0. /\ OnlyKills /\ Q
        /\ \A f \in Files : /\ pc \in Restored(f) => orig[f].inj = <<>>
                            /\ ~Exists(backup[f]) => orig[f].inj = <<>>
    BY FaultsGrow DEF OnlyKills, InstalledTogetherInv, InjectedOnceInv, FaultKinds
  <2>a. Pms \in Files /\ Meta \in Files /\ Pms # Meta
    BY DEF Files, Pms, Meta
  <2>b. {"idle", "patch", "save", Pms, Meta, "clean"}
          \cap ({"build", "inject", "mask"} \cup Finished) = {}
    BY DEF Finished, Pms, Meta
  <2> USE SuccessorValues
      DEF At, Goto, Proceed, Exit, world, disk, process, history
  <2>1. CASE Launch \/ SkipPatcher \/ PatcherSucceeds \/ PatcherFails \/ SaveCache
    <3>1. pc' \in {"idle", "patch", "save", Pms} /\ orig' = orig
      BY <2>1 DEF Launch, SkipPatcher, PatcherSucceeds, PatcherFails, SaveCache
    <3>. QED
      BY <2>0, <2>b, <3>1 DEF InstalledTogether
  <2>2. ASSUME NEW g \in Files, ManageBackup(g) PROVE Q'
    <3>1. pc' \in {Meta, "clean"}
      BY <2>2 DEF ManageBackup, Files
    <3>2. ASSUME NEW f \in Files PROVE Exists(orig'[f])
      BY <2>0, <2>2 DEF ManageBackup, CopyTo, ToBackup, TypeOK
    <3>. QED
      BY <2>b, <3>1, <3>2 DEF InstalledTogether
  <2>3. ASSUME NEW g \in Files, OriginalMissing(g) PROVE Q'
    BY <2>0, <2>3 DEF OriginalMissing
  <2>4. CASE CleanOutput
    BY <2>0, <2>4 DEF CleanOutput, InstalledTogether, Finished
  <2>5. CASE BuildArchive
    BY <2>0, <2>5 DEF BuildArchive, InstalledTogether, Finished
  <2>6. CASE NothingToLoad
    <3>1. \A f \in Files : orig[f].inj = <<>>
      BY <2>0, <2>6, SettledSteps DEF NothingToLoad
    <3>. QED
      BY <2>0, <2>6, <3>1 DEF NothingToLoad, InstalledTogether, Finished
  <2>7. CASE InjectArchive
    <3>1. \A f \in Files : Exists(orig'[f])
      BY <2>0, <2>7, VersionsExist DEF InjectArchive, TypeOK
    <3>2. CASE pc = "inject"
      <4>1. orig'[Pms] = Inject(orig[Pms], archive) /\ orig[Pms].inj = <<>>
        BY <2>0, <2>7, <2>a, <3>2, SettledSteps DEF InjectArchive, TargetOf, TypeOK
      <4>2. orig'[Pms].inj = Append(<<>>, archive)
        BY <4>1 DEF Inject
      <4>. QED
        BY <2>0, <2>7, <3>1, <3>2, <4>2 DEF InjectArchive, InstalledTogether, Finished
    <3>3. CASE pc = "mask"
      <4>1. /\ orig'[Meta] = Inject(orig[Meta], archive) /\ orig[Meta].inj = <<>>
            /\ orig'[Pms] = orig[Pms]
        <5>1. "mask" \in Restored(Meta)
          BY DEF Restored, Settled, Pms, Meta
        <5>. QED
          BY <2>0, <2>7, <2>a, <3>3, <5>1 DEF InjectArchive, TargetOf, TypeOK
      <4>2. orig'[Meta].inj = Append(<<>>, archive)
        BY <4>1 DEF Inject
      <4>3. \A f \in Files : orig'[f].inj = <<mods>>
        BY <2>0, <3>3, <4>1, <4>2 DEF Files
      <4>. QED
        BY <2>0, <2>7, <3>1, <3>3, <4>3 DEF InjectArchive, InstalledTogether
    <3>. QED
      BY <2>7, <3>2, <3>3 DEF InjectArchive
  <2>8. CASE InjectThrows
    BY <2>0, <2>8 DEF InjectThrows, InstalledTogether, Finished
  <2>9. CASE MaskDamagedMeta
    <3>1. /\ \A f \in Files : Exists(orig'[f])
          /\ ~IsWhole(orig'[Meta]) /\ orig'[Pms] = orig[Pms]
      <4>1. CASE orig' = orig
        BY <2>0, <2>9, <4>1 DEF MaskDamagedMeta
      <4>2. CASE orig' = [orig EXCEPT ![Meta] = TornFile(TRUE)]
        <5>1. orig'[Meta] = TornFile(TRUE) /\ orig'[Pms] = orig[Pms]
          BY <2>a, <4>2 DEF TypeOK
        <5>2. Exists(TornFile(TRUE)) /\ ~IsWhole(TornFile(TRUE)) /\ Exists(orig[Pms])
          BY <2>0, <2>a, VersionsExist
        <5>3. \A f \in Files : f = Pms \/ f = Meta
          BY DEF Files
        <5>. QED
          BY <5>1, <5>2, <5>3
      <4>. QED
        BY <2>9, <4>1, <4>2 DEF MaskDamagedMeta
    <3>2. CASE pc' = "move"
      BY <2>0, <2>9, <3>1, <3>2 DEF MaskDamagedMeta, InstalledTogether, Files
    <3>3. CASE pc' = "idle"
      BY <3>1, <3>3 DEF InstalledTogether, Finished
    <3>. QED
      BY <2>9, <3>2, <3>3 DEF MaskDamagedMeta
  <2>10. CASE MoveManifest \/ RepackManifest \/ RepackFails \/ MoveManifestBack
    <3>1. pc \in Finished /\ pc' \in Finished \cup {"idle"}
      BY <2>10 DEF MoveManifest, RepackManifest, RepackFails, MoveManifestBack, Finished
    <3>2. UNCHANGED <<orig, archive, mods>>
      BY <2>10 DEF MoveManifest, RepackManifest, RepackFails, MoveManifestBack
    <3>. QED
      BY <2>0, <3>1, <3>2 DEF InstalledTogether, Finished
  <2>11. CASE WriteFails \/ MoveFails
    BY <2>11, StrikeCounts DEF WriteFails, MoveFails, FaultKinds, OnlyKills
  <2>12. CASE Kill
    <3>1. pc' = "idle"
      BY <2>12 DEF Kill
    <3>2. ASSUME NEW f \in Files PROVE Exists(orig'[f])
      <4>1. \/ orig'[f] = orig[f]
            \/ \E t \in BOOLEAN : orig'[f] = TornFile(t)
        BY <2>12 DEF Kill, PartialWrite, CopyTo, TypeOK, TargetOf, Files
      <4>. QED
        BY <2>0, <4>1, VersionsExist
    <3>. QED
      BY <3>1, <3>2 DEF InstalledTogether, Finished
  <2>13. ASSUME NEW g \in Files, LoseFile(g) PROVE Q'
    BY <2>13, StrikeCounts DEF LoseFile, FaultKinds, OnlyKills
  <2>14. ASSUME NEW r \in Releases, Update(r) PROVE Q'
    BY <2>0, <2>14, VanillaType, VersionsExist DEF Update, InstalledTogether, Finished
  <2>15. CASE Verify
    BY <2>0, <2>15, VanillaType, VersionsExist
    DEF Verify, Vanilla, TypeOK, InstalledTogether, Finished
  <2>16. CASE ChangeMods \/ LoseCache
    BY <2>0, <2>16 DEF ChangeMods, LoseCache, InstalledTogether, Finished
  <2>17. CASE UNCHANGED vars
    BY <2>0, <2>17 DEF vars, InstalledTogether, OnlyKills
  <2>. QED
    BY <2>1, <2>2, <2>3, <2>4, <2>5, <2>6, <2>7, <2>8, <2>9, <2>10, <2>11, <2>12,
       <2>13, <2>14, <2>15, <2>16, <2>17
    DEF Next, RunStep, Fault, Outside
<1>3. InstalledTogetherInv => InstalledTogether
  BY DEF InstalledTogetherInv, InstalledTogether
<1>. QED
  BY <1>1, <1>2, <1>3, TypeCorrect, InjectionInvariant, PTL DEF Spec

-----------------------------------------------------------------------------
(* Vanilla sources                                                         *)

LEMMA LoaderSteps ==
  /\ Pms \in Files /\ Meta \in Files /\ Pms # Meta /\ Files = {Pms, Meta}
  /\ {"idle", "patch", "save", Pms, Meta} \cap AfterBackups = {}
  /\ {"idle", "patch", "save", Pms, Meta, "clean", "build", "inject", "mask"}
       \cap Finished = {}
  /\ Pms \notin {"idle", "patch", "save"} /\ Meta \notin {"idle", "patch", "save"}
  /\ Settled(Meta) = {"clean", "build", "inject", "mask"}
  /\ Settled(Pms) = {"clean", "build", "inject", "mask", Meta}
  /\ AfterBackups = {"clean", "build", "inject", "mask", "move"}
  /\ \A f \in Files : /\ {"clean", "build", "inject", "mask"} \subseteq Settled(f)
                      /\ {"idle", "patch", "save", Pms} \cap Settled(f) = {}
BY DEF Files, Pms, Meta, AfterBackups, Finished, Settled

LEMMA VanillaExists ==
  ASSUME TypeOK, NEW f \in Files
  PROVE  Exists(Vanilla(f)) /\ ~Vanilla(f).tag /\ IsWhole(Vanilla(f))
BY VanillaType, VersionsExist DEF TypeOK, Vanilla, Pristine

(* An unmarked file is vanilla, a marked one has a vanilla backup, and a   *)
(* cached hash that will let a run trust the backups may be trusted.       *)
THEOREM SafeInvariant == Spec => []SafeInv
<1> DEFINE Q(f) ==
      /\ Exists(orig[f])
      /\ ~orig[f].tag => orig[f] = Vanilla(f)
      /\ orig[f].tag => backup[f] = Vanilla(f)
      /\ pc \in {"idle", "patch", "save"} =>
           /\ cache.hash = manifest => backup[f] = Vanilla(f)
           /\ cache.hash \in Releases => backup[f] = Pristine(FileVersion[cache.hash][f])
      /\ pc \in Settled(f) \cup Finished => backup[f] = Vanilla(f)
      /\ pc \in {Pms, Meta} /\ ~updated => backup[f] = Vanilla(f)
<1> DEFINE G ==
      /\ manifest \in Releases => manifest = release
      /\ pc \in {"patch", "save"} =>
           newcache.hash = manifest /\ (updated <=> manifest # cache.hash)
      /\ pc \in {Pms, Meta} \cup AfterBackups => cache.hash = manifest
      /\ pc \in Finished /\ cache.hash \in Releases => cache.hash = release
<1>1. Init => SafeInv
  <2> SUFFICES ASSUME Init PROVE G /\ \A f \in Files : Q(f)
    BY DEF SafeInv
  <2>1. \A f \in Files : Exists(Vanilla(f)) /\ ~Vanilla(f).tag /\ NoHash \notin Releases
    BY ConstantsAssumption, VanillaType, VersionsExist DEF Init, Vanilla, Pristine
  <2>. QED
    BY <2>1, LoaderSteps, ConstantsAssumption DEF Init, DefaultCache
<1>2. TypeOK /\ SafeInv /\ [Next]_vars => SafeInv'
  <2> SUFFICES ASSUME TypeOK, SafeInv, [Next]_vars, Faultless'
               PROVE  G' /\ \A f \in Files : Q(f)'
    BY DEF SafeInv
  <2>0. G /\ \A f \in Files : Q(f)
    BY FaultsGrow DEF Faultless, SafeInv
  <2>a. \A k \in FaultKinds : ~Strike(k)
    BY StrikeCounts DEF Faultless
  <2>b. release' = release => \A f \in Files : Vanilla(f)' = Vanilla(f)
    BY DEF Vanilla
  <2> HIDE DEF G, Q
  <2> USE SuccessorValues, LoaderSteps
      DEF At, Goto, Proceed, Exit, world, disk, process, history, G, Q
  <2>1. CASE Launch
    <3>1. /\ pc = "idle" /\ pc' = "patch" /\ newcache'.hash = manifest
          /\ updated' <=> manifest # cache.hash
          /\ UNCHANGED <<release, orig, backup, manifest, cache>>
      BY <2>1 DEF Launch
    <3>2. ASSUME NEW f \in Files PROVE Q(f)'
      BY <2>0, <3>1, <2>b
    <3>. QED
      BY <2>0, <3>1, <3>2
  <2>2. CASE SkipPatcher \/ PatcherSucceeds \/ PatcherFails
    <3>1. /\ pc = "patch" /\ pc' \in {"save", "idle"}
          /\ UNCHANGED <<release, orig, backup, manifest, cache>>
      BY <2>2 DEF SkipPatcher, PatcherSucceeds, PatcherFails
    <3>2. pc' = "save" => newcache'.hash = newcache.hash /\ updated' = updated
      BY <2>2 DEF SkipPatcher, PatcherSucceeds, PatcherFails, SetPatched
    <3>. QED
      BY <2>0, <3>1, <3>2, <2>b
  <2>3. CASE SaveCache
    BY <2>0, <2>3, <2>b DEF SaveCache
  <2>4. ASSUME NEW g \in Files, ManageBackup(g) PROVE G' /\ \A f \in Files : Q(f)'
    <3>1. /\ pc = g /\ pc' = Successor[g] /\ pc' \in {Meta, "clean"}
          /\ UNCHANGED <<release, manifest, cache, updated>>
      BY <2>4 DEF ManageBackup
    <3>2. orig'[g] = Vanilla(g) /\ backup'[g] = Vanilla(g)
      <4>1. CASE ToBackup(g)
        <5>1. ~orig[g].tag
          BY <2>0, <4>1, VanillaExists DEF ToBackup, IsModded
        <5>. QED
          BY <2>0, <2>4, <4>1, <5>1 DEF ManageBackup, CopyTo, TypeOK
      <4>2. CASE ~ToBackup(g)
        <5>1. backup[g] = Vanilla(g)
          BY <2>0, <3>1, <4>2 DEF ToBackup, IsModded
        <5>. QED
          BY <2>4, <4>2, <5>1 DEF ManageBackup, CopyTo, TypeOK
      <4>. QED
        BY <4>1, <4>2
    <3>3. \A f \in Files \ {g} : orig'[f] = orig[f] /\ backup'[f] = backup[f]
      BY <2>4 DEF ManageBackup, CopyTo, TypeOK
    <3>4. G'
      BY <2>0, <3>1
    <3>5. Q(g)'
      BY <3>1, <3>2, <2>b, VanillaExists
    <3>6. ASSUME NEW f \in Files \ {g} PROVE Q(f)'
      BY <2>0, <3>1, <3>3, <2>b
    <3>. QED
      BY <3>4, <3>5, <3>6
  <2>5. ASSUME NEW g \in Files, OriginalMissing(g) PROVE FALSE
    BY <2>0, <2>5 DEF OriginalMissing
  <2>6. CASE CleanOutput \/ BuildArchive \/ NothingToLoad \/ InjectThrows
    <3>1. /\ pc \in {"clean", "build", "inject"}
          /\ pc' \in {"build", "inject", "move", "idle"}
          /\ UNCHANGED <<release, orig, backup, manifest, cache>>
      BY <2>6 DEF CleanOutput, BuildArchive, NothingToLoad, InjectThrows
    <3>2. ASSUME NEW f \in Files PROVE Q(f)'
      BY <2>0, <3>1, <2>b DEF Vanilla
    <3>. QED
      BY <2>0, <3>1, <3>2
  <2>7. CASE InjectArchive \/ MaskDamagedMeta
    <3>1. /\ pc \in {"inject", "mask"} /\ pc' \in {"mask", "move", "idle"}
          /\ UNCHANGED <<release, backup, manifest, cache>>
      BY <2>7, ZenonT(40) DEF InjectArchive, MaskDamagedMeta
    <3>2. ASSUME NEW f \in Files
          PROVE  orig'[f] = orig[f] \/ (Exists(orig'[f]) /\ orig'[f].tag)
      <4>1. \E c : /\ c.tag /\ Exists(c)
                   /\ orig' = orig \/ \E g \in Files : orig' = [orig EXCEPT ![g] = c]
        <5>1. CASE InjectArchive
          <6>1. PICK g \in Files : orig' = [orig EXCEPT ![g] = Inject(orig[g], archive)]
            BY <5>1 DEF InjectArchive, TargetOf
          <6>2. Inject(orig[g], archive).tag /\ Exists(Inject(orig[g], archive))
            BY <2>0, VersionsExist DEF Inject
          <6>. QED
            BY <6>1, <6>2
        <5>2. CASE MaskDamagedMeta
          <6>1. TornFile(TRUE).tag /\ Exists(TornFile(TRUE))
            BY VersionsExist DEF TornFile
          <6>2. orig' = orig \/ orig' = [orig EXCEPT ![Meta] = TornFile(TRUE)]
            BY <5>2 DEF MaskDamagedMeta
          <6>. QED
            BY <6>1, <6>2
        <5>. QED
          BY <2>7, <5>1, <5>2
      <4>. QED
        BY <4>1 DEF TypeOK
    <3>3. \A f \in Files : backup[f] = Vanilla(f)
      BY <2>0, <3>1
    <3>4. G'
      BY <2>0, <3>1
    <3>5. ASSUME NEW f \in Files PROVE Q(f)'
      BY <2>0, <3>1, <3>2, <3>3, <2>b DEF Vanilla
    <3>. QED
      BY <3>4, <3>5
  <2>8. CASE MoveManifest \/ RepackFails \/ MoveManifestBack
    <3>1. /\ pc \in Finished /\ pc' \in {"repack", "back", "idle"}
          /\ UNCHANGED <<release, orig, backup, manifest, cache>>
      BY <2>8 DEF MoveManifest, RepackFails, MoveManifestBack, Finished
    <3>2. /\ {"repack", "back"} \cap AfterBackups = {}
          /\ {"repack", "back"} \subseteq Finished
      BY DEF AfterBackups, Finished
    <3>. QED
      BY <2>0, <3>1, <3>2, <2>b DEF Vanilla
  <2>9. CASE RepackManifest
    <3>1. /\ pc \in Finished /\ pc' = "back"
          /\ UNCHANGED <<release, orig, backup, cache>>
          /\ manifest' \in Nonces \ {cache.hash}
      BY <2>9 DEF RepackManifest, Finished
    <3>2. "back" \notin AfterBackups /\ "back" \in Finished
      BY DEF AfterBackups, Finished
    <3>. QED
      BY <2>0, <3>1, <3>2, <2>b, ConstantsAssumption
  <2>10. CASE WriteFails \/ MoveFails \/ Kill \/ \E g \in Files : LoseFile(g)
    BY <2>10, <2>a DEF WriteFails, MoveFails, Kill, LoseFile, FaultKinds
  <2>11. ASSUME NEW r \in Releases, Update(r) PROVE G' /\ \A f \in Files : Q(f)'
    <3>1. /\ pc = "idle" /\ pc' = "idle" /\ release' = r /\ manifest' = r
          /\ UNCHANGED <<backup, cache>>
      BY <2>11 DEF Update
    <3>2. G'
      BY <3>1
    <3>3. ASSUME NEW f \in Files PROVE Q(f)'
      <4>1. Vanilla(f)' = Pristine(FileVersion[r][f])
        BY <3>1 DEF Vanilla
      <4>2. CASE FileVersion[r][f] = FileVersion[release][f]
        <5>1. orig'[f] = orig[f] /\ Vanilla(f)' = Vanilla(f)
          BY <2>11, <4>1, <4>2 DEF Update, Vanilla
        <5>2. (/\ Exists(orig[f])
               /\ ~orig[f].tag => orig[f] = Vanilla(f)
               /\ orig[f].tag => backup[f] = Vanilla(f))'
          BY <2>0, <3>1, <5>1
        <5>3. /\ cache.hash = r => backup[f] = Vanilla(f)'
              /\ cache.hash \in Releases => backup[f] = Pristine(FileVersion[cache.hash][f])
          BY <2>0, <3>1, <4>1
        <5>. QED
          BY <3>1, <5>2, <5>3
      <4>3. CASE FileVersion[r][f] # FileVersion[release][f]
        <5>1. orig'[f] = Vanilla(f)'
          BY <2>11, <4>1, <4>3 DEF Update
        <5>2. Exists(orig'[f]) /\ ~orig'[f].tag
          BY <4>1, <5>1, VanillaType, VersionsExist
        <5>. QED
          BY <2>0, <3>1, <4>1, <5>1, <5>2
      <4>. QED
        BY <4>2, <4>3
    <3>. QED
      BY <3>2, <3>3
  <2>12. CASE Verify
    <3>1. /\ pc = "idle" /\ pc' = "idle" /\ release' = release /\ manifest' = release
          /\ UNCHANGED <<backup, cache>> /\ \A f \in Files : orig'[f] = Vanilla(f)
      BY <2>12 DEF Verify
    <3>2. \A f \in Files : Vanilla(f) = Pristine(FileVersion[release][f])
      BY DEF Vanilla
    <3>3. ASSUME NEW f \in Files PROVE Q(f)'
      BY <2>0, <3>1, <3>2, <2>b, VanillaExists DEF TypeOK
    <3>. QED
      BY <3>1, <3>3
  <2>13. CASE ChangeMods
    BY <2>0, <2>13, <2>b DEF ChangeMods
  <2>14. CASE LoseCache
    <3>1. /\ pc = "idle" /\ pc' = "idle" /\ cache'.hash = NoHash
          /\ UNCHANGED <<release, orig, backup, manifest>>
      BY <2>14 DEF LoseCache, DefaultCache
    <3>2. NoHash \notin Releases /\ NoHash # manifest
      BY ConstantsAssumption DEF TypeOK, Manifests
    <3>. QED
      BY <2>0, <3>1, <3>2, <2>b
  <2>15. CASE UNCHANGED vars
    BY <2>0, <2>15, <2>b DEF vars
  <2>. QED
    BY <2>1, <2>2, <2>3, <2>4, <2>5, <2>6, <2>7, <2>8, <2>9, <2>10, <2>11, <2>12,
       <2>13, <2>14, <2>15
    DEF Next, RunStep, Fault, Outside
<1>. QED
  BY <1>1, <1>2, TypeCorrect, PTL DEF Spec

(* However updates, verifications and runs follow one another, the next    *)
(* run starts from the vanilla files of the release installed now.         *)
THEOREM SafeToReloadTheorem == Spec => []SafeToReload
<1>1. TypeOK /\ SafeInv => SafeToReload
  BY VanillaExists DEF SafeInv, SafeToReload, Reloadable, NextSource
<1>. QED
  BY <1>1, TypeCorrect, SafeInvariant, PTL

(* A kill between the backups and the manifest costs nothing the next run  *)
(* cannot restore.                                                         *)
THEOREM KillRecoverableTheorem == Spec => KillRecoverable
<1> DEFINE Step == pc \in AfterBackups /\ pc' = "idle" /\ Faultless => Reloadable'
<1>1. TypeOK /\ SafeInv /\ [Next]_vars => Step
  <2> SUFFICES ASSUME TypeOK, SafeInv, [Next]_vars,
                      pc \in AfterBackups, pc' = "idle", Faultless, NEW f \in Files
               PROVE  (NextSource(f) = Vanilla(f))'
    BY DEF Reloadable
  <2>1. UNCHANGED <<release, backup, manifest, cache>>
    <3>1. InjectThrows \/ MaskDamagedMeta \/ MoveFails \/ Kill
      BY SuccessorValues, LoaderSteps
      DEF Next, RunStep, Fault, Outside, Launch, SkipPatcher, PatcherSucceeds, PatcherFails,
          SaveCache, ManageBackup, OriginalMissing, CleanOutput, BuildArchive, NothingToLoad,
          InjectArchive, MoveManifest, RepackManifest, RepackFails, MoveManifestBack,
          WriteFails, LoseFile, Update, Verify, ChangeMods, LoseCache, vars, At, Goto, Proceed
    <3>2. CASE Kill
      <4>1. pc \notin {"save", "repack"} \cup Files
        BY LoaderSteps
      <4>. QED
        BY <3>2, <4>1 DEF Kill, PartialWrite, At, world
    <3>. QED
      BY <3>1, <3>2 DEF InjectThrows, MaskDamagedMeta, MoveFails, world, disk
  <2>2. backup[f] = Vanilla(f) /\ cache.hash = manifest
    BY LoaderSteps DEF SafeInv, Finished
  <2>3. Exists(backup[f])
    BY <2>2, VanillaExists
  <2>. QED
    BY <2>1, <2>2, <2>3 DEF NextSource, Vanilla
<1>. QED
  BY <1>1, TypeCorrect, SafeInvariant, PTL DEF Spec, KillRecoverable
=============================================================================
