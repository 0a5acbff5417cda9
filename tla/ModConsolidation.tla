-------------------------- MODULE ModConsolidation --------------------------
(***************************************************************************)
(* Reading the mods and resolving their conflicts (InjectorLoadMods with   *)
(* ModReader.cpp).  Every mod found is opened, its config read and its     *)
(* files taken or refused one by one; then one pass over all files taken   *)
(* keeps, for every asset path, the file that is to be loaded.             *)
(*                                                                         *)
(* The first mod stands for the unzipped files of the mods folder, which   *)
(* are zipped in memory and read like the others.  Zips come in the order  *)
(* of a directory iterator, which is unspecified.                          *)
(***************************************************************************)
EXTENDS Integers, Sequences

CONSTANTS
  Paths,       \* the names of the files in the mods, as they are spelled there
  Assets,      \* normalised asset paths
  TypeString,  \* TypeString[p]: what stands before the first delimiter of p
  AssetPath,   \* AssetPath[p]: what stands after it, normalised
  Mods,        \* the mods there may be
  MaxMods      \* bound: how many mods are found at once, the unzipped one included

CFG_PATH == "eternalmod.txt"
MOD_LOADER_VERSION == 1
LoosePriority == -999

(* The resource types that have an entry in ValidResourceTypes and are not *)
(* disabled there.                                                         *)
EnabledTypes == {"rs_streamfile"}

Configs == [requiredVersion : Int, loadPriority : Int, alias : [Paths -> Paths]]

ASSUME ConstantsAssumption ==
  /\ AssetPath \in [Paths -> Assets]
  /\ \A m \in Mods :
       /\ m.opens \in BOOLEAN
       /\ m.config \in Configs
       /\ m.files \in Seq([path : Paths, intact : BOOLEAN])
  /\ MaxMods \in Nat

VARIABLES
  found,          \* the mods found: whether each opens, its config and its files
  realmods,       \* what has been read of each: its loadPriority and modFiles
  priorityAssets, \* the file to load for every asset path met so far
  pc,             \* "open", "read", "resolve" or "done"
  mod,            \* the mod the current loop is at
  file            \* the file of it the current loop is at

vars == <<found, realmods, priorityAssets, pc, mod, file>>

ModFile(m, i, a) == [parentMod |-> m, dataBuffer |-> i, assetPath |-> a]

Init ==
  /\ \E n \in 1 .. MaxMods : found \in [1 .. n -> Mods]
  /\ realmods = [m \in DOMAIN found |->
                   [loadPriority |-> IF m = 1 THEN LoosePriority ELSE 0, modFiles |-> <<>>]]
  /\ priorityAssets = [a \in {} |-> 0]
  /\ pc = "open" /\ mod = 1 /\ file = 1

-----------------------------------------------------------------------------
(* ReadMod                                                                 *)

DefaultConfig == [requiredVersion |-> 1, loadPriority |-> 0, alias |-> [p \in Paths |-> p]]

Holds(m, p) == \E i \in DOMAIN m.files : m.files[i].path = p /\ m.files[i].intact

HasConfig(m) == Holds(m, CFG_PATH)

(* Where the config file is missing or broken the defaults stand, as they  *)
(* do for every property that is missing from it.                          *)
ReadConfigData(m) == IF HasConfig(m) THEN m.config ELSE DefaultConfig

(* No unzipped file there, or a zip that does not open.                    *)
Unreadable(k) == ~found[k].opens \/ (k = 1 /\ found[k].files = <<>>)

SkipMod ==
  /\ pc = "open" /\ mod \in DOMAIN found
  /\ Unreadable(mod)
  /\ mod' = mod + 1
  /\ UNCHANGED <<found, realmods, priorityAssets, pc, file>>

SetPriority(k) ==
  realmods' = [realmods EXCEPT ![k] = [loadPriority |-> ReadConfigData(found[k]).loadPriority,
                                       modFiles |-> realmods[k].modFiles]]

TooNew(k) == MOD_LOADER_VERSION < ReadConfigData(found[k]).requiredVersion

(* The mod requires a later version of the loader.                         *)
RefuseMod ==
  /\ pc = "open" /\ mod \in DOMAIN found
  /\ ~Unreadable(mod) /\ TooNew(mod)
  /\ SetPriority(mod)
  /\ mod' = mod + 1
  /\ UNCHANGED <<found, priorityAssets, pc, file>>

OpenMod ==
  /\ pc = "open" /\ mod \in DOMAIN found
  /\ ~Unreadable(mod) /\ ~TooNew(mod)
  /\ SetPriority(mod)
  /\ pc' = "read" /\ file' = 1
  /\ UNCHANGED <<found, priorityAssets, mod>>

EndReading ==
  /\ pc = "open" /\ mod \notin DOMAIN found
  /\ pc' = "resolve" /\ mod' = 1 /\ file' = 1
  /\ UNCHANGED <<found, realmods, priorityAssets>>

(* The name a file goes by: its alias, where the config gives it one.      *)
NameOf(k, i) == ReadConfigData(found[k]).alias[found[k].files[i].path]

(* Faulty variant: the name is taken as it is spelled.                     *)
AssetOfVerbatim(k, i) == NameOf(k, i)

AssetOf(k, i) == AssetPath[NameOf(k, i)]

(* The config itself, a name without a type or with one the loader does    *)
(* not support, and data that cannot be extracted are refused.             *)
Taken(k, i) ==
  /\ found[k].files[i].path # CFG_PATH
  /\ TypeString[NameOf(k, i)] \in EnabledTypes
  /\ found[k].files[i].intact

TakeFile ==
  /\ pc = "read" /\ file \in DOMAIN found[mod].files
  /\ Taken(mod, file)
  /\ realmods' =
       [realmods EXCEPT ![mod] =
          [loadPriority |-> realmods[mod].loadPriority,
           modFiles |-> Append(realmods[mod].modFiles,
                               ModFile(mod, file, AssetOf(mod, file)))]]
  /\ file' = file + 1
  /\ UNCHANGED <<found, priorityAssets, pc, mod>>

(* Faulty variant: the first file refused ends the reading of its mod.     *)
RefuseRest ==
  /\ pc = "read" /\ file \in DOMAIN found[mod].files
  /\ ~Taken(mod, file)
  /\ pc' = "open" /\ mod' = mod + 1
  /\ UNCHANGED <<found, realmods, priorityAssets, file>>

RefuseFile ==
  /\ pc = "read" /\ file \in DOMAIN found[mod].files
  /\ ~Taken(mod, file)
  /\ file' = file + 1
  /\ UNCHANGED <<found, realmods, priorityAssets, pc, mod>>

CloseMod ==
  /\ pc = "read" /\ file \notin DOMAIN found[mod].files
  /\ pc' = "open" /\ mod' = mod + 1
  /\ UNCHANGED <<found, realmods, priorityAssets, file>>

-----------------------------------------------------------------------------
(* The super mod                                                           *)

Current == realmods[mod].modFiles[file]

Resolving == pc = "resolve" /\ mod \in DOMAIN realmods /\ file \in DOMAIN realmods[mod].modFiles

Known == Current.assetPath \in DOMAIN priorityAssets

Map(f) ==
  priorityAssets' = [a \in DOMAIN priorityAssets \cup {f.assetPath} |->
                       IF a = f.assetPath THEN f ELSE priorityAssets[a]]

AddAsset ==
  /\ Resolving /\ ~Known
  /\ Map(Current)
  /\ file' = file + 1
  /\ UNCHANGED <<found, realmods, pc, mod>>

PriorityOf(f) == realmods[f.parentMod].loadPriority

(* Faulty variants: between equal priorities the later file wins, or the   *)
(* higher number does.                                                     *)
OverridesOnTie ==
  realmods[mod].loadPriority <= PriorityOf(priorityAssets[Current.assetPath])
OverridesHigher ==
  realmods[mod].loadPriority > PriorityOf(priorityAssets[Current.assetPath])

Overrides ==
  realmods[mod].loadPriority < PriorityOf(priorityAssets[Current.assetPath])

ReplaceAsset ==
  /\ Resolving /\ Known /\ Overrides
  /\ Map(Current)
  /\ file' = file + 1
  /\ UNCHANGED <<found, realmods, pc, mod>>

KeepAsset ==
  /\ Resolving /\ Known /\ ~Overrides
  /\ file' = file + 1
  /\ UNCHANGED <<found, realmods, priorityAssets, pc, mod>>

NextMod ==
  /\ pc = "resolve" /\ mod \in DOMAIN realmods /\ file \notin DOMAIN realmods[mod].modFiles
  /\ mod' = mod + 1 /\ file' = 1
  /\ UNCHANGED <<found, realmods, priorityAssets, pc>>

EndResolving ==
  /\ pc = "resolve" /\ mod \notin DOMAIN realmods
  /\ pc' = "done"
  /\ UNCHANGED <<found, realmods, priorityAssets, mod, file>>

-----------------------------------------------------------------------------
Next ==
  \/ SkipMod \/ RefuseMod \/ OpenMod \/ TakeFile \/ RefuseFile \/ CloseMod \/ EndReading
  \/ AddAsset \/ ReplaceAsset \/ KeepAsset \/ NextMod \/ EndResolving

Spec == Init /\ [][Next]_vars

-----------------------------------------------------------------------------
(* Properties                                                              *)

ModFiles == [parentMod : DOMAIN found, dataBuffer : Nat, assetPath : Assets]

(* Every file taken bears a normalised asset path and belongs to a mod     *)
(* that was found, and every asset is mapped to such a file (ModFile,      *)
(* ModDef and priorityAssets).                                             *)
TypeOK ==
  /\ \E n \in 1 .. MaxMods : found \in [1 .. n -> Mods]
  /\ realmods \in [DOMAIN found -> [loadPriority : Int, modFiles : Seq(ModFiles)]]
  /\ \E A \in SUBSET Assets : priorityAssets \in [A -> ModFiles]
  /\ pc \in {"open", "read", "resolve", "done"}
  /\ mod \in Nat \ {0} /\ file \in Nat \ {0}
  /\ pc = "read" => mod \in DOMAIN found

Loaded(k) == ~Unreadable(k) /\ ~TooNew(k)

(* The files of the mods found that should be considered for an asset: what*)
(* the mods folder offers, whatever the loops made of it.                  *)
Offers(a) ==
  UNION {{<<k, i>> : i \in {i \in DOMAIN found[k].files :
                             Loaded(k) /\ Taken(k, i) /\ AssetPath[NameOf(k, i)] = a}} :
         k \in DOMAIN found}

(* The super mod holds an asset exactly when some mod that could be read   *)
(* has a file for it: conflicts never lose an asset, and nothing of a      *)
(* refused mod or of a refused file slips in.                              *)
EveryAssetLoaded ==
  pc = "done" => DOMAIN priorityAssets = {a \in Assets : Offers(a) # {}}

Prior(k) == ReadConfigData(found[k]).loadPriority

Beats(c, d) ==
  \/ Prior(c[1]) < Prior(d[1])
  \/ Prior(c[1]) = Prior(d[1]) /\ c[1] < d[1]
  \/ c[1] = d[1] /\ c[2] <= d[2]

(* The file loaded for an asset is, among all files offered for it, the    *)
(* one of the mod with the lowest load priority; between equal priorities  *)
(* the mod found first wins, and within a mod (bad aliasing setups) the    *)
(* file read first.                                                        *)
LowestPriorityWins ==
  pc = "done" =>
    \A a \in DOMAIN priorityAssets :
      LET winner == <<priorityAssets[a].parentMod, priorityAssets[a].dataBuffer>> IN
        /\ winner \in Offers(a)
        /\ \A c \in Offers(a) : Beats(winner, c)

-----------------------------------------------------------------------------
(* Inductive strengthening, used by the proofs                             *)

(* What the reading loop and the resolving loop have dealt with.           *)
Opened(k) == pc \in {"resolve", "done"} \/ k < mod \/ (pc = "read" /\ k = mod)

Considered(k, i) ==
  pc \in {"resolve", "done"} \/ k < mod \/ (pc = "read" /\ k = mod /\ i < file)

Met(k, j) == pc = "done" \/ (pc = "resolve" /\ (k < mod \/ (k = mod /\ j < file)))

(* What has been read of a mod is, in order, what is to be taken of it.    *)
IsOffer(k, f) ==
  /\ f.parentMod = k
  /\ f.dataBuffer \in DOMAIN found[k].files
  /\ Considered(k, f.dataBuffer)
  /\ Loaded(k) /\ Taken(k, f.dataBuffer)
  /\ f.assetPath = AssetPath[NameOf(k, f.dataBuffer)]

PriorityRead ==
  \A k \in DOMAIN found : Loaded(k) /\ Opened(k) => realmods[k].loadPriority = Prior(k)

OnlyOffers ==
  \A k \in DOMAIN found : \A j \in DOMAIN realmods[k].modFiles :
    IsOffer(k, realmods[k].modFiles[j])

AllOffers ==
  \A k \in DOMAIN found : \A i \in DOMAIN found[k].files :
    Considered(k, i) /\ Loaded(k) /\ Taken(k, i) =>
      \E j \in DOMAIN realmods[k].modFiles : realmods[k].modFiles[j].dataBuffer = i

InOrder ==
  \A k \in DOMAIN found : \A j1, j2 \in DOMAIN realmods[k].modFiles :
    j1 < j2 => realmods[k].modFiles[j1].dataBuffer < realmods[k].modFiles[j2].dataBuffer

ReadInv ==
  (\A k \in DOMAIN found : pc = "read" /\ k = mod => Loaded(k)) /\ PriorityRead /\ OnlyOffers /\ AllOffers /\ InOrder

(* Every mapping is to a file met, and to the best of those met.           *)
BestOfMet(k, f) ==
  /\ f.assetPath \in DOMAIN priorityAssets
  /\ LET w == priorityAssets[f.assetPath] IN
       Beats(<<w.parentMod, w.dataBuffer>>, <<k, f.dataBuffer>>)

MappedMet ==
  \A a \in DOMAIN priorityAssets :
    \E k \in DOMAIN found : \E j \in DOMAIN realmods[k].modFiles :
      Met(k, j) /\ priorityAssets[a] = realmods[k].modFiles[j] /\ priorityAssets[a].assetPath = a

BestMet ==
  \A k \in DOMAIN found : \A j \in DOMAIN realmods[k].modFiles :
    Met(k, j) => BestOfMet(k, realmods[k].modFiles[j])

ResolveInv ==
  (pc \in {"open", "read"} => DOMAIN priorityAssets = {}) /\ MappedMet /\ BestMet

=============================================================================
