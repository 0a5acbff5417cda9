----------------------- MODULE ModConsolidationProofs -----------------------
(***************************************************************************)
(* Proofs about reading the mods and resolving their conflicts, for any    *)
(* mods folder: the super mod holds exactly the assets that some readable  *)
(* mod offers, each from the mod of the lowest load priority.              *)
(***************************************************************************)
EXTENDS ModConsolidation, TLAPS

-----------------------------------------------------------------------------
(* What the mods folder offers does not change                             *)

LEMMA Elements ==
  ASSUME NEW S, NEW s \in Seq(S), NEW i \in DOMAIN s
  PROVE  s[i] \in S /\ i \in Nat \ {0} /\ i <= Len(s)
OBVIOUS

(* A name has a normalised asset path, whether or not it is an alias, and  *)
(* a config, whether read or the default one, has its settings.            *)
LEMMA ConfigTypes ==
  ASSUME NEW k \in DOMAIN found, found[k] \in Mods
  PROVE  /\ ReadConfigData(found[k]) \in Configs
         /\ Prior(k) \in Int
         /\ found[k].files \in Seq([path : Paths, intact : BOOLEAN])
         /\ \A i \in DOMAIN found[k].files : NameOf(k, i) \in Paths /\ AssetOf(k, i) \in Assets
<1>1. found[k].config \in Configs /\ found[k].files \in Seq([path : Paths, intact : BOOLEAN])
  BY ConstantsAssumption
<1>2. DefaultConfig \in Configs
  BY DEF DefaultConfig, Configs
<1>3. ReadConfigData(found[k]) \in Configs
  BY <1>1, <1>2 DEF ReadConfigData
<1>4. Prior(k) \in Int
  BY <1>3 DEF Prior, Configs
<1>5. ASSUME NEW i \in DOMAIN found[k].files
      PROVE  NameOf(k, i) \in Paths /\ AssetOf(k, i) \in Assets
  <2>1. found[k].files[i] \in [path : Paths, intact : BOOLEAN]
    BY <1>1, <1>5, Elements
  <2>2. NameOf(k, i) \in Paths
    BY <1>3, <2>1 DEF NameOf, Configs
  <2> QED BY <2>2, ConstantsAssumption DEF AssetOf
<1> QED BY <1>1, <1>3, <1>4, <1>5

(* As long as found stays the same, so does everything said of it.         *)
LEMMA FoundIsFixed ==
  ASSUME found' = found
  PROVE  /\ \A k : (Loaded(k)' <=> Loaded(k)) /\ Prior(k)' = Prior(k)
         /\ \A k, i : (Taken(k, i)' <=> Taken(k, i)) /\ NameOf(k, i)' = NameOf(k, i)
         /\ \A c, d : Beats(c, d)' <=> Beats(c, d)
<1>1. \A k : ReadConfigData(found[k])' = ReadConfigData(found[k])
  BY DEF ReadConfigData, HasConfig, Holds, DefaultConfig
<1>2. \A k : Unreadable(k)' <=> Unreadable(k)
  BY DEF Unreadable
<1>3. \A k : TooNew(k)' <=> TooNew(k)
  BY <1>1 DEF TooNew
<1>4. \A k : Loaded(k)' <=> Loaded(k)
  BY <1>2, <1>3 DEF Loaded
<1>5. \A k : Prior(k)' = Prior(k)
  BY <1>1 DEF Prior
<1>6. \A k, i : NameOf(k, i)' = NameOf(k, i)
  BY <1>1 DEF NameOf
<1>7. \A k, i : Taken(k, i)' <=> Taken(k, i)
  BY <1>6 DEF Taken
<1>8. \A c, d : Beats(c, d)' <=> Beats(c, d)
  BY <1>5 DEF Beats
<1> QED BY <1>4, <1>5, <1>6, <1>7, <1>8

(* No action touches what was found.                                       *)
LEMMA FoundStays == [Next]_vars => found' = found
BY DEF Next, SkipMod, RefuseMod, OpenMod, TakeFile, RefuseFile, CloseMod, EndReading, AddAsset,
       ReplaceAsset, KeepAsset, NextMod, EndResolving, vars

(* The domain of found is an initial segment of the numbers.               *)
LEMMA Mods1n ==
  ASSUME TypeOK
  PROVE  /\ \A k \in DOMAIN found : k \in Nat \ {0} /\ found[k] \in Mods
         /\ \A k \in DOMAIN found : \A m \in Nat \ {0} : m <= k => m \in DOMAIN found
         /\ \A k \in DOMAIN found : found[k].files \in Seq([path : Paths, intact : BOOLEAN])
         /\ DOMAIN realmods = DOMAIN found
         /\ \A k \in DOMAIN found : realmods[k].modFiles \in Seq(ModFiles)
                                    /\ realmods[k].loadPriority \in Int
<1>1. PICK n \in 1 .. MaxMods : found \in [1 .. n -> Mods]
  BY DEF TypeOK
<1>2. DOMAIN found = 1 .. n /\ \A k \in 1 .. n : found[k] \in Mods
  BY <1>1
<1>3. n \in Nat
  BY ConstantsAssumption
<1>4. \A k \in DOMAIN found : found[k].files \in Seq([path : Paths, intact : BOOLEAN])
  BY <1>2, ConfigTypes
<1>5. /\ DOMAIN realmods = DOMAIN found
      /\ \A k \in DOMAIN found : realmods[k] \in [loadPriority : Int, modFiles : Seq(ModFiles)]
  BY DEF TypeOK
<1>6. \A k \in DOMAIN found : realmods[k].modFiles \in Seq(ModFiles)
                              /\ realmods[k].loadPriority \in Int
  BY <1>5
<1>7. \A k \in DOMAIN found : k \in Nat \ {0} /\ found[k] \in Mods
  BY <1>2, <1>3
<1>8. \A k \in DOMAIN found : \A m \in Nat \ {0} : m <= k => m \in DOMAIN found
  BY <1>2, <1>3
<1> QED BY <1>4, <1>5, <1>6, <1>7, <1>8

-----------------------------------------------------------------------------
(* Type correctness                                                        *)

LEMMA TypeInit == Init => TypeOK
<1> SUFFICES ASSUME Init PROVE TypeOK
  OBVIOUS
<1>1. \E n \in 1 .. MaxMods : found \in [1 .. n -> Mods]
  BY DEF Init
<1>2. realmods \in [DOMAIN found -> [loadPriority : Int, modFiles : Seq(ModFiles)]]
  BY DEF Init, LoosePriority
<1>3. DOMAIN priorityAssets = {} /\ priorityAssets \in [{} -> ModFiles]
  BY DEF Init
<1>4. \E A \in SUBSET Assets : priorityAssets \in [A -> ModFiles]
  BY <1>3
<1>5. mod \in Nat \ {0} /\ file \in Nat \ {0} /\ pc = "open"
  BY DEF Init
<1> QED BY <1>1, <1>2, <1>4, <1>5 DEF TypeOK

(* Setting the priority of a mod keeps the type of what was read.          *)
LEMMA SetPriorityType ==
  ASSUME TypeOK, NEW k \in DOMAIN found, SetPriority(k), found' = found
  PROVE  (realmods \in [DOMAIN found -> [loadPriority : Int, modFiles : Seq(ModFiles)]])'
<1>1. found[k] \in Mods
  BY Mods1n
<1>2. ReadConfigData(found[k]).loadPriority \in Int
  BY <1>1, ConfigTypes DEF Configs
<1>3. ModFiles' = ModFiles
  BY DEF ModFiles
<1>4. realmods[k].modFiles \in Seq(ModFiles)
  BY Mods1n
<1>5. [loadPriority |-> ReadConfigData(found[k]).loadPriority, modFiles |-> realmods[k].modFiles]
        \in [loadPriority : Int, modFiles : Seq(ModFiles)]
  BY <1>2, <1>4
<1> QED BY <1>3, <1>5 DEF TypeOK, SetPriority

LEMMA TypeStep == TypeOK /\ [Next]_vars => TypeOK'
<1> SUFFICES ASSUME TypeOK, [Next]_vars PROVE TypeOK'
  OBVIOUS
<1> DEFINE Read == [DOMAIN found -> [loadPriority : Int, modFiles : Seq(ModFiles)]]
<1>a. found' = found /\ ModFiles' = ModFiles
  BY FoundStays DEF ModFiles
<1>b. \E n \in 1 .. MaxMods : found' \in [1 .. n -> Mods]
  BY <1>a DEF TypeOK
<1>c. realmods \in Read /\ \E A \in SUBSET Assets : priorityAssets \in [A -> ModFiles]
  BY DEF TypeOK
<1>1. CASE SkipMod
  <2>1. mod' \in Nat \ {0} /\ file' \in Nat \ {0} /\ pc' = "open"
    BY <1>1 DEF SkipMod, TypeOK
  <2> QED BY <1>1, <2>1, <1>a, <1>b, <1>c DEF SkipMod, TypeOK
<1>2. CASE RefuseMod
  <2>1. realmods' \in Read
    BY <1>2, <1>a, SetPriorityType DEF RefuseMod
  <2> QED BY <1>2, <2>1, <1>a, <1>b, <1>c DEF RefuseMod, TypeOK
<1>3. CASE OpenMod
  <2>1. realmods' \in Read
    BY <1>3, <1>a, SetPriorityType DEF OpenMod
  <2> QED BY <1>3, <2>1, <1>a, <1>b, <1>c DEF OpenMod, TypeOK
<1>4. CASE TakeFile
  <2>1. mod \in DOMAIN found /\ found[mod] \in Mods /\ file \in Nat
    BY <1>4, Mods1n DEF TakeFile, TypeOK
  <2>2. AssetPath[NameOf(mod, file)] \in Assets
    BY <1>4, <2>1, ConfigTypes DEF TakeFile, AssetOf
  <2>3. ModFile(mod, file, AssetOf(mod, file)) \in ModFiles
    BY <2>1, <2>2 DEF ModFile, ModFiles, AssetOf
  <2>4. realmods[mod].modFiles \in Seq(ModFiles) /\ realmods[mod].loadPriority \in Int
    BY <2>1, Mods1n
  <2>5. Append(realmods[mod].modFiles, ModFile(mod, file, AssetOf(mod, file))) \in Seq(ModFiles)
    BY <2>3, <2>4
  <2>6. realmods' \in Read
    BY <1>4, <1>c, <2>4, <2>5 DEF TakeFile
  <2> QED BY <1>4, <2>6, <1>a, <1>b, <1>c DEF TakeFile, TypeOK
<1>5. CASE RefuseFile
  BY <1>5, <1>a, <1>b, <1>c DEF RefuseFile, TypeOK
<1>6. CASE CloseMod
  BY <1>6, <1>a, <1>b, <1>c DEF CloseMod, TypeOK
<1>7. CASE EndReading
  BY <1>7, <1>a, <1>b, <1>c DEF EndReading, TypeOK
<1>8. ASSUME Resolving, Map(Current)
      PROVE  \E A \in SUBSET Assets : priorityAssets' \in [A -> ModFiles]
  <2>1. realmods[mod].modFiles \in Seq(ModFiles)
    BY <1>8, Mods1n DEF Resolving
  <2>2. Current \in ModFiles
    BY <1>8, <2>1 DEF Resolving, Current
  <2>3. Current.assetPath \in Assets
    BY <2>2 DEF ModFiles
  <2>4. PICK A \in SUBSET Assets : priorityAssets \in [A -> ModFiles]
    BY <1>c
  <2>5. priorityAssets' \in [A \cup {Current.assetPath} -> ModFiles]
    BY <1>8, <2>2, <2>4 DEF Map
  <2> QED BY <2>3, <2>5
<1>9. CASE AddAsset
  BY <1>8, <1>9, <1>a, <1>b, <1>c DEF AddAsset, TypeOK
<1>10. CASE ReplaceAsset
  BY <1>8, <1>10, <1>a, <1>b, <1>c DEF ReplaceAsset, TypeOK
<1>11. CASE KeepAsset
  BY <1>11, <1>a, <1>b, <1>c DEF KeepAsset, TypeOK
<1>12. CASE NextMod
  BY <1>12, <1>a, <1>b, <1>c DEF NextMod, TypeOK
<1>13. CASE EndResolving
  BY <1>13, <1>a, <1>b, <1>c DEF EndResolving, TypeOK
<1>14. CASE UNCHANGED vars
  BY <1>14, <1>a, <1>b, <1>c DEF vars, TypeOK
<1> QED
  BY <1>1, <1>2, <1>3, <1>4, <1>5, <1>6, <1>7, <1>9, <1>10, <1>11, <1>12, <1>13, <1>14 DEF Next

(* Every file taken bears a normalised asset path and every asset is       *)
(* mapped to a file of a mod that was found (ModFile, priorityAssets).     *)
THEOREM TypeCorrect == Spec => []TypeOK
<1>1. Init => TypeOK
  BY TypeInit
<1>2. TypeOK /\ [Next]_vars => TypeOK'
  BY TypeStep
<1> QED BY <1>1, <1>2, PTL DEF Spec

-----------------------------------------------------------------------------
(* What is read of the mods                                                *)

LEMMA ReadInit == Init => ReadInv
<1> SUFFICES ASSUME Init PROVE ReadInv
  OBVIOUS
<1>1. pc = "open" /\ mod = 1 /\ DOMAIN realmods = DOMAIN found
  BY DEF Init
<1>2. \A k \in DOMAIN found : k \in Nat \ {0} /\ realmods[k].modFiles = <<>>
  BY DEF Init
<1>3. \A k \in DOMAIN found : ~Opened(k) /\ \A i : ~Considered(k, i)
  BY <1>1, <1>2 DEF Opened, Considered
<1> QED BY <1>1, <1>2, <1>3 DEF ReadInv, PriorityRead, OnlyOffers, AllOffers, InOrder

(* A step that takes no file, but deals only with files not to be taken.   *)
LEMMA NoFileTaken ==
  ASSUME ReadInv, found' = found,
         \A k \in DOMAIN found : realmods'[k].modFiles = realmods[k].modFiles,
         \A k \in DOMAIN found : \A i \in DOMAIN found[k].files :
           /\ Considered(k, i) => Considered(k, i)'
           /\ Considered(k, i)' /\ Loaded(k) /\ Taken(k, i) => Considered(k, i)
  PROVE  OnlyOffers' /\ AllOffers' /\ InOrder'
<1> USE FoundIsFixed
<1>1. \A k \in DOMAIN found : \A f : IsOffer(k, f) => IsOffer(k, f)'
  BY DEF IsOffer
<1>2. OnlyOffers'
  BY <1>1 DEF ReadInv, OnlyOffers
<1>3. AllOffers'
  BY DEF ReadInv, AllOffers
<1>4. InOrder'
  BY DEF ReadInv, InOrder
<1> QED BY <1>2, <1>3, <1>4

(* The priority read of a mod is that of its config; the others keep       *)
(* theirs.                                                                 *)
LEMMA SetPriorityEffect ==
  ASSUME TypeOK, NEW k \in DOMAIN found, SetPriority(k)
  PROVE  /\ realmods'[k].loadPriority = Prior(k)
         /\ \A m \in DOMAIN found : m # k => realmods'[m] = realmods[m]
         /\ \A m \in DOMAIN found : realmods'[m].modFiles = realmods[m].modFiles
<1>1. DOMAIN realmods = DOMAIN found
  BY Mods1n
<1>2. realmods'[k] = [loadPriority |-> ReadConfigData(found[k]).loadPriority,
                      modFiles |-> realmods[k].modFiles]
  BY <1>1 DEF SetPriority
<1>3. \A m \in DOMAIN found : m # k => realmods'[m] = realmods[m]
  BY <1>1 DEF SetPriority
<1> QED BY <1>2, <1>3 DEF Prior

(* The effect of taking a file: it comes last in what was read of its mod. *)
LEMMA TakeFileEffect ==
  ASSUME TypeOK, TakeFile
  PROVE  /\ mod \in DOMAIN found /\ file \in DOMAIN found[mod].files
         /\ \A m \in DOMAIN found : m # mod => realmods'[m] = realmods[m]
         /\ realmods'[mod].loadPriority = realmods[mod].loadPriority
         /\ LET fs == realmods[mod].modFiles IN
              /\ DOMAIN realmods'[mod].modFiles = DOMAIN fs \cup {Len(fs) + 1}
              /\ Len(fs) \in Nat /\ DOMAIN fs = 1 .. Len(fs)
              /\ \A j \in DOMAIN fs : realmods'[mod].modFiles[j] = fs[j]
              /\ realmods'[mod].modFiles[Len(fs) + 1] =
                   [parentMod |-> mod, dataBuffer |-> file,
                    assetPath |-> AssetPath[NameOf(mod, file)]]
<1> DEFINE fs == realmods[mod].modFiles
<1> DEFINE new == ModFile(mod, file, AssetOf(mod, file))
<1>1. mod \in DOMAIN found /\ file \in DOMAIN found[mod].files
  BY DEF TakeFile, TypeOK
<1>2. DOMAIN realmods = DOMAIN found /\ fs \in Seq(ModFiles)
  BY <1>1, Mods1n
<1>3. realmods'[mod].modFiles = Append(fs, new)
      /\ realmods'[mod].loadPriority = realmods[mod].loadPriority
  BY <1>1, <1>2 DEF TakeFile
<1>4. \A m \in DOMAIN found : m # mod => realmods'[m] = realmods[m]
  BY <1>2 DEF TakeFile
<1>5. ASSUME NEW s \in Seq(ModFiles), NEW x
      PROVE  /\ DOMAIN Append(s, x) = DOMAIN s \cup {Len(s) + 1}
             /\ Len(s) \in Nat /\ DOMAIN s = 1 .. Len(s)
             /\ \A j \in DOMAIN s : Append(s, x)[j] = s[j]
             /\ Append(s, x)[Len(s) + 1] = x
  OBVIOUS
<1> HIDE DEF fs, new
<1>6. /\ DOMAIN realmods'[mod].modFiles = DOMAIN fs \cup {Len(fs) + 1}
      /\ Len(fs) \in Nat /\ DOMAIN fs = 1 .. Len(fs)
      /\ \A j \in DOMAIN fs : realmods'[mod].modFiles[j] = fs[j]
      /\ realmods'[mod].modFiles[Len(fs) + 1] = new
  BY <1>2, <1>3, <1>5
<1>7. new = [parentMod |-> mod, dataBuffer |-> file, assetPath |-> AssetPath[NameOf(mod, file)]]
  BY DEF new, ModFile, AssetOf
<1> QED BY <1>1, <1>3, <1>4, <1>6, <1>7 DEF fs

LEMMA ReadStep == TypeOK /\ ReadInv /\ [Next]_vars => ReadInv'
<1> SUFFICES ASSUME TypeOK, ReadInv, [Next]_vars PROVE ReadInv'
  OBVIOUS
<1> USE FoundIsFixed
<1>a. found' = found
  BY FoundStays
<1>b. \A k \in DOMAIN found : k \in Nat /\ \A i \in DOMAIN found[k].files : i \in Nat \ {0}
  BY Mods1n, Elements
<1>c. mod \in Nat \ {0} /\ file \in Nat \ {0} /\ DOMAIN realmods = DOMAIN found
  BY Mods1n DEF TypeOK
<1>d. PriorityRead /\ \A k \in DOMAIN found : pc = "read" /\ k = mod => Loaded(k)
  BY DEF ReadInv
<1>1. CASE SkipMod
  <2>1. ~Loaded(mod) /\ pc = "open" /\ pc' = "open" /\ mod' = mod + 1 /\ realmods' = realmods
    BY <1>1 DEF SkipMod, Loaded
  <2>2. OnlyOffers' /\ AllOffers' /\ InOrder'
    BY <2>1, <1>a, <1>b, <1>c, NoFileTaken DEF Considered
  <2>3. PriorityRead'
    BY <2>1, <1>a, <1>b, <1>c, <1>d DEF PriorityRead, Opened
  <2> QED BY <2>1, <1>a, <2>2, <2>3 DEF ReadInv
<1>2. CASE RefuseMod
  <2>1. ~Loaded(mod) /\ pc = "open" /\ pc' = "open" /\ mod' = mod + 1
        /\ mod \in DOMAIN found /\ SetPriority(mod)
    BY <1>2 DEF RefuseMod, Loaded
  <2>2. OnlyOffers' /\ AllOffers' /\ InOrder'
    BY <2>1, <1>a, <1>b, <1>c, NoFileTaken, SetPriorityEffect DEF Considered
  <2>3. PriorityRead'
    BY <2>1, <1>a, <1>b, <1>c, <1>d, SetPriorityEffect DEF PriorityRead, Opened
  <2> QED BY <2>1, <1>a, <2>2, <2>3 DEF ReadInv
<1>3. CASE OpenMod
  <2>1. Loaded(mod) /\ pc = "open" /\ pc' = "read" /\ mod' = mod /\ file' = 1
        /\ mod \in DOMAIN found /\ SetPriority(mod)
    BY <1>3 DEF OpenMod, Loaded
  <2>2. OnlyOffers' /\ AllOffers' /\ InOrder'
    BY <2>1, <1>a, <1>b, <1>c, NoFileTaken, SetPriorityEffect DEF Considered
  <2>3. PriorityRead'
    BY <2>1, <1>a, <1>b, <1>c, <1>d, SetPriorityEffect DEF PriorityRead, Opened
  <2>4. \A k \in DOMAIN found : k = mod' => Loaded(k)'
    BY <2>1, <1>a
  <2> QED BY <2>1, <1>a, <2>2, <2>3, <2>4 DEF ReadInv
<1>4. CASE TakeFile
  <2> DEFINE fs == realmods[mod].modFiles
  <2>1. pc = "read" /\ pc' = "read" /\ mod' = mod /\ file' = file + 1 /\ Taken(mod, file)
    BY <1>4 DEF TakeFile
  <2>2. \A k \in DOMAIN found : k = mod => Loaded(k) /\ Loaded(k)'
    BY <2>1, <1>a, <1>d
  <2>3. /\ mod \in DOMAIN found /\ file \in DOMAIN found[mod].files
        /\ \A m \in DOMAIN found : m # mod => realmods'[m] = realmods[m]
        /\ realmods'[mod].loadPriority = realmods[mod].loadPriority
        /\ DOMAIN realmods'[mod].modFiles = DOMAIN fs \cup {Len(fs) + 1}
        /\ Len(fs) \in Nat /\ DOMAIN fs = 1 .. Len(fs)
        /\ \A j \in DOMAIN fs : realmods'[mod].modFiles[j] = fs[j]
        /\ realmods'[mod].modFiles[Len(fs) + 1] =
             [parentMod |-> mod, dataBuffer |-> file, assetPath |-> AssetPath[NameOf(mod, file)]]
    BY <1>4, TakeFileEffect
  <2>4. PriorityRead'
    BY <2>1, <2>3, <1>a, <1>d DEF PriorityRead, Opened
  <2>5. \A k \in DOMAIN found : \A i \in DOMAIN found[k].files :
          Considered(k, i)' <=> Considered(k, i) \/ (k = mod /\ i = file)
    BY <2>1, <1>b, <1>c DEF Considered
  <2>6. OnlyOffers'
    <3>1. ASSUME NEW k \in DOMAIN found, NEW f, IsOffer(k, f)
          PROVE  IsOffer(k, f)'
      <4>1. Considered(k, f.dataBuffer)'
        BY <3>1, <2>5 DEF IsOffer
      <4> QED BY <3>1, <4>1, <1>a DEF IsOffer
    <3>2. ASSUME NEW k \in DOMAIN found, NEW i \in DOMAIN found[k].files, NEW f,
                 k = mod, i = file,
                 f = [parentMod |-> k, dataBuffer |-> i, assetPath |-> AssetPath[NameOf(k, i)]]
          PROVE  IsOffer(k, f)'
      <4>1. Considered(k, i)'
        BY <3>2, <2>5
      <4>2. Loaded(k)' /\ Taken(k, i)' /\ NameOf(k, i)' = NameOf(k, i)
        BY <3>2, <2>1, <2>2, <1>a
      <4>3. f.parentMod = k /\ f.dataBuffer = i /\ f.assetPath = AssetPath[NameOf(k, i)]
        BY <3>2
      <4> QED BY <4>1, <4>2, <4>3, <1>a DEF IsOffer
    <3>3. ASSUME NEW k \in DOMAIN found, NEW j \in DOMAIN realmods'[k].modFiles,
                 NEW f, f = realmods'[k].modFiles[j]
          PROVE  IsOffer(k, f)'
      <4>1. CASE k # mod
        BY <4>1, <3>1, <3>3, <2>3 DEF ReadInv, OnlyOffers
      <4>2. CASE k = mod /\ j \in DOMAIN fs
        BY <4>2, <3>1, <3>3, <2>3 DEF ReadInv, OnlyOffers
      <4>3. CASE k = mod /\ j = Len(fs) + 1
        BY <4>3, <3>2, <3>3, <2>3
      <4> QED BY <3>3, <4>1, <4>2, <4>3, <2>3
    <3> QED BY <3>3, <1>a DEF OnlyOffers
  <2>7. AllOffers'
    <3>1. ASSUME NEW k \in DOMAIN found, NEW i \in DOMAIN found[k].files,
                 Considered(k, i)', Loaded(k), Taken(k, i)
          PROVE  \E j \in DOMAIN realmods'[k].modFiles : realmods'[k].modFiles[j].dataBuffer = i
      <4>1. CASE k = mod /\ i = file
        BY <4>1, <2>3
      <4>2. CASE Considered(k, i)
        <5>1. PICK j \in DOMAIN realmods[k].modFiles : realmods[k].modFiles[j].dataBuffer = i
          BY <4>2, <3>1 DEF ReadInv, AllOffers
        <5> QED BY <5>1, <2>3
      <4> QED BY <3>1, <4>1, <4>2, <2>5
    <3> QED BY <3>1, <1>a DEF AllOffers
  <2>8. InOrder'
    <3>1. ASSUME NEW j \in DOMAIN fs PROVE fs[j].dataBuffer < file
      <4>1. IsOffer(mod, fs[j])
        BY <3>1, <2>3 DEF ReadInv, OnlyOffers
      <4> QED BY <4>1, <2>1, <1>b, <1>c DEF IsOffer, Considered
    <3>2. ASSUME NEW k \in DOMAIN found, NEW j1 \in DOMAIN realmods'[k].modFiles,
                 NEW j2 \in DOMAIN realmods'[k].modFiles, j1 < j2
          PROVE  realmods'[k].modFiles[j1].dataBuffer < realmods'[k].modFiles[j2].dataBuffer
      <4>1. CASE k # mod
        BY <4>1, <3>2, <2>3 DEF ReadInv, InOrder
      <4>2. CASE k = mod /\ j2 \in DOMAIN fs
        <5>1. j1 \in DOMAIN fs
          BY <4>2, <3>2, <2>3
        <5> QED BY <4>2, <5>1, <3>2, <2>3 DEF ReadInv, InOrder
      <4>3. CASE k = mod /\ j2 = Len(fs) + 1
        <5>1. j1 \in DOMAIN fs
          BY <4>3, <3>2, <2>3
        <5>2. realmods'[k].modFiles[j2].dataBuffer = file
          BY <4>3, <2>3
        <5> QED BY <4>3, <5>1, <5>2, <3>1, <2>3
      <4> QED BY <3>2, <4>1, <4>2, <4>3, <2>3
    <3> QED BY <3>2, <1>a DEF InOrder
  <2> QED BY <2>1, <1>a, <2>2, <2>4, <2>6, <2>7, <2>8 DEF ReadInv
<1>5. CASE RefuseFile
  <2>1. pc = "read" /\ pc' = "read" /\ mod' = mod /\ file' = file + 1 /\ ~Taken(mod, file)
        /\ realmods' = realmods
    BY <1>5 DEF RefuseFile
  <2>2. OnlyOffers' /\ AllOffers' /\ InOrder'
    BY <2>1, <1>a, <1>b, <1>c, NoFileTaken DEF Considered
  <2>3. PriorityRead'
    BY <2>1, <1>a, <1>d DEF PriorityRead, Opened
  <2>4. \A k \in DOMAIN found : k = mod' => Loaded(k)'
    BY <2>1, <1>a, <1>d
  <2> QED BY <2>1, <1>a, <2>2, <2>3, <2>4 DEF ReadInv
<1>6. CASE CloseMod
  <2>1. pc = "read" /\ pc' = "open" /\ mod' = mod + 1 /\ file \notin DOMAIN found[mod].files
        /\ realmods' = realmods /\ mod \in DOMAIN found
    BY <1>6 DEF CloseMod, TypeOK
  <2>2. found[mod].files \in Seq([path : Paths, intact : BOOLEAN])
    BY <2>1, Mods1n
  <2>3. \A i \in DOMAIN found[mod].files : i < file
    BY <2>1, <2>2, <1>c
  <2>4. OnlyOffers' /\ AllOffers' /\ InOrder'
    BY <2>1, <2>3, <1>a, <1>b, <1>c, NoFileTaken DEF Considered
  <2>5. PriorityRead'
    BY <2>1, <1>a, <1>b, <1>c, <1>d DEF PriorityRead, Opened
  <2> QED BY <2>1, <1>a, <2>4, <2>5 DEF ReadInv
<1>7. CASE EndReading
  <2>1. pc = "open" /\ pc' = "resolve" /\ mod \notin DOMAIN found /\ realmods' = realmods
    BY <1>7 DEF EndReading
  <2>2. \A k \in DOMAIN found : k < mod
    BY <2>1, <1>c, Mods1n
  <2>3. OnlyOffers' /\ AllOffers' /\ InOrder'
    BY <2>1, <2>2, <1>a, NoFileTaken DEF Considered
  <2>4. PriorityRead'
    BY <2>1, <2>2, <1>a, <1>d DEF PriorityRead, Opened
  <2> QED BY <2>1, <1>a, <2>3, <2>4 DEF ReadInv
<1>8. CASE AddAsset \/ ReplaceAsset \/ KeepAsset \/ NextMod \/ EndResolving
  <2>1. pc = "resolve" /\ pc' \in {"resolve", "done"} /\ realmods' = realmods
    BY <1>8 DEF AddAsset, ReplaceAsset, KeepAsset, NextMod, EndResolving, Resolving
  <2>2. OnlyOffers' /\ AllOffers' /\ InOrder'
    BY <2>1, <1>a, NoFileTaken DEF Considered
  <2>3. PriorityRead'
    BY <2>1, <1>a, <1>d DEF PriorityRead, Opened
  <2> QED BY <2>1, <1>a, <2>2, <2>3 DEF ReadInv
<1>9. CASE UNCHANGED vars
  <2>1. pc' = pc /\ mod' = mod /\ file' = file /\ realmods' = realmods
    BY <1>9 DEF vars
  <2>2. OnlyOffers' /\ AllOffers' /\ InOrder'
    BY <2>1, <1>a, NoFileTaken DEF Considered
  <2>3. PriorityRead'
    BY <2>1, <1>a, <1>d DEF PriorityRead, Opened
  <2>4. \A k \in DOMAIN found : pc' = "read" /\ k = mod' => Loaded(k)'
    BY <2>1, <1>a, <1>d
  <2> QED BY <2>1, <1>a, <2>2, <2>3, <2>4 DEF ReadInv
<1> QED BY <1>1, <1>2, <1>3, <1>4, <1>5, <1>6, <1>7, <1>8, <1>9 DEF Next

-----------------------------------------------------------------------------
(* What is made of the conflicts                                           *)

LEMMA ResolveInit == Init => ResolveInv
<1> SUFFICES ASSUME Init PROVE ResolveInv
  OBVIOUS
<1>1. pc = "open" /\ DOMAIN priorityAssets = {}
  BY DEF Init
<1> QED BY <1>1 DEF ResolveInv, MappedMet, BestMet, Met

(* A step that maps nothing and leaves the same files met.                 *)
LEMMA NothingMapped ==
  ASSUME ResolveInv, found' = found, priorityAssets' = priorityAssets,
         \A k \in DOMAIN found : realmods'[k].modFiles = realmods[k].modFiles,
         \A k \in DOMAIN found : \A j \in DOMAIN realmods[k].modFiles :
           Met(k, j)' <=> Met(k, j)
  PROVE  MappedMet' /\ BestMet'
<1> USE FoundIsFixed
<1>1. \A k \in DOMAIN found : \A f : BestOfMet(k, f)' <=> BestOfMet(k, f)
  BY DEF BestOfMet
<1>2. BestMet'
  BY <1>1 DEF ResolveInv, BestMet
<1>3. MappedMet'
  BY DEF ResolveInv, MappedMet
<1> QED BY <1>2, <1>3

(* Steps of the reading loop map nothing and no file is met in them.       *)
LEMMA NothingMet ==
  ASSUME ResolveInv, found' = found, priorityAssets' = priorityAssets,
         pc \in {"open", "read"}, \A k \in DOMAIN found : \A j : ~Met(k, j)'
  PROVE  ResolveInv'
<1>1. DOMAIN priorityAssets' = {}
  BY DEF ResolveInv
<1>2. MappedMet'
  BY <1>1 DEF MappedMet
<1>3. ASSUME NEW k \in DOMAIN found', NEW j \in DOMAIN realmods'[k].modFiles, Met(k, j)'
      PROVE  FALSE
  BY <1>3
<1>4. BestMet'
  BY <1>3 DEF BestMet
<1> QED BY <1>1, <1>2, <1>4 DEF ResolveInv

(* The file the resolving loop is at: an offer of its mod, not met before, *)
(* and met after the step.                                                 *)
LEMMA CurrentFacts ==
  ASSUME TypeOK, ReadInv, Resolving
  PROVE  /\ mod \in DOMAIN found /\ file \in DOMAIN realmods[mod].modFiles
         /\ Current = realmods[mod].modFiles[file]
         /\ Current.parentMod = mod /\ Current.dataBuffer \in Nat
         /\ Prior(mod) \in Int /\ realmods[mod].loadPriority = Prior(mod)
<1>1. mod \in DOMAIN found /\ file \in DOMAIN realmods[mod].modFiles /\ pc = "resolve"
  BY Mods1n DEF Resolving
<1>2. Current = realmods[mod].modFiles[file]
  BY DEF Current
<1>3. IsOffer(mod, Current)
  BY <1>1, <1>2 DEF ReadInv, OnlyOffers
<1>4. realmods[mod].loadPriority = Prior(mod)
  BY <1>1, <1>3 DEF ReadInv, PriorityRead, Opened, IsOffer
<1>5. Current.dataBuffer \in Nat
  <2>1. found[mod].files \in Seq([path : Paths, intact : BOOLEAN])
    BY <1>1, Mods1n
  <2> QED BY <1>3, <2>1, Elements DEF IsOffer
<1>6. Prior(mod) \in Int
  BY <1>1, <1>4, Mods1n
<1> QED BY <1>1, <1>2, <1>3, <1>4, <1>5, <1>6 DEF IsOffer

LEMMA ResolveStep == TypeOK /\ ReadInv /\ ResolveInv /\ [Next]_vars => ResolveInv'
<1> SUFFICES ASSUME TypeOK, ReadInv, ResolveInv, [Next]_vars PROVE ResolveInv'
  OBVIOUS
<1> USE FoundIsFixed
<1>a. found' = found
  BY FoundStays
<1>b. mod \in Nat \ {0} /\ file \in Nat \ {0} /\ \A k \in DOMAIN found : k \in Nat \ {0}
  BY Mods1n DEF TypeOK
<1>c. \A k \in DOMAIN found : \A j \in DOMAIN realmods[k].modFiles : j \in Nat \ {0}
  BY Mods1n, Elements
<1>d. MappedMet /\ BestMet
  BY DEF ResolveInv
<1>1. CASE SkipMod \/ RefuseMod \/ OpenMod \/ TakeFile \/ RefuseFile \/ CloseMod
  <2>1. pc \in {"open", "read"} /\ pc' \in {"open", "read"} /\ priorityAssets' = priorityAssets
    BY <1>1 DEF SkipMod, RefuseMod, OpenMod, TakeFile, RefuseFile, CloseMod
  <2>2. \A k \in DOMAIN found : \A j : ~Met(k, j)'
    BY <2>1 DEF Met
  <2> QED BY <2>1, <2>2, <1>a, NothingMet
<1>2. CASE EndReading
  <2>1. ResolveInv /\ pc = "open" /\ pc' = "resolve" /\ mod' = 1 /\ file' = 1
        /\ priorityAssets' = priorityAssets /\ realmods' = realmods
    BY <1>2 DEF EndReading
  <2>2. DOMAIN priorityAssets = {}
    BY <2>1 DEF ResolveInv
  <2>3. \A k \in DOMAIN found : \A j \in DOMAIN realmods[k].modFiles : ~Met(k, j)'
    BY <2>1, <1>b, <1>c DEF Met
  <2>4. \A k \in DOMAIN found : \A j \in DOMAIN realmods[k].modFiles : ~Met(k, j)
    BY <2>1 DEF Met
  <2>5. MappedMet' /\ BestMet'
    BY <2>1, <2>3, <2>4, <1>a, NothingMapped
  <2> QED BY <2>1, <2>5 DEF ResolveInv
<1>3. ASSUME pc = "resolve", mod' = mod, file' = file + 1, pc' = "resolve"
      PROVE  \A k \in DOMAIN found : \A j \in DOMAIN realmods[k].modFiles :
               Met(k, j)' <=> Met(k, j) \/ (k = mod /\ j = file)
  BY <1>3, <1>b, <1>c DEF Met
<1>4. ASSUME Resolving, Map(Current), mod' = mod, file' = file + 1, pc' = pc, realmods' = realmods,
             \/ ~Known
             \/ Known /\ Prior(mod) < Prior(priorityAssets[Current.assetPath].parentMod)
      PROVE  ResolveInv'
  <2> DEFINE a0 == Current.assetPath
  <2>1. pc = "resolve" /\ mod \in DOMAIN found /\ file \in DOMAIN realmods[mod].modFiles
        /\ Current = realmods[mod].modFiles[file]
        /\ Current.parentMod = mod /\ Current.dataBuffer \in Nat /\ Prior(mod) \in Int
    BY <1>4, CurrentFacts DEF Resolving
  <2>2. /\ DOMAIN priorityAssets' = DOMAIN priorityAssets \cup {a0}
        /\ priorityAssets'[a0] = Current
        /\ \A a \in DOMAIN priorityAssets : a # a0 => priorityAssets'[a] = priorityAssets[a]
    BY <1>4 DEF Map
  <2>3. \A k \in DOMAIN found : \A j \in DOMAIN realmods[k].modFiles :
          Met(k, j)' <=> Met(k, j) \/ (k = mod /\ j = file)
    BY <1>3, <1>4, <2>1
  <2>4. MappedMet'
    <3>1. ASSUME NEW a \in DOMAIN priorityAssets'
          PROVE  \E k \in DOMAIN found : \E j \in DOMAIN realmods[k].modFiles :
                   /\ Met(k, j)'
                   /\ priorityAssets'[a] = realmods[k].modFiles[j]
                   /\ priorityAssets'[a].assetPath = a
      <4>1. CASE a = a0
        BY <4>1, <2>1, <2>2, <2>3
      <4>2. CASE a # a0
        <5>1. a \in DOMAIN priorityAssets /\ priorityAssets'[a] = priorityAssets[a]
          BY <3>1, <4>2, <2>2
        <5>2. PICK k \in DOMAIN found : \E j \in DOMAIN realmods[k].modFiles :
                /\ Met(k, j) /\ priorityAssets[a] = realmods[k].modFiles[j]
                /\ priorityAssets[a].assetPath = a
          BY <5>1, <1>d DEF MappedMet
        <5> QED BY <5>1, <5>2, <2>3
      <4> QED BY <4>1, <4>2
    <3> QED BY <3>1, <1>4, <1>a DEF MappedMet
  <2>5. BestMet'
    <3>1. ASSUME NEW k \in DOMAIN found, NEW j \in DOMAIN realmods[k].modFiles, Met(k, j)',
                 NEW f, f = realmods[k].modFiles[j]
          PROVE  BestOfMet(k, f)'
      <4>1. CASE k = mod /\ j = file
        <5>1. f = Current /\ f.assetPath = a0 /\ a0 \in DOMAIN priorityAssets'
          BY <4>1, <3>1, <2>1, <2>2
        <5>2. Beats(<<mod, Current.dataBuffer>>, <<k, f.dataBuffer>>)
          BY <5>1, <4>1, <2>1 DEF Beats
        <5> QED BY <5>1, <5>2, <2>1, <2>2, <1>a DEF BestOfMet
      <4>2. CASE Met(k, j) /\ f.assetPath # a0
        <5>1. BestOfMet(k, f)
          BY <4>2, <3>1, <1>d DEF BestMet
        <5> QED BY <5>1, <4>2, <2>2, <1>a DEF BestOfMet
      <4>3. CASE Met(k, j) /\ f.assetPath = a0
        <5> DEFINE w == priorityAssets[a0]
        <5>1. a0 \in DOMAIN priorityAssets /\ Beats(<<w.parentMod, w.dataBuffer>>, <<k, f.dataBuffer>>)
          BY <4>3, <3>1, <1>d DEF BestMet, BestOfMet
        <5>2. Prior(mod) < Prior(w.parentMod)
          BY <5>1, <1>4 DEF Known
        <5>3. w.parentMod \in DOMAIN found
          BY <5>1 DEF TypeOK, ModFiles
        <5>4. Prior(w.parentMod) \in Int /\ Prior(k) \in Int
          BY <5>3, Mods1n, ConfigTypes
        <5>5. Prior(w.parentMod) <= Prior(k)
          BY <5>1, <5>4 DEF Beats
        <5>6. Prior(mod) < Prior(k)
          BY <5>2, <5>4, <5>5, <2>1
        <5>7. Beats(<<mod, Current.dataBuffer>>, <<k, f.dataBuffer>>)
          BY <5>6 DEF Beats
        <5> QED BY <5>7, <4>3, <2>1, <2>2, <1>a DEF BestOfMet
      <4> QED BY <3>1, <4>1, <4>2, <4>3, <2>3
    <3> QED BY <3>1, <1>4, <1>a DEF BestMet
  <2> QED BY <2>1, <2>4, <2>5, <1>4 DEF ResolveInv
<1>5. CASE AddAsset
  BY <1>4, <1>5 DEF AddAsset, Resolving
<1>6. ASSUME Resolving, Known
      PROVE  LET w == priorityAssets[Current.assetPath] IN
               /\ w.parentMod \in DOMAIN found /\ w.parentMod \in Nat
               /\ Prior(w.parentMod) \in Int
               /\ PriorityOf(w) = Prior(w.parentMod)
               /\ w.dataBuffer \in Nat
               /\ \E j \in DOMAIN realmods[w.parentMod].modFiles :
                    Met(w.parentMod, j) /\ w = realmods[w.parentMod].modFiles[j]
  <2> DEFINE w == priorityAssets[Current.assetPath]
  <2>1. PICK k \in DOMAIN found : \E j \in DOMAIN realmods[k].modFiles :
          Met(k, j) /\ w = realmods[k].modFiles[j]
    BY <1>6, <1>d DEF Known, MappedMet
  <2>2. PICK j \in DOMAIN realmods[k].modFiles : Met(k, j) /\ w = realmods[k].modFiles[j]
    BY <2>1
  <2>3. IsOffer(k, w)
    BY <2>2 DEF ReadInv, OnlyOffers
  <2>4. w.parentMod = k /\ Loaded(k) /\ w.dataBuffer \in DOMAIN found[k].files
    BY <2>3 DEF IsOffer
  <2>5. pc = "resolve"
    BY <1>6 DEF Resolving
  <2>6. realmods[k].loadPriority = Prior(k)
    BY <2>4, <2>5 DEF ReadInv, PriorityRead, Opened
  <2>7. w.dataBuffer \in Nat /\ k \in Nat /\ Prior(k) \in Int
    BY <2>4, Mods1n, Elements, ConfigTypes
  <2> QED BY <2>2, <2>4, <2>6, <2>7 DEF PriorityOf
<1>7. CASE ReplaceAsset
  <2>1. Resolving /\ Known /\ Overrides /\ Map(Current) /\ mod' = mod /\ file' = file + 1
        /\ pc' = pc /\ realmods' = realmods
    BY <1>7 DEF ReplaceAsset
  <2>2. Prior(mod) < Prior(priorityAssets[Current.assetPath].parentMod)
    BY <2>1, <1>6, CurrentFacts DEF Overrides
  <2> QED BY <1>4, <2>1, <2>2
<1>8. CASE KeepAsset
  <2> DEFINE a0 == Current.assetPath
  <2> DEFINE w == priorityAssets[a0]
  <2>1. Resolving /\ Known /\ ~Overrides /\ mod' = mod /\ file' = file + 1
        /\ pc' = pc /\ realmods' = realmods /\ priorityAssets' = priorityAssets
    BY <1>8 DEF KeepAsset
  <2>2. pc = "resolve" /\ mod \in DOMAIN found /\ file \in DOMAIN realmods[mod].modFiles
        /\ Current = realmods[mod].modFiles[file]
        /\ Current.parentMod = mod /\ Current.dataBuffer \in Nat
        /\ Prior(mod) \in Int /\ realmods[mod].loadPriority = Prior(mod)
    BY <2>1, CurrentFacts DEF Resolving
  <2>3. /\ w.parentMod \in DOMAIN found /\ w.parentMod \in Nat
        /\ Prior(w.parentMod) \in Int /\ PriorityOf(w) = Prior(w.parentMod) /\ w.dataBuffer \in Nat
        /\ \E j \in DOMAIN realmods[w.parentMod].modFiles :
             Met(w.parentMod, j) /\ w = realmods[w.parentMod].modFiles[j]
    BY <2>1, <1>6
  <2>4. ~(Prior(mod) < Prior(w.parentMod))
    BY <2>1, <2>2, <2>3 DEF Overrides
  <2>5. Beats(<<w.parentMod, w.dataBuffer>>, <<mod, Current.dataBuffer>>)
    <3>1. PICK j \in DOMAIN realmods[w.parentMod].modFiles :
            Met(w.parentMod, j) /\ w = realmods[w.parentMod].modFiles[j]
      BY <2>3
    <3>2. w.parentMod < mod \/ (w.parentMod = mod /\ j < file)
      BY <3>1, <2>2 DEF Met
    <3>3. CASE w.parentMod < mod
      <4>0. Prior(w.parentMod) \in Int /\ Prior(mod) \in Int
        BY <2>2, <2>3
      <4> HIDE DEF w
      <4>1. Prior(w.parentMod) < Prior(mod) \/ Prior(w.parentMod) = Prior(mod)
        BY <4>0, <2>4
      <4> QED BY <4>1, <3>3 DEF Beats
    <3>4. CASE w.parentMod = mod /\ j < file
      <4>1. w.dataBuffer < Current.dataBuffer
        BY <3>1, <3>4, <2>2 DEF ReadInv, InOrder
      <4> QED BY <3>4, <4>1, <2>2, <2>3 DEF Beats
    <3> QED BY <3>2, <3>3, <3>4
  <2>6. \A k \in DOMAIN found : \A j \in DOMAIN realmods[k].modFiles :
          Met(k, j)' <=> Met(k, j) \/ (k = mod /\ j = file)
    BY <1>3, <2>1, <2>2
  <2>7. MappedMet'
    BY <2>1, <2>6, <1>a, <1>d DEF MappedMet
  <2>8. BestMet'
    <3>1. ASSUME NEW k \in DOMAIN found, NEW f, BestOfMet(k, f)
          PROVE  BestOfMet(k, f)'
      BY <3>1, <2>1, <1>a DEF BestOfMet
    <3>2. BestOfMet(mod, Current)
      BY <2>1, <2>5 DEF BestOfMet, Known
    <3>3. ASSUME NEW k \in DOMAIN found, NEW j \in DOMAIN realmods[k].modFiles, Met(k, j)',
                 NEW f, f = realmods[k].modFiles[j]
          PROVE  BestOfMet(k, f)'
      <4>1. CASE Met(k, j)
        BY <4>1, <3>1, <3>3, <1>d DEF BestMet
      <4>2. CASE k = mod /\ j = file
        <5>1. f = Current
          BY <4>2, <3>3, <2>2
        <5> QED BY <5>1, <4>2, <3>1, <3>2
      <4> QED BY <3>3, <4>1, <4>2, <2>6
    <3> QED BY <3>3, <2>1, <1>a DEF BestMet
  <2> QED BY <2>1, <2>2, <2>7, <2>8 DEF ResolveInv
<1>9. CASE NextMod
  <2>1. pc = "resolve" /\ pc' = "resolve" /\ mod \in DOMAIN found /\ mod' = mod + 1 /\ file' = 1
        /\ file \notin DOMAIN realmods[mod].modFiles
        /\ realmods' = realmods /\ priorityAssets' = priorityAssets
    BY <1>9, Mods1n DEF NextMod
  <2>2. realmods[mod].modFiles \in Seq(ModFiles)
    BY <2>1, Mods1n
  <2>3. \A j \in DOMAIN realmods[mod].modFiles : j < file
    BY <2>1, <2>2, <1>b
  <2>4. \A k \in DOMAIN found : \A j \in DOMAIN realmods[k].modFiles : Met(k, j)' <=> Met(k, j)
    BY <2>1, <2>3, <1>b, <1>c DEF Met
  <2>5. MappedMet' /\ BestMet'
    BY <2>1, <2>4, <1>a, NothingMapped
  <2> QED BY <2>1, <2>5 DEF ResolveInv
<1>10. CASE EndResolving
  <2>1. pc = "resolve" /\ pc' = "done" /\ mod \notin DOMAIN found
        /\ realmods' = realmods /\ priorityAssets' = priorityAssets
    BY <1>10, Mods1n DEF EndResolving
  <2>2. \A k \in DOMAIN found : k < mod
    BY <2>1, <1>b, Mods1n
  <2>3. \A k \in DOMAIN found : \A j \in DOMAIN realmods[k].modFiles : Met(k, j)' <=> Met(k, j)
    BY <2>1, <2>2 DEF Met
  <2>4. MappedMet' /\ BestMet'
    BY <2>1, <2>3, <1>a, NothingMapped
  <2> QED BY <2>1, <2>4 DEF ResolveInv
<1>11. CASE UNCHANGED vars
  <2>1. pc' = pc /\ mod' = mod /\ file' = file /\ realmods' = realmods
        /\ priorityAssets' = priorityAssets
    BY <1>11 DEF vars
  <2>2. \A k \in DOMAIN found : \A j \in DOMAIN realmods[k].modFiles : Met(k, j)' <=> Met(k, j)
    BY <2>1 DEF Met
  <2>3. MappedMet' /\ BestMet'
    BY <2>1, <2>2, <1>a, NothingMapped
  <2> QED BY <2>1, <2>3 DEF ResolveInv
<1> QED
  BY <1>1, <1>2, <1>5, <1>7, <1>8, <1>9, <1>10, <1>11 DEF Next

-----------------------------------------------------------------------------
(* The outcome                                                             *)

LEMMA OffersAre ==
  ASSUME NEW a
  PROVE  /\ \A k \in DOMAIN found : \A i \in DOMAIN found[k].files :
              Loaded(k) /\ Taken(k, i) /\ AssetPath[NameOf(k, i)] = a => <<k, i>> \in Offers(a)
         /\ \A c \in Offers(a) : \E k \in DOMAIN found : \E i \in DOMAIN found[k].files :
              c = <<k, i>> /\ Loaded(k) /\ Taken(k, i) /\ AssetPath[NameOf(k, i)] = a
BY DEF Offers

(* When all files are met, every offer for an asset is mapped or beaten.   *)
LEMMA OfferBeaten ==
  ASSUME TypeOK, ReadInv, ResolveInv, pc = "done", NEW a, NEW c \in Offers(a)
  PROVE  /\ a \in DOMAIN priorityAssets
         /\ Beats(<<priorityAssets[a].parentMod, priorityAssets[a].dataBuffer>>, c)
<1>0. PICK k \in DOMAIN found : \E i \in DOMAIN found[k].files :
        c = <<k, i>> /\ Loaded(k) /\ Taken(k, i) /\ AssetPath[NameOf(k, i)] = a
  BY OffersAre
<1>1. PICK i \in DOMAIN found[k].files :
        c = <<k, i>> /\ Loaded(k) /\ Taken(k, i) /\ AssetPath[NameOf(k, i)] = a
  BY <1>0
<1>2. Considered(k, i)
  BY DEF Considered
<1>3. PICK j \in DOMAIN realmods[k].modFiles : realmods[k].modFiles[j].dataBuffer = i
  BY <1>1, <1>2 DEF ReadInv, AllOffers
<1>4. realmods[k].modFiles[j].assetPath = a
  BY <1>1, <1>3 DEF ReadInv, OnlyOffers, IsOffer
<1>5. BestOfMet(k, realmods[k].modFiles[j])
  BY DEF ResolveInv, BestMet, Met
<1> QED BY <1>1, <1>3, <1>4, <1>5 DEF BestOfMet

(* Every mapping is to a file that was offered for its asset.              *)
LEMMA MappedOffered ==
  ASSUME TypeOK, ReadInv, ResolveInv, NEW a \in DOMAIN priorityAssets
  PROVE  <<priorityAssets[a].parentMod, priorityAssets[a].dataBuffer>> \in Offers(a)
<1>1. PICK k \in DOMAIN found : \E j \in DOMAIN realmods[k].modFiles :
        priorityAssets[a] = realmods[k].modFiles[j] /\ priorityAssets[a].assetPath = a
  BY DEF ResolveInv, MappedMet
<1>2. IsOffer(k, priorityAssets[a])
  BY <1>1 DEF ReadInv, OnlyOffers
<1> QED BY <1>1, <1>2, OffersAre DEF IsOffer

LEMMA AssetsLoaded == TypeOK /\ ReadInv /\ ResolveInv => EveryAssetLoaded
<1> SUFFICES ASSUME TypeOK, ReadInv, ResolveInv, pc = "done"
             PROVE  DOMAIN priorityAssets = {a \in Assets : Offers(a) # {}}
  BY DEF EveryAssetLoaded
<1>1. \A a \in DOMAIN priorityAssets : a \in Assets
  BY DEF TypeOK
<1>2. \A a \in DOMAIN priorityAssets : Offers(a) # {}
  BY MappedOffered
<1>3. \A a : Offers(a) # {} => a \in DOMAIN priorityAssets
  BY OfferBeaten
<1> QED BY <1>1, <1>2, <1>3

LEMMA LowestWins == TypeOK /\ ReadInv /\ ResolveInv => LowestPriorityWins
BY MappedOffered, OfferBeaten DEF LowestPriorityWins

(* TypeOK, ReadInv and ResolveInv hold together in every reachable state.  *)
THEOREM ConsolidationInvariant == Spec => [](TypeOK /\ ReadInv /\ ResolveInv)
<1>1. Init => TypeOK /\ ReadInv /\ ResolveInv
  BY TypeInit, ReadInit, ResolveInit
<1>2. TypeOK /\ ReadInv /\ ResolveInv /\ [Next]_vars => (TypeOK /\ ReadInv /\ ResolveInv)'
  BY TypeStep, ReadStep, ResolveStep
<1> QED BY <1>1, <1>2, PTL DEF Spec

(* The super mod holds exactly the assets that some mod which could be     *)
(* read offers (the loops of ReadMod and of InjectorLoadMods).             *)
THEOREM EveryAssetLoadedTheorem == Spec => []EveryAssetLoaded
BY ConsolidationInvariant, AssetsLoaded, PTL

(* The file loaded for an asset is the one of the lowest priority, of the  *)
(* mod found first, read first (replaceMapping in InjectorLoadMods).       *)
THEOREM LowestPriorityWinsTheorem == Spec => []LowestPriorityWins
BY ConsolidationInvariant, LowestWins, PTL

=============================================================================
