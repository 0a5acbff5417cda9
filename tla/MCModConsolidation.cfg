SPECIFICATION Spec
CONSTANTS
  Paths <- MCPaths
  Assets = {"a", "b"}
  TypeString <- MCTypeString
  AssetPath <- MCAssetPath
  Mods <- MCMods
  MaxMods = 3
INVARIANTS
  TypeOK
  EveryAssetLoaded
  LowestPriorityWins
CHECK_DEADLOCK FALSE
