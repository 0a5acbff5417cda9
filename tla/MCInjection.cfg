SPECIFICATION InjectionSpec
CONSTANTS
  HeaderSize = 124
  EntrySize = 144
  TypeLength = 13
  TypeString = "rs_streamfile"
  Assets <- MCAssets
  PathLength <- MCPathLength
  Files <- MCFiles
  Packages <- MCPackages
  ModArchives <- MCModArchives
  NewArchive = common_mod
  NumMaps = 2
  Shipped <- MCShipped
  DataLengths = {0, 5}
  MaxModFiles = 3
  LongBits = 2
  Hashes <- MCHashes
  CounterAt = 2
  GameMasks <- MCGameMasks
  PackedSize = 11
  GarbageCounts = {0, 1000000}
  NoArchive = NoArchive
  TornArchive = TornArchive
  TornMeta = TornMeta
  Garbage = Garbage
  short = short
  middle = middle
  long = long
  gameresources = gameresources
  patch = patch
  bin = bin
  common_mod = common_mod
  oldmod = oldmod
  vanilla = vanilla
  executable = executable
  unpacked = unpacked
  stray = stray
  Pms = "pms"
  Meta = "meta"
  OtherFiles <- MCOtherFiles
  Manifests <- MCManifests
  ModDir <- MCModDir
  LineSize = 20
  CHUNK_SIZE = 40
  DEFAULT_MOD_CHUNK_SIZE = 16
INVARIANTS InjectionTypeOK ArchiveReadsBack HashEndsAtIDCL FilesAgree ManifestListsDisk CommasSeparate
PROPERTIES ImplementsMapArchives PriorityKept
CHECK_DEADLOCK FALSE
