--------------------------- MODULE ManifestPatcher ---------------------------
(***************************************************************************)
(* What DEternal_patchManifest makes of the decrypted build manifest: the  *)
(* table of the game's files, each with its size and a list of hashes, one *)
(* per chunk.  The patcher runs in the game directory; every hash it       *)
(* writes is a placeholder, so only their number is modelled.              *)
(***************************************************************************)
EXTENDS Naturals

CONSTANTS
  CHUNK_SIZE,              \* 0xFFFFFFFF
  DEFAULT_MOD_CHUNK_SIZE,  \* 65536
  ModDir                   \* sizes of the .resources files in ./modarchives

ASSUME ManifestAssumption ==
  {CHUNK_SIZE, DEFAULT_MOD_CHUNK_SIZE} \subseteq Nat \ {0}

NumHashes(size, chunk) == (size + chunk - 1) \div chunk

Described(size, chunk) ==
  [fileSize |-> size, chunkSize |-> chunk, numHashes |-> NumHashes(size, chunk)]

(* Files that are not there keep what the manifest said of them.           *)
UpdateFiles(manifest, disk) ==
  [p \in DOMAIN manifest |->
     IF p \in DOMAIN disk THEN Described(disk[p], CHUNK_SIZE) ELSE manifest[p]]

appendModFiles(manifest) ==
  [p \in DOMAIN manifest \cup DOMAIN ModDir |->
     IF p \in DOMAIN ModDir THEN Described(ModDir[p], DEFAULT_MOD_CHUNK_SIZE)
     ELSE manifest[p]]

optimizeBuildManifest(manifest, disk) == appendModFiles(UpdateFiles(manifest, disk))

(* The manifest describes a file as it is: its size, and just enough       *)
(* chunks for it.                                                          *)
Describes(entry, size) ==
  /\ entry.fileSize = size
  /\ size <= entry.numHashes * entry.chunkSize
  /\ entry.numHashes > 0 => (entry.numHashes - 1) * entry.chunkSize < size
=============================================================================
