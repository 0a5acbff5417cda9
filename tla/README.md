# A TLA+ verification development for CrucibleLoader

CrucibleLoader is a set of C++ tools for modding two id Tech games. The mod
loader (`src/AtlanModLoader`) reads mods, resolves their conflicts, builds one
resource archive out of them and injects it into the game's files, keeping
backups from which it restores them. It rests on a common library
(`src/common`): an entity parser with a pool allocator and an undo history,
readers and writers of binary files, and the structures of resource archives.
Other programs extract archives, turn binary entity definitions into text, and
patch the build manifest.

The modules here model the parts in which state, failure and order matter. TLC
checks them on small instances; TLAPS proves the invariants for all values of
the constants.

## 1. Inventory

| Component | Source | State | Operations | What is hard, and what makes it correct |
|---|---|---|---|---|
| Loader run control | `AtlanModLoader/src/LoaderMain.cpp` 378-901 | game files and their backups, the archive, the manifest, the cache file, whether the executable is patched | one run: hash, patch, save cache, backups, clean, build, inject, mask, manifest | runs follow runs, updates and verifications come in between, writes fail silently, the process dies anywhere. Files are injected once, in step, and recoverable |
| Mod reading and conflicts | `ModReader.cpp`, `LoaderMain.cpp` 523-610 | files and priority of each mod, the winner for each asset | open, read config, take or refuse a file, map, override | a refused file or mod must not affect the others; the winner is the best of all candidates |
| Block allocator | `common/src/entityslayer/GenericBlockAllocator.h` | free list, buffers, the active buffer | reserve, free (binary search and merge), set the active buffer | long sequences of calls; nothing handed out twice, nothing lost, the list always sorted and merged |
| Package map spec | `common/src/archives/PackageMapSpec.cpp` | file list, map list, references between them | inject an archive, list archives by priority | every index shifts by one; references keep their meaning |
| Resource archives | `LoaderMain.cpp` 21-247, `ResourceStructs.cpp` | header, entries, string table, data blocks | build, read, audit | offsets and alignment; reader and writer agree |
| Container mask | `LoaderMain.cpp` 249-375, `HashLib.cpp` | header, one entry and its hash table | add a hash and a bit mask | sizes after growth; early returns that leave the other file injected |
| Command history | `EntityParser.cpp` 332-513, `EntityNode.cpp` 65-90 | history, redo position, current group | edit, push, cancel, undo, redo | undo is the inverse of edit; the history is bounded |
| Entity parser | `EntityParser.cpp`, `EntityNode.cpp` | node tree, stack of open nodes, allocators | tokenize, parse by grammar, edit | a parse that throws must leave the tree and give back its nodes |
| Deserializer driver | `deserializer/src/DeserialMain.cpp` | classes, their parents and type hashes | inherit hashes, deserialize in passes | parents first; termination |
| Deserializer core | `deserialcore.cpp` | a cursor in a binary file | nested readers | nested lengths |
| Binary reader, writer | `common/src/io` | a buffer and a cursor, a stack of sizes | read, write, grow | sizes patched after reallocation |
| Extractor | `AtlanResourceExtractor/src/ExtractorMain.cpp` | files already extracted | archives in priority order | a failed read must not hide a lower-priority copy |
| Manifest patcher | `DEternal_ManifestPatcherCPP/main.cpp` | the manifest's file table | decrypt, rewrite sizes and hashes, encrypt | which files are found; a fresh nonce each time |
| Reflector, resource analyzer, reserializer | their directories | none worth keeping | text generation, statistics, a stub | not modelled |

How they interact: `InjectorMain` runs the executable patcher and the manifest
patcher as processes and looks at their exit codes; `InjectorLoadMods` calls
the mod reader once per mod, then `BuildArchive`,
`PackageMapSpec::InjectCommonArchive` and `RebuildContainerMask`, which share
nothing but files. The mod reader and the package map spec use the entity
parser, and the parser owns three block allocators (text, nodes, child lists).
Everything is single-threaded; what is concurrent is the world outside: the
user, the game's updater, and whatever ends the process.

## 2. Plan

In order of importance, with the modules of each step:

1. `Loader`, `LoaderProofs`: runs of the loader over the game directory. *Done.*
2. `BlockAllocator`, implementing `BlockPool`, and `BlockAllocatorProofs`. *Done.*
3. `ModConsolidation`, `ModConsolidationProofs`: reading and conflicts. *Done.*
4. `UndoLog`, `EntityParser`: parsing, edits, rollback, and undo and redo against an
   abstract history of documents, with `EntityTreeProofs` and `EntityParserProofs`.
   *Done.*
5. `MapArchives`, `PackageMapSpec`, `ResourceArchive`, `ManifestPatcher`, composed by
   `Injection`, with `InjectionProofs`. *Done.*
6. `Extractor`, composed with `Deserializer`, and `DeserializerProofs`. *Done.*
7. `ImplementsUndoLog` as a theorem: that a reverse text without the sequence of section
   6 (`ReadsOtherwise`) parses to the nodes it was generated from. *Left.*

There are twelve runs: one passing run per component or composition, and six for
disagreements between the code and what it says of itself.

## 3. The modules

### Loader

One behaviour is the whole life of a game directory. `pc` is the step the
running loader is at, `"idle"` between runs; each action is one step of
`InjectorMain`, `InjectorLoadMods` or `PatchManifest`, in the order of the code
(`Successor`). `newcache`, `updated` and `forced` are the locals of a run
(`newcache`, `argflag_gameupdated`, `argflag_forceload`) and are lost when it ends.

The contents of a file are a record: the vanilla version it comes from, the
archives injected into it, and the mark by which the loader recognises a modded
file (the string "modarchives" in packagemapspec.json, the timestamp in
meta.resources). A hash is the content it stands for. A manifest is the one a
release ships, one re-encrypted under a nonce (`Nonces`), or a torn one.
Because the manifest patcher draws a random nonce, a nonce that the disk or the
cache still remembers does not come up again.

Faults: `WriteFails` is a step whose write fails unnoticed, since error codes
and stream states are ignored or only logged; `Kill` ends the process between two steps or in
the middle of a write (`PartialWrite` says what may be left); `MoveFails` is a
failed rename; `LoseFile` a game file that the user deletes. Outside a run,
`Update`, `Verify`, `ChangeMods` and `LoseCache` may happen at any time.
Updates and verifications are assumed not to run during a loader run.

`faults`, `changed` and `returned` are history variables that no guard of the
code's actions reads, except that `faults` bounds the faults.

### ModConsolidation

`found` is what the mods folder offers: for each mod whether it opens, its
config and its files in order; it is chosen at the start and never changes.
The actions are the turns of two loops: reading (`OpenMod`, `TakeFile`,
`RefuseFile`, `CloseMod`; `SkipMod` and `RefuseMod` are the early returns) and
resolving (`AddAsset`, `ReplaceAsset`, `KeepAsset`, `NextMod`). A file name is a
member of `Paths`; `TypeString` and `AssetPath` say what its type string is and
what asset path is left after normalisation, so that several spellings come to
one asset. A `ModFile`'s `parentMod` pointer is the index of the mod, its data
the index of the file it came from. The first mod is the unzipped one. Its
priority -999 is overwritten when its config is read, as in the code.

### BlockAllocator and BlockPool

Addresses are integers. The binary search of `freeBlock` is one action per
probe, with `minimum`, `maximum` and `newBlock` as in the code; `Return` ends
it, back to the caller or, from `setActiveBuffer`, on to making the new buffer
(`Grow`). `live` is the set of elements the users hold; the allocator itself
does not know it. Users give back any part of what they hold, which includes
the whole blocks that the parser gives back. `new T[n]` takes any place that
leaves a gap to every other buffer: the C++ runtime keeps data of its own
between two heap blocks, and the code relies on it, for it would otherwise
merge free blocks of different buffers.

`BlockPool` is what users rely on: a block handed out lies in one buffer and
shares no element with a block in use, and giving back takes nothing else
away. `ImplementsPool` is the refinement, with `buffers <- allBuffers`. The
history variable `held` counts what the users hold by their own count: an
element handed out while in use would leave `live` as it is, but not `held`.

### EntityParser and UndoLog

A tree is flat: its lines in document order, each with a depth, the root first; `slots`
is `maxChildren`. A text is a sequence of tokens: a word stands for all that names one
node (an identifier, alone or with a value beside it), `"bad"` for what no grammar
accepts. The children of a node are the lines one level below it that come before the
next line not below it (`ChildLines`); child `i` begins, or would begin, where `i`
children come before (`ChildLine`). Parsing in permissive mode is one action per node or
brace; `tempChildren` holds the open nodes and those without a parent, as in the code,
and `open` the start indices that the recursion keeps on its stack. `held` counts what
the three allocators have handed out. A client may call `EditTree`, `EditText` and
`EditPosition` on any node, push, clear, undo, redo and cancel; within the repository
`PackageMapSpec`, `ModReader` and the reflector are such clients (nobody calls
`EditPosition`, `Undo`, `Redo` or `CancelGroupCommand`, which are public). Undo and redo
are called with no group open, as the comment at EntityParser.cpp:481 has it.

`findPositionalID` returns at once, so that every reverse is for the root. The
model follows the code, and once an edit was below the root or of a text
(`below`), what undo, redo and cancel do is modelled but no longer claimed to be
right; a command that then reads past a list is `"undefined"`, and so may be
what `EditText` finds of a text inside `reverseGroup`. `before`, `base`, `past`,
`future` are history variables, the documents undo and redo should lead to;
`ImplementsUndoLog` says that they do. It does so up to the first edit that takes
away a bare word together with the nameless object after it (`ReadsOtherwise`),
because the text of the two reads as one object. At that edit the history variable
`misread` keeps what was to be seen of the history, and the refinement (`Seen`) shows
nothing that comes after it; `CallsReturn` ends there too, for a later undo may
then read past the end of a list. What goes wrong there is the run `parser_nameless`.
The other invariants claim what they claim of all texts.

### PackageMapSpec, ResourceArchive, ManifestPatcher, Injection

`PackageMapSpec` is `InjectCommonArchive`: the document is parsed, the file
inserted, the references incremented one by one, the reference inserted, the
file written. `MapArchives` is what a reader of the document sees of it, a list
of archives for each map; `ImplementsMapArchives` says that only the common map
changes, and gains the new archive in front.
`commas` are the comma flags of the two arrays, as the parser sets them and
`EditTree` adjusts them around the inserted element.

`ResourceArchive` computes, in bytes, where `BuildArchive` puts what: a file is a
set of pieces with their start and end, and a reader gets the pieces that lie in
the range it reads. A hash is what was hashed. Only `rs_streamfile` resources
reach `BuildArchive`, so there are no dependencies. `ManifestPatcher` is the
table of files in the manifest.

`Injection` composes them as `InjectorLoadMods` and `PatchManifest` do, and adds
`RebuildContainerMask`. A mask is the words before its first entry, its entries with the
places where they begin, and its size; `CounterAt` is the word that counts the entries:
`RebuildContainerMask` increments the second one in the Eternal build and the first one
in the other. The only reader in the repository is `Test_ContainerMask` of the resource
analyzer, which takes one counter of four bytes, as in the build without `DOOMETERNAL`;
`MaskReadsToItsEnd` is about that build, and proved. ResourceStructs.h:7 selects the
Eternal build, which is the one in the runs. For that one there is no reader to compare
with: of its mask is claimed only that the new entry is among those it counts
(`FilesAgree`). Every write may fail unnoticed, an early return of one step is not seen
by the next, and a torn archive gives `GetContainerMaskHash` an uninitialised header
(`GarbageCounts`); `failed` records it for the properties that are claimed only where
nothing failed. The steps begin with whole game files; damaged ones are in `Loader`.
Assumed of the shipped meta.resources: its only entry begins at `dataOffset`, and its
mask is well formed (`InjectionAssumption`). The 1 GB cap of line 295 is not reached:
`numResources` has 32 bits, so the mask grows by at most 512 MB.

### Extractor and Deserializer

`listing` is the list of all entityDef entries of all archives in priority order;
`Extractor` goes through it entry by entry, into a folder that is empty when it begins.
An entry is stored as it is, or packed, and then each of the two programs can unpack it
or not (`unpackedBy`): the extractor loads `oo2core_9_win64.dll` from the game's folder
and downloads it if it must, the deserializer loads `oo2core_8_win64.dll` from its
working directory when it first needs it, if there is one. An unknown compression mode
is logged and the data is taken as it is, by both programs; what it says is then what
`def` says. A name with an extension (`Extended`) keeps it when it is extracted, while
the deserializer looks for the `.bin` file, finds none and aborts. `Deserializer` reads
the same archives again: `ReadEntry` builds `entityclassmap` from the header of each
entity, `Resolve` gives an entity the type of its nearest ancestor that has one, and
`Skip`, `Deserialize`, `Abort` and `Lost` are the turns of `DeserializeEntitydefs`.
`entityclassmap` is unordered: an arbitrary order is drawn once and used by all loops
over it, as an `unordered_map` that is not modified keeps its order. The searches of
lines 153 and 613 are one step each: they go up the line of parents until they are in a
set, of those that have a type (`Typed`) or of those whose history names a class
(`Naming`); `Ancestor` is where they stop; where they do not stop, `pc` is `"endless"`,
and where the code dereferences `end()`, `"undefined"`. What the installation says an
entity inherits is defined apart from the search: `Ancestors` is the least set that
holds the parents, `Nearest` the one in it that has no other one below it. Of an
entityDef only the parent, the class and the classes of its polymorphic properties are
kept. The second run finds what the first one left; with `remove_binaries` it aborts at
the first entity.

`WellFormed` is what the properties assume of the game: parents exist and do not form a
cycle, both programs can unpack every entry, no name has an extension, and some ancestor
names every class that is left out. The instances include installations that are not
well formed, for which the model shows the undefined and endless runs.

## 4. Runs

| Run | Instance | Shows |
|---|---|---|
| `loader` | two releases that share one of the two files, one set of mods, three nonces, one fault of each kind; 2.3 million states | `InjectedOnce`, `InstalledTogether`, `SafeToReload`, `PatchedWhenLoading`, `KillRecoverable` |
| `loader_update` | the same without faults | `UpdateFlagAccurate` fails: the cached hash is that of the manifest before the run rewrites it |
| `loader_rerun` | the same with one kill | `RerunRestores` fails: a torn first backup is restored over the vanilla file |
| `mods` | up to three mods out of 22: each kind of config, aliases, spellings, broken and refused files | `EveryAssetLoaded`, `LowestPriorityWins` |
| `allocator` | ten heap elements, requests of 1, 2 and 5, new buffers of 4, active buffers of 5 | the four invariants, `CallsReturn`, `ImplementsPool` |
| `parser` | two words, seven texts of which three do not parse and one is a nameless object, three edits (two where one is below the root), a history of two groups; 180 000 states | `Accounted`, `ChildrenFit`, `ReversesParse`, `HistoryShape`, `CallsReturn`, `ImplementsUndoLog` |
| `parser_leak` | the same, three edits anywhere | `ListsGivenBack` fails: an emptied object is freed without its list |
| `parser_undo` | the same | `CancelUndoes` fails: the reverse of an edited child is applied to the root |
| `parser_nameless` | a bare word, a nameless object and the empty text, three edits of the root's children | `CancelRestores` fails: both are removed in one edit, and the cancelled group gives one object back |
| `injection` | the Eternal build; super mods of up to three files with empty and unaligned data, three package map specs (one of them without references), six metas; 100 000 states | `ArchiveReadsBack`, `HashEndsAtIDCL`, `FilesAgree`, `ManifestListsDisk`, `CommasSeparate`, `ImplementsMapArchives`, `PriorityKept` |
| `injection_strings` | the same, up to two files | `AuditedStrings` fails: byte offsets where indices are expected |
| `deserial` | installations of up to four entries, well formed and not, packed for either library, both or none, one with a name that has an extension, in every order of the map, two runs; 8 500 states | `HighestPriority`, `MapMatchesFiles`, `TypesInherited`, `DeclsInherit`, `NeverLost`, `EndsComplete`, `AllDeserialized` |

Why the bounds are enough. *Loader*: two releases give updates, downgrades and partial
updates (a file that does not change may be modded when the update comes); three nonces
suffice because only the disk and the cache remember one; `MaxInjections = 2` lets a
double injection happen, which is what `InjectedOnce` forbids; one fault of each kind
lets faults of different kinds combine. *ModConsolidation*: three mods are what it takes
for a conflict that comes after another one, for ties, and for a refused mod between two
others; two assets, one of them offered twice within a mod. *BlockAllocator*: ten
elements hold two buffers and a gap, and free lists of three blocks, so that the search
takes several probes and every merge happens; 5 exceeds new buffers, so that a request
gets a buffer of its own. *EntityParser*: three edits make a group dropped from a
history of two, and a redo dropped by an edit; the thresholds `LargeCount`, `SpareShare`
and `SpareMax` are scaled down so that spare slots occur; three edits also let a bare
word and a nameless object come to stand side by side and be removed together.
*Injection*: three files with three path lengths give string tables that need padding
and ones that do not; the IDCL block of a header of 124 bytes always has four bytes in
the runs (the one of eight, which goes with a header of 128 bytes, is left to the
proofs, whose `HeaderSize` is any multiple of four); and `LongBits = 2` makes three
resources overflow a long. Chunk sizes are scaled down so that files have several
chunks. *Deserializer*: chains of three entities, an entity overridden by another
archive, and every order of the map; the second run shows what a rerun loses.

Deadlock is not checked: the loader and the users of the allocator may stop at
any time, and the consolidation ends.

Fairness: none for `Loader`, `ModConsolidation` and `Injection`, all of whose properties
are safety properties. `EntityParser` assumes weak fairness of `Parse \/ Execute`,
`Deserializer` of `Run`: one thread, which goes on while it can; no client is ever
obliged to call, and nobody to start another run. `BlockAllocator` assumes weak fairness
of `Internal`: a function once called runs until it returns. In the runs the heap may
have no room for a new buffer; the program then ends with bad_alloc, which is why
`CallsReturn` speaks of the search only.

## 5. Proofs

All proofs are checked by TLAPS for every value of the constants that satisfies
the modules' assumptions (`ConstantsAssumption`).

**LoaderProofs.** `TypeCorrect`; then one inductive invariant per property, each
relative to the type invariant:

- `InjectedOnceInv`: an unmarked file holds no injection, a file without backup
  was never injected into, and from the moment its backup is settled until its
  injection a file holds none. `InjectedOnce` alone is not inductive: it does
  not say why the file being injected is clean.
- `InstalledTogetherInv`: what the archive and the two files hold at each step
  between the cleaning and the end.
- `PatchedInv`: a cached hash equal to the manifest's vouches for the executable,
  unless something outside put that manifest back.
- `SafeInv`: an unmarked file is vanilla, a marked one has a vanilla backup, and
  the cached hash vouches for the backups: if it is that of a release, they are
  that release's. From it `SafeToReload` and the action property
  `KillRecoverable` follow.

**BlockAllocatorProofs.** `AllocatorInvariant`: the types of the memory (`MemoryTypes`),
`PoolInv` and `NothingLost` together. `PoolInv` has the sorted and fully merged free
list, buffers that are apart, what the search has established about the two sides of its
range (`SearchNarrows`), and that everything lies within buffers. `SearchNarrows` is
what makes the two merges sound although they look at one neighbour only: a block left
of `minimum` ends strictly before the new block. From it `FreeListApartTheorem`,
`NothingSharedTheorem`, `NothingLostTheorem` and `PoolRefinement`.

**ModConsolidationProofs.** `ConsolidationInvariant`: type correctness,
`ReadInv` and `ResolveInv` together. `ReadInv` says that what has been read of a
mod is, in order, exactly what is to be taken among the files considered so far;
`ResolveInv` that every mapping is to the best of the files met so far. Neither
property says anything before the end, so neither is inductive alone; and that a
later file of the same mod loses needs the order of `ReadInv`. From them
`EveryAssetLoadedTheorem` and `LowestPriorityWinsTheorem`.

**DataInduction.** The library's induction theorems take an operator as a
parameter, which the provers cannot instantiate. These lemmas take the set of the
numbers that have the property instead. They rest on the theorem that inclusion
of finite sets is well-founded: of a set of numbers, the intervals up to its
members have a minimal one, so the set has a least element (`LeastNat`), and
induction (`IntervalInduction`, `SetInduction`) and the existence of a recursive
function with given steps (`RecursiveFunction`) follow.

**InjectionProofs**, the archive. `BuildReadsBack`: for any list of mod files with any
sizes, the reader finds in the file that `BuildArchive` wrote every header, entry,
string and data block, with nothing of another block in the range it reads.
`HashedPieces`: what is hashed are the entries, the strings and the indices, whole, up
to and including the IDCL tag, and nothing else. The sums and running offsets are
recursive functions, handled by `DataInduction`. From them follows that blocks come in
the order in which they are written, each ending before the next begins (`FixedInOrder`,
`DataInOrder`, hence `BlocksApart`); a range then holds only the pieces of the blocks
within it. The IDCL block, of four or eight bytes, ends at a multiple of eight only if
the sizes of header and entry are multiples of four.

**InjectionProofs**, the steps. `InjectionInv` is inductive: `DocInv` says what the
document has become at each step of `InjectCommonArchive` (in the middle of the loop the
first `i` references are shifted and the others are not, which is why neither
`RefsResolve` nor the refinement would be inductive alone), that every reference
resolves and that the commas stand between elements only; the rest says which archive is
on the disk, that a mask which is whole is read to its end by a reader of the build's
own counter (`MaskOK`; appending one entry keeps it so, `OneMoreEntry`), and that, as
long as nothing failed, package map spec, mask and manifest name the archive from the
step that injects it on. All properties of the run `injection` follow, and for
`CounterAt = 1` that `Test_ContainerMask` reads the mask to its end (`MaskReads`, which
no run checks: they are of the Eternal build); also the refinement of `MapArchives`
(`Refinement`: the step that writes the document is `Inject`, every other one a stutter)
and the action property `PriorityKept`.

**DeserializerProofs.** `DriverInv` holds for every installation: `ReadInv` (what the
extractor has taken is exactly what is named before the entry it is at, and each file is
that of the first entry, where it could be unpacked), `MapInv` (each entry of the map
agrees with the winning entry where the deserializer could unpack that, and says nothing
where not, and nothing but step 2 has changed its type) and `LoopInv` (the order has
every name once; the counter counts the marked). `WellInv` adds what holds of
well-formed ones. `TypedInv`: an entity with a type has that of its nearest ancestor
that says one. It must be stated for all of them at any moment, because a search may
stop at an entity that got its type a moment ago; the type it finds is right all the
same, in whatever order the map is traversed (`AncestorHasType`). `HistoryInv`: a marked
entity's parent is marked, and the history holds exactly what the marked ones say; hence
a search by properties finds the right class (`HistoryFinds`). `NotLost`: no search
fails; that one ends is `SearchEnds`, for each step up the line leaves fewer ancestors.
`CompleteInv`: whoever is marked has a decl, and a run ends only when the counter, which
counts every marked entity once, has reached the size of the map. All seven invariants
of the run `deserial` follow.

**EntityTreeProofs.** What holds of every tree, whatever its size. A *forest* is a
list of lines that are whole nodes at one depth: what a parse yields, and what lies
between two places in a list of children (`CutForest`). The lemmas say what
a tree becomes when a forest is put between two such places: a tree again
(`PutTree`), with the child count of its parent changed by the difference and
every other count kept (`PutCounts`), and sizes that add up (`PutSizes`). From them
`TreeEdit` and `PositionEditIs`, the two edits of lists. `Total` and `FlattenSeq`
are recursive functions; that they respect concatenation (`TotalConcat`,
`FlattenConcat`) is proved by `DataInduction`.

**EntityParserProofs.** `ParserInv` is inductive (`ParserKeeps`), for any words and
texts and any numbers of edits. None of the five invariants of the run `parser` is
inductive alone, and each needs the others' strengthening:

- `TreeInv`, `HeldInv`, `ParseInv`: the tree is one, its lists are large enough, the
  nodes parsed so far are whole nodes, those still open among them have no children
  and no list yet, and what the allocators have handed out is the sum of both. As
  long as all edits are of the root's children, only nodes with children have a
  list (`Trim`); that is why `freeNode`, which looks at the number of children, then
  gives back every list, and why `Accounted` claims equality of the slots only then.
  The counts stay exact through a failed parse because the rollback frees what the
  groups hold (`HeldRollback`).
- `TokensInv`: the tokens left of a command's text lead from the number of objects
  open to none (`Balanced`). Every text that an edit puts into a reverse command is
  generated from a forest and is balanced (`TextBalanced`); so no brace is
  missing or left over when the command is executed, and `ReversesParse` follows. No
  such thing holds of a client's text, which may fail.
- `HistoryInv`, `GroupInv`, `RunInv`: the number of flags is `commandCount`, the
  first and the last command of the history are flagged where the loops of undo and
  redo look for them, and a loop under way has met no flag yet. A finished undo
  overwrites a group by its reverse, of the same length, with its one flag at the other end
  (`UndoFinished`, `RedoFinished`); `PushGroupCommand` counts the flags before the
  redo index from the front, drops one group when the memory is full, and ends with
  as many flags as it counted (`GroupPushed`).

`PastInv` and `BoundsInv` are about the history variables. `ParserTypes`, `NothingLost`,
`ListsNotFuller`, `ReversesAreParsed` and `GroupsAreKept` are read off `ParserInv`.

Assumptions on constants that the proofs use and the code justifies: sizes and
offsets are natural numbers; header and entry sizes are multiples of four
(`LayoutAssumption`: 124 and 144 bytes); the type string is no asset path; there
are finitely many entities, at least one run, and "no decl" is no decl; markers and
vanilla values differ.

Only model-checked: `CallsReturn` and `AllDeserialized` (liveness under fairness is
out of the prover's reach), the properties that fail, and `ImplementsUndoLog`, for
which it would have to be proved that generated text is parsed to the nodes it came
from (section 2, 7).

## 6. Findings

- `UpdateFlagAccurate` (run `loader_update`): LoaderMain.cpp 730-733 means to
  detect game updates by a hash of the manifest, but every complete run changes
  the manifest after its hash is cached. Every run is therefore an update run.
  The loader survives this (`SafeToReload`, `PatchedWhenLoading`) because marked
  files are never taken for vanilla.
- `RerunRestores` (run `loader_rerun`): the advice printed after a crash
  (LoaderMain.cpp 888-891) does not hold when the crash interrupts the first
  backup copy.
- `ListsGivenBack` (run `parser_leak`): `freeNode` looks at `childCount` where it
  should look at `maxChildren`; the lists of emptied objects are lost to the
  allocator until the parser is destroyed.
- `CancelUndoes` (run `parser_undo`): `findPositionalID` was disabled because
  nothing in the repository undoes; the public `CancelGroupCommand`, `Undo` and
  `Redo` now change the wrong node.
- `CancelRestores` (run `parser_nameless`): where clients insert a bare identifier and,
  as its next sibling, an object without a name (`b` and `{ }`, the form in which
  decl files begin, EntityParser.cpp:650), and then remove both in one edit, the
  reverse of that edit is the text `b { }`, which the permissive grammar reads as one
  object named `b` (EntityParser.cpp 678-689). Cancel or undo brings back a document
  that was never there, with one child less than the older commands of the history
  count on; a further undo can then read outside the list of children. The text still
  parses and nothing is lost, so `ReversesParse` and `Accounted` are not concerned.
- `AuditedStrings` (run `injection_strings`): string indices hold byte offsets.
  `Get_EntryStrings`, called by the audit, reads past the list of offsets with
  them.

Seen while modelling, without a run of their own:

- The deserializer does not initialise Oodle as the extractor does, and looks for
  another library in another place (Oodle.cpp:46, 76). Where that is missing, each
  packed entityDef enters the map without parent and class, although its file has been
  extracted: the assert at DeserialMain.cpp:103 does nothing in a release build, and
  the search for a type dereferences the end of the map. The installations of the run
  `deserial` include such ones; `MapMatchesFiles` leaves out just these entries.
- A mod's config is read from eternalmod.txt (ModReader.cpp:11), while Making_Mods.md:16
  names darkagesmod.txt; a mod configured there has the default priority.
- `metaOffset` of the archive header is never set although the audit asserts it
  (ResourceStructs.cpp:148).
- `appendModFiles` looks in `./modarchives` (ManifestPatcherCPP/main.cpp:130) while
  the loader puts its archive in `base/modarchives`, so the manifest never lists it,
  although LoaderMain.cpp:697 says the patcher was "forked to account for the newly
  created .resources".

## 7. Not modelled

By far most lines of the repository are vendored (cryptopp, jsoncpp and
nlohmann's json under the manifest patcher, miniz, FarmHash) or generated
(tables of type information); they are not this program's logic and are modelled,
if at all, by what their callers rely on. Of the program's own code:

- the reflector, a one-shot translation of one text file; the resource analyzer, which
  prints (but its reader of a container mask is modelled); the reserializer, a stub;
  what Oodle does, and the logger;
- an extraction into a folder with leftovers of an earlier one, and an entity whose name
  without its extension is the name of another;
- the typed readers of the deserializer, recursive readers of a binary format
  driven by generated tables, and logic decls and map entities, which are read
  independently of each other;
- `BinaryReader` and `BinaryWriter`: bounds checks and copies of bytes;
- the tokenizer, the entities and JSON grammars (commas are modelled for the two arrays of
  `PackageMapSpec`), and list numbering;
- hash collisions (a hash is its content), `size_t` overflow, bad_alloc, which
  ends the programs; two loaders at once, or an update during a run; messages
  and logs; zip inflation and cryptography, which are libraries.

`argflag_resetvanilla` is tested in `InjectorLoadMods` but never set, so its
branch is not an action.
