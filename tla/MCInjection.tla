----------------------------- MODULE MCInjection -----------------------------
(* Three assets, data that is empty or ends between two multiples of 8     *)
(* bytes, and package map specs in which two maps share files or none.     *)
EXTENDS Injection

CONSTANTS short, middle, long, gameresources, patch, bin, common_mod, oldmod,
          vanilla, executable, unpacked, stray

MCAssets == {short, middle, long}
MCPathLength == (short :> 6) @@ (middle :> 15) @@ (long :> 20)

MCFiles == {gameresources, patch, bin, common_mod, oldmod}
MCPackages == {gameresources, patch, common_mod, oldmod}
MCModArchives == {common_mod, oldmod}

Ref(f, m) == [file |-> f, map |-> m]

MCShipped ==
  { [files |-> <<gameresources>>, mapFileRefs |-> <<Ref(0, 0), Ref(0, 1)>>],
    [files |-> <<patch, bin, gameresources>>,
     mapFileRefs |-> <<Ref(2, 0), Ref(0, 1), Ref(1, 0)>>],
    [files |-> <<oldmod, gameresources>>, mapFileRefs |-> <<>>] }

Shipping(size) == [fileSize |-> size, chunkSize |-> 10, numHashes |-> size \div 10]
MCOtherFiles == (executable :> 80)
MCManifests ==
  {[p \in {"pms", "meta", executable, unpacked} |-> Shipping(70)]}
MCModDir == (stray :> 33)

MCHashes == {vanilla}

(* A mask without entries, and one with the game's own archive.            *)
MCMask(table, size) ==
  [counters |-> [c \in 1 .. CounterAt |-> IF c = CounterAt THEN Len(table) ELSE 9],
   table |-> table, size |-> size]
MCGameMasks ==
  {MCMask(<<>>, 4 * CounterAt),
   MCMask(<<[at |-> 4 * CounterAt, hash |-> vanilla, longs |-> 2]>>, 4 * CounterAt + 28)}
=============================================================================
