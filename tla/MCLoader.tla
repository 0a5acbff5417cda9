------------------------------ MODULE MCLoader ------------------------------
(***************************************************************************)
(* The loader's life on a small instance: release r2 updates one of the    *)
(* two files only, so an update may or may not download a modded file.     *)
(***************************************************************************)
EXTENDS Loader, TLC

CONSTANTS r1, r2, m1, n1, n2, n3

MCReleases == {r1, r2}
MCMods     == {m1}
MCNonces   == {n1, n2, n3}

MCFileVersion ==
  [r \in MCReleases |->
     [f \in {"packagemapspec.json", "meta.resources"} |->
        IF r = r2 /\ f = "meta.resources" THEN 2 ELSE 1]]

MCMaxFaults ==
  [k \in {"kill", "io", "loss"} |-> 1]

(* For the questions asked of a loader that meets no fault, or only kills. *)
MCNoFaults  == [k \in {"kill", "io", "loss"} |-> 0]
MCOneKill   == [k \in {"kill", "io", "loss"} |-> IF k = "kill" THEN 1 ELSE 0]

MCSymmetry == Permutations(MCNonces)
=============================================================================
