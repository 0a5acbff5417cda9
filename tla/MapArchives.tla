---------------------------- MODULE MapArchives ----------------------------
(***************************************************************************)
(* What packagemapspec.json means to the game: for every map the archives  *)
(* it is loaded from, in order.  Injecting an archive puts it first among  *)
(* those of the common map and changes nothing else.                       *)
(***************************************************************************)
EXTENDS Sequences

CONSTANTS Common, NewArchive

VARIABLE archives   \* the archives of each map

Inject == archives' = [archives EXCEPT ![Common] = <<NewArchive>> \o @]

Spec == [][Inject]_archives
=============================================================================
