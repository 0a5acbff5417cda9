------------------------------ MODULE Extractor ------------------------------
(***************************************************************************)
(* The consolidated resource extractor (ExtractorMain.cpp): it goes        *)
(* through the game's archives from the highest priority to the lowest and *)
(* writes each resource out from the first archive that has it.            *)
(*                                                                         *)
(* An installation is the list of all entries of all archives in that      *)
(* order, which is GetPrioritizedArchiveList's.  Entries of types that the *)
(* configuration does not ask for are left out of it.  The folder that is  *)
(* extracted into is empty at the beginning.                               *)
(***************************************************************************)
EXTENDS Naturals, Sequences, FiniteSets

CONSTANTS
  Entities,       \* names of entityDefs
  Defs,           \* what an entityDef may say
  Extended,       \* those of the names that end in an extension
  Installations,  \* lists of entries
  NoFile          \* no such file

(* The extractor unpacks with the oo2core_9_win64.dll of the game's folder, *)
(* and downloads it if it must; the deserializer with the oo2core_8_win64   *)
(* it finds in its working directory, if any.  An entry is stored as it is, *)
(* or packed and unpacked by the ones and not by the others.                *)
Libraries == {"oo2core_9", "oo2core_8"}
EntryOf == [name : Entities, def : Defs, stored : BOOLEAN, unpackedBy : SUBSET Libraries]

(* Of an unknown compression it says so, but hands out the data as it is,   *)
(* and both programs go on with it; def is what the data says.              *)
Get_EntryData_Internal(e, library) == e.stored \/ library \in e.unpackedBy

Extracts(e) == Get_EntryData_Internal(e, "oo2core_9")

ASSUME ExtractorAssumption ==
  /\ IsFiniteSet(Entities)
  /\ Extended \subseteq Entities
  /\ Installations \subseteq Seq(EntryOf)
  /\ NoFile \notin Defs

VARIABLES
  listing,         \* the installation
  at,              \* the entry a loop is at
  extractedfiles,  \* the names that have been taken
  files            \* the .bin file of each entity

extractorVars == <<listing, at, extractedfiles, files>>

ExtractorInit ==
  /\ listing \in Installations
  /\ at = 1
  /\ extractedfiles = {}
  /\ files = [n \in Entities |-> NoFile]

(* Faulty variant: an archive of lower priority writes over it.            *)
IsNewAlways(name) == TRUE
IsNew(name) == name \notin extractedfiles

(* Where the file goes: a name that has an extension keeps it, and is not  *)
(* among the .bin files.                                                   *)
BecomesBin(name) == name \notin Extended

(* A file whose data cannot be unpacked has been taken all the same: no    *)
(* archive of lower priority stands in for it.                             *)
ExtractEntry ==
  /\ at <= Len(listing)
  /\ LET e == listing[at] IN
       IF IsNew(e.name)
         THEN /\ extractedfiles' = extractedfiles \cup {e.name}
              /\ files' = IF Extracts(e) /\ BecomesBin(e.name)
                            THEN [files EXCEPT ![e.name] = e.def] ELSE files
         ELSE UNCHANGED <<extractedfiles, files>>
  /\ at' = at + 1
  /\ UNCHANGED listing

Extracted == at > Len(listing)

-----------------------------------------------------------------------------
(* The entry that the game itself would take: the one of the highest       *)
(* priority.                                                               *)
Names == {listing[k].name : k \in DOMAIN listing}

Winner(name) ==
  LET first == CHOOSE k \in DOMAIN listing :
                 /\ listing[k].name = name
                 /\ \A j \in 1 .. k - 1 : listing[j].name # name
  IN  listing[first]

ExtractorTypeOK ==
  /\ listing \in Installations
  /\ at \in 1 .. Len(listing) + 1
  /\ extractedfiles \subseteq Entities
  /\ files \in [Entities -> Defs \cup {NoFile}]

(* Whatever is extracted is the version of the highest priority, never an  *)
(* older one, even where the newest cannot be unpacked.                    *)
HighestPriority ==
  \A n \in Entities :
    files[n] # NoFile =>
      n \in Names /\ Extracts(Winner(n)) /\ files[n] = Winner(n).def
=============================================================================
