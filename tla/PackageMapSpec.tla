--------------------------- MODULE PackageMapSpec ---------------------------
(***************************************************************************)
(* packagemapspec.json (PackageMapSpec.cpp): a list of files, and a list   *)
(* of references, each the index of a file and the index of a map.         *)
(* Injecting an archive at the front of the files shifts every index; the  *)
(* document is edited in memory and written at the end.                    *)
(***************************************************************************)
EXTENDS Integers, SequencesExt

CONSTANTS
  Files,       \* names in the list of files
  NewArchive,  \* the name of the archive to inject
  ModArchives, \* the names that contain "modarchives"
  Packages,    \* the names that end in ".resources"
  NumMaps,     \* how many maps there are, the first one "common"
  Shipped      \* the documents the game may ship

Refs == [file : Nat, map : 0 .. NumMaps - 1]
Documents == [files : Seq(Files), mapFileRefs : Seq(Refs)]

(* Every reference is to a file of the list.                               *)
RefsResolve(s) ==
  \A k \in DOMAIN s.mapFileRefs : s.mapFileRefs[k].file < Len(s.files)

ASSUME ConstantsAssumption ==
  /\ NewArchive \in Files \cap ModArchives \cap Packages
  /\ NumMaps \in Nat \ {0}
  /\ Shipped \subseteq Documents
  /\ \A s \in Shipped : RefsResolve(s)

VARIABLES
  pms,     \* the file
  parsed,  \* the document InjectCommonArchive edits
  step,    \* "parse", "files", "increment", "refs", "write" or "injected"
  i,       \* the reference its loop is at, from 0
  commas   \* which elements of its two lists have a comma after them

vars == <<pms, parsed, step, i, commas>>

-----------------------------------------------------------------------------
(* What a document says.                                                   *)

CommonMap == 0
MapIndices == 0 .. NumMaps - 1

(* ToString: one reference after the other adds its file to its map.       *)
ArchivesAfter(s) ==
  LET filemapping[k \in 0 .. Len(s.mapFileRefs)] ==
        IF k = 0 THEN [m \in MapIndices |-> <<>>]
        ELSE LET ref == s.mapFileRefs[k] IN
             [filemapping[k - 1] EXCEPT ![ref.map] = Append(@, s.files[ref.file + 1])]
  IN  filemapping

ArchivesOf(s) == ArchivesAfter(s)[Len(s.mapFileRefs)]

(* GetPrioritizedArchiveList: higher priority first.                       *)
IsListed(f, includeModArchives) == f \in Packages /\ (f \in ModArchives => includeModArchives)

ListAfter(files, includeModArchives) ==
  LET packages[k \in 0 .. Len(files)] ==
        IF k = 0 THEN <<>>
        ELSE IF IsListed(files[k], includeModArchives) THEN Append(packages[k - 1], files[k])
        ELSE packages[k - 1]
  IN  packages

GetPrioritizedArchiveList(s, includeModArchives) ==
  ListAfter(s.files, includeModArchives)[Len(s.files)]

-----------------------------------------------------------------------------
(* Commas are flags of the elements, so that elements can be inserted as   *)
(* they are.                                                               *)

LastHas(list, flag) == IF list = <<>> THEN <<>> ELSE [list EXCEPT ![Len(list)] = flag]

(* parseJsonArray: all but the last, wherever the text had them.           *)
parseJsonArray(n) == LastHas([k \in 1 .. n |-> TRUE], FALSE)

(* Faulty variant: the last element is taken to be one of the old ones.    *)
EditTreeCommasOfOld(old) == LastHas(parseJsonArray(1), TRUE) \o LastHas(old, FALSE)

(* EditTree inserts one element at the front: all get a comma, then the    *)
(* last one, which may be the one inserted, loses it.                      *)
EditTreeCommas(old) ==
  LastHas(LastHas(parseJsonArray(1), TRUE) \o LastHas(old, TRUE), FALSE)

-----------------------------------------------------------------------------
Init ==
  /\ pms \in Shipped
  /\ parsed = pms
  /\ step = "parse" /\ i = 0
  /\ commas = [files |-> <<>>, mapFileRefs |-> <<>>]

Parse ==
  /\ step = "parse"
  /\ parsed' = pms
  /\ commas' = [files |-> parseJsonArray(Len(pms.files)),
                mapFileRefs |-> parseJsonArray(Len(pms.mapFileRefs))]
  /\ step' = "files"
  /\ UNCHANGED <<pms, i>>

(* Faulty variant: the archive goes to the end of the list.                *)
AppendFile ==
  /\ step = "files"
  /\ parsed' = [parsed EXCEPT !.files = Append(@, NewArchive)]
  /\ commas' = [commas EXCEPT !.files = EditTreeCommas(@)]
  /\ step' = "increment" /\ i' = 0
  /\ UNCHANGED pms

InsertFile ==
  /\ step = "files"
  /\ parsed' = [parsed EXCEPT !.files = <<NewArchive>> \o @]
  /\ commas' = [commas EXCEPT !.files = EditTreeCommas(@)]
  /\ step' = "increment" /\ i' = 0
  /\ UNCHANGED pms

(* Faulty variant: references to the first file are left alone.            *)
NextIndexButFirst(index) == IF index = 0 THEN 0 ELSE index + 1
NextIndex(index) == index + 1

(* Faulty variant: the loop goes one step too far.                         *)
IncrementRefPastEnd ==
  /\ step = "increment" /\ i <= Len(parsed.mapFileRefs)
  /\ parsed' = [parsed EXCEPT !.mapFileRefs =
                  [k \in DOMAIN @ |->
                     IF k = i + 1 THEN [@[k] EXCEPT !.file = NextIndex(@)] ELSE @[k]]]
  /\ i' = i + 1
  /\ UNCHANGED <<pms, step, commas>>

IncrementRef ==
  /\ step = "increment" /\ i < Len(parsed.mapFileRefs)
  /\ parsed' = [parsed EXCEPT !.mapFileRefs[i + 1].file = NextIndex(@)]
  /\ i' = i + 1
  /\ UNCHANGED <<pms, step, commas>>

RefsIncremented ==
  /\ step = "increment" /\ i = Len(parsed.mapFileRefs)
  /\ step' = "refs"
  /\ UNCHANGED <<pms, parsed, i, commas>>

InsertRef ==
  /\ step = "refs"
  /\ parsed' = [parsed EXCEPT !.mapFileRefs = <<[file |-> 0, map |-> CommonMap]>> \o @]
  /\ commas' = [commas EXCEPT !.mapFileRefs = EditTreeCommas(@)]
  /\ step' = "write"
  /\ UNCHANGED <<pms, i>>

WriteToFile ==
  /\ step = "write"
  /\ pms' = parsed
  /\ step' = "injected"
  /\ UNCHANGED <<parsed, i, commas>>

Next == Parse \/ InsertFile \/ IncrementRef \/ RefsIncremented \/ InsertRef \/ WriteToFile

Spec == Init /\ [][Next]_vars

-----------------------------------------------------------------------------
(* The types of the variables.                                             *)
TypeOK ==
  /\ pms \in Documents /\ parsed \in Documents
  /\ step \in {"parse", "files", "increment", "refs", "write", "injected"}
  /\ i \in 0 .. Len(parsed.mapFileRefs)

(* What is written is JSON: in either list a comma between any two         *)
(* elements and none after the last, also in a list that was empty.        *)
CommasSeparate ==
  step \in {"write", "injected"} =>
    \A list \in {"files", "mapFileRefs"} :
      /\ DOMAIN commas[list] = DOMAIN parsed[list]
      /\ \A k \in DOMAIN commas[list] : commas[list][k] <=> k < Len(parsed[list])

(* Every map keeps its archives, in order; common gains the new one in     *)
(* front.                                                                  *)
Abstract == INSTANCE MapArchives WITH Common <- CommonMap, archives <- ArchivesOf(pms)

ImplementsMapArchives == Abstract!Spec

(* Injecting leaves the priorities of the game's own archives alone, and   *)
(* gives the new archive the highest.                                      *)
PriorityKept ==
  [][/\ GetPrioritizedArchiveList(pms', FALSE) = GetPrioritizedArchiveList(pms, FALSE)
     /\ pms' # pms => GetPrioritizedArchiveList(pms', TRUE)
                        = <<NewArchive>> \o GetPrioritizedArchiveList(pms, TRUE)]_pms
=============================================================================
