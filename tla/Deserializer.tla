----------------------------- MODULE Deserializer -----------------------------
(***************************************************************************)
(* The driver of the deserializer (DeserialMain.cpp) on what the extractor *)
(* left, and what it needs from deserialcore.cpp: DeserialInit builds      *)
(* entityclassmap from the archives, a second step gives every entity the  *)
(* class it inherits, and DeserializeEntitydefs turns the files into decls *)
(* in as many passes as it takes for parents to come before children,      *)
(* because a property whose class is not in the file takes it from the     *)
(* history its ancestors have left.                                        *)
(*                                                                         *)
(* Both maps are unordered: the order of a run is arbitrary, and the same  *)
(* in all its loops.  Asserts do nothing in a release build.               *)
(***************************************************************************)
EXTENDS Extractor

CONSTANTS
  Classes,         \* type infos
  Properties,      \* property paths that hold a polymorphic object
  NoParent,        \* the hash 0 of an entityDef that inherits from none
  NoClass,         \* the type hash 0; a class that is not in the file
  Absent,          \* a property that is not in the file
  NoDecl,          \* no .decl file
  RemoveBinaries,  \* remove_binaries
  MaxRuns          \* bound: runs of the deserializer

DefOf == [parent : Entities \cup {NoParent}, class : Classes \cup {NoClass},
          properties : [Properties -> Classes \cup {NoClass, Absent}]]
DeclOf == [inherit : Entities \cup {NoParent}, entityType : Classes \cup {NoClass},
           properties : [Properties -> Classes \cup {NoClass, Absent}]]

ASSUME DeserializerAssumption ==
  /\ Defs \subseteq DefOf
  /\ NoParent \notin Entities
  /\ NoDecl \notin DeclOf
  /\ Cardinality({NoClass, Absent} \ Classes) = 2
  /\ RemoveBinaries \in BOOLEAN
  /\ MaxRuns \in Nat \ {0}

VARIABLES
  entityclassmap,     \* the known entities: parent, typehash, deserialized
  order,              \* the order of the loops over it
  k,                  \* where such a loop is
  totaldeserialized,
  typeinfoHistory,    \* classes by property path and entity
  decls,              \* the .decl file of each entity
  pc,                 \* "extract", "init", "resolve", "deserialize", "done",
                      \* "aborted", "undefined" or "endless"
  runs                \* of the deserializer

deserializerVars ==
  <<entityclassmap, order, k, totaldeserialized, typeinfoHistory, decls, pc, runs>>
allVars == <<extractorVars, deserializerVars>>

Empty == [n \in {} |-> {}]

DeserializerInit ==
  /\ ExtractorInit
  /\ entityclassmap = Empty
  /\ order = <<>> /\ k = 1
  /\ totaldeserialized = 0
  /\ typeinfoHistory = Empty
  /\ decls = [n \in Entities |-> NoDecl]
  /\ pc = "extract"
  /\ runs = 1

-----------------------------------------------------------------------------
Extract ==
  /\ pc = "extract"
  /\ ExtractEntry
  /\ UNCHANGED deserializerVars

EndExtraction ==
  /\ pc = "extract" /\ Extracted
  /\ pc' = "init"
  /\ at' = 1
  /\ UNCHANGED <<listing, extractedfiles, files, entityclassmap, order, k,
                 totaldeserialized, typeinfoHistory, decls, runs>>

-----------------------------------------------------------------------------
(* DeserialInit, step 1: the header of every entityDef.                    *)

(* Faulty variant: the last one read stays.                                *)
Assign(map, n, c) == [m \in DOMAIN map \cup {n} |-> IF m = n THEN c ELSE map[m]]

(* What is there stays there.                                              *)
Emplace(map, n, c) ==
  [m \in DOMAIN map \cup {n} |-> IF m \in DOMAIN map THEN map[m] ELSE c]

Reads(e) == Get_EntryData_Internal(e, "oo2core_8")

(* Of data that cannot be unpacked nothing is read, and nobody notices:    *)
(* the assert on the return code does nothing.                             *)
ClassDef(e) ==
  [parent   |-> IF Reads(e) THEN e.def.parent ELSE NoParent,
   typehash |-> IF Reads(e) THEN e.def.class ELSE NoClass,
   deserialized |-> FALSE]

ReadEntry ==
  /\ pc = "init" /\ ~Extracted
  /\ entityclassmap' = Emplace(entityclassmap, listing[at].name, ClassDef(listing[at]))
  /\ at' = at + 1
  /\ UNCHANGED <<listing, extractedfiles, files, order, k, totaldeserialized,
                 typeinfoHistory, decls, pc, runs>>

Orders(S) == {o \in [1 .. Cardinality(S) -> S] : \A i, j \in DOMAIN o : o[i] = o[j] => i = j}

StartResolving ==
  /\ pc = "init" /\ Extracted
  /\ order' \in Orders(DOMAIN entityclassmap)
  /\ k' = 1
  /\ pc' = "resolve"
  /\ UNCHANGED <<extractorVars, entityclassmap, totaldeserialized, typeinfoHistory, decls, runs>>

-----------------------------------------------------------------------------
(* Step 2: the nearest ancestor that has a type hash already, its own or   *)
(* one that this loop has given it.                                        *)

(* The n-th ancestor, from the 0th: the entity itself.                     *)
Line(e) ==
  LET line[n \in 0 .. Cardinality(Entities)] ==
        IF n = 0 THEN e
        ELSE IF line[n - 1] \in DOMAIN entityclassmap
               THEN entityclassmap[line[n - 1]].parent
               ELSE NoParent
  IN  line

Unknown(a) == a \notin DOMAIN entityclassmap

(* A search for one of a set begins at the parent and ends at the first    *)
(* ancestor that is in the set, or not in the map.                         *)
Ends(e, S) ==
  LET line == Line(e)
  IN  {n \in 1 .. Cardinality(Entities) : line[n] \in S \/ Unknown(line[n])}

Finds(e, S) == Ends(e, S) # {}
Ancestor(e, S) == Line(e)[CHOOSE n \in Ends(e, S) : \A m \in Ends(e, S) : n <= m]

Typed == {a \in DOMAIN entityclassmap : entityclassmap[a].typehash # NoClass}

(* Faulty variant: only the parent is asked.                               *)
InheritedTypeOfParent(e) ==
  LET p == entityclassmap[e].parent
  IN  IF Unknown(p) THEN NoClass ELSE entityclassmap[p].typehash
InheritedType(e) == entityclassmap[Ancestor(e, Typed)].typehash

NextToResolve == order[k]
IsTyped == NextToResolve \in Typed

Resolve ==
  /\ pc = "resolve" /\ k <= Len(order)
  /\ \/ IsTyped /\ UNCHANGED <<entityclassmap, pc>>
     \/ /\ ~IsTyped
        /\ Finds(NextToResolve, Typed)
        /\ IF Unknown(Ancestor(NextToResolve, Typed))
             THEN pc' = "undefined" /\ UNCHANGED entityclassmap   \* end() is read
             ELSE /\ entityclassmap' = [entityclassmap EXCEPT
                       ![NextToResolve].typehash = InheritedType(NextToResolve)]
                  /\ UNCHANGED pc
     \/ /\ ~IsTyped
        /\ ~Finds(NextToResolve, Typed)
        /\ pc' = "endless"
        /\ UNCHANGED entityclassmap
  /\ k' = k + 1
  /\ UNCHANGED <<extractorVars, order, totaldeserialized, typeinfoHistory, decls, runs>>

StartDeserializing ==
  /\ pc = "resolve" /\ k > Len(order)
  /\ pc' = "deserialize"
  /\ k' = 1
  /\ UNCHANGED <<extractorVars, entityclassmap, order, totaldeserialized,
                 typeinfoHistory, decls, runs>>

-----------------------------------------------------------------------------
(* ds_start_entitydef.                                                     *)

(* Without a class of its own it takes its parent's: the parent is in the  *)
(* map, or step 2 would have been undefined.                               *)
EntityType(def) ==
  IF def.class # NoClass THEN def.class ELSE entityclassmap[def.parent].typehash

Named(e) == {p \in Properties : files[e].properties[p] \in Classes}
Unnamed(e) == {p \in Properties : files[e].properties[p] = NoClass}

Naming(p) == {a \in Entities : <<p, a>> \in DOMAIN typeinfoHistory}

(* Faulty variant: the history of the parent is not looked at.             *)
HistorySkipping(e, p) == Ancestor(e, Naming(p) \ {entityclassmap[e].parent})
(* The nearest ancestor that named the class.                              *)
History(e, p) == Ancestor(e, Naming(p))

HistoryKnows(e) ==
  \A p \in Unnamed(e) : Finds(e, Naming(p)) /\ History(e, p) \in Naming(p)

PropertyClass(e, p) ==
  IF p \in Unnamed(e) THEN typeinfoHistory[<<p, History(e, p)>>]
  ELSE files[e].properties[p]

Decl(e) == [inherit |-> files[e].parent, entityType |-> EntityType(files[e]),
            properties |-> [p \in Properties |-> PropertyClass(e, p)]]

Remembered(e) ==
  [key \in DOMAIN typeinfoHistory \cup Named(e) \X {e} |->
     IF key \in DOMAIN typeinfoHistory THEN typeinfoHistory[key]
     ELSE files[e].properties[key[1]]]

-----------------------------------------------------------------------------
(* DeserializeEntitydefs: passes over the map until all are deserialized.  *)

(* Faulty variant: one is not waited for.                                  *)
MoreToDoButOne == totaldeserialized + 1 < Cardinality(DOMAIN entityclassmap)
MoreToDo == totaldeserialized < Cardinality(DOMAIN entityclassmap)

Current == order[k]
Visiting == pc = "deserialize" /\ k <= Len(order)

(* Faulty variants: children do not wait; or those without a parent do.    *)
ParentIsReadyAlways(e) == TRUE
ParentIsReadyKnown(e) ==
  entityclassmap[e].parent \in {a \in DOMAIN entityclassmap : entityclassmap[a].deserialized}
ParentIsReady(e) ==
  LET p == entityclassmap[e].parent
  IN  p \in DOMAIN entityclassmap => entityclassmap[p].deserialized

Turn(e) == ~entityclassmap[e].deserialized /\ ParentIsReady(e)

(* Faulty variant: whoever is skipped is counted.                          *)
SkipCounting ==
  /\ Visiting /\ ~Turn(Current)
  /\ k' = k + 1
  /\ totaldeserialized' = totaldeserialized + 1
  /\ UNCHANGED <<extractorVars, entityclassmap, order, typeinfoHistory, decls, pc, runs>>

Skip ==
  /\ Visiting /\ ~Turn(Current)
  /\ k' = k + 1
  /\ UNCHANGED <<extractorVars, entityclassmap, order, totaldeserialized,
                 typeinfoHistory, decls, pc, runs>>

Deserialize ==
  /\ Visiting /\ Turn(Current)
  /\ LET e == Current IN
       /\ files[e] # NoFile
       /\ HistoryKnows(e)
       /\ decls' = [decls EXCEPT ![e] = Decl(e)]
       /\ typeinfoHistory' = Remembered(e)
       /\ entityclassmap' = [entityclassmap EXCEPT ![e].deserialized = TRUE]
       /\ files' = IF RemoveBinaries THEN [files EXCEPT ![e] = NoFile] ELSE files
  /\ totaldeserialized' = totaldeserialized + 1
  /\ k' = k + 1
  /\ UNCHANGED <<listing, at, extractedfiles, order, pc, runs>>

(* "ERROR: Failed to read entitydef": those before it keep their decls.    *)
(* So it is with a file that could not be unpacked, with one of an earlier *)
(* run, and with every name that has an extension, for which the file path *)
(* has .bin (a name that, without its extension, is another entity's is    *)
(* not modelled).                                                          *)
Abort ==
  /\ Visiting /\ Turn(Current) /\ files[Current] = NoFile
  /\ pc' = "aborted"
  /\ UNCHANGED <<extractorVars, entityclassmap, order, k, totaldeserialized,
                 typeinfoHistory, decls, runs>>

(* No ancestor has named the class of some property: the search enters the *)
(* hash 0 into the map and goes on from there for ever.                    *)
Lost ==
  /\ Visiting /\ Turn(Current) /\ files[Current] # NoFile
  /\ ~HistoryKnows(Current)
  /\ pc' = "endless"
  /\ UNCHANGED <<extractorVars, entityclassmap, order, k, totaldeserialized,
                 typeinfoHistory, decls, runs>>

EndPass ==
  /\ pc = "deserialize" /\ k > Len(order)
  /\ k' = 1
  /\ pc' = IF MoreToDo THEN "deserialize" ELSE "done"
  /\ UNCHANGED <<extractorVars, entityclassmap, order, totaldeserialized,
                 typeinfoHistory, decls, runs>>

(* The deserializer is run again on the same folder.                       *)
RunAgain ==
  /\ pc \in {"done", "aborted"} /\ runs < MaxRuns
  /\ runs' = runs + 1
  /\ pc' = "init" /\ at' = 1
  /\ entityclassmap' = Empty /\ typeinfoHistory' = Empty
  /\ totaldeserialized' = 0 /\ order' = <<>> /\ k' = 1
  /\ UNCHANGED <<listing, extractedfiles, files, decls>>

Run ==
  \/ Extract \/ EndExtraction \/ ReadEntry \/ StartResolving \/ Resolve
  \/ StartDeserializing \/ Skip \/ Deserialize \/ Abort \/ Lost \/ EndPass

DeserializerNext == Run \/ RunAgain

(* A run goes on while it can; nobody has to start another one.            *)
DeserializerSpec ==
  DeserializerInit /\ [][DeserializerNext]_allVars /\ WF_allVars(Run)

-----------------------------------------------------------------------------
(* What the installation says, whatever order it is read in.               *)

DefOfName(n) == Winner(n).def

(* The least set that has the parents of an entity and of its members.    *)
HasParents(S, n) ==
  \A m \in (S \cap Names) \cup {n} : DefOfName(m).parent \in S \cup {NoParent}
Ancestors(n) ==
  {a \in Entities : \A S \in SUBSET Entities : HasParents(S, n) => a \in S}

(* Of the ancestors in a set, the one all others are above of.             *)
Nearest(n, S) ==
  CHOOSE a \in Ancestors(n) \cap S :
    \A b \in (Ancestors(n) \cap S) \ {a} : b \in Ancestors(a)

SayingClass == {a \in Names : DefOfName(a).class # NoClass}
SayingProperty(p) == {a \in Names : DefOfName(a).properties[p] \in Classes}

(* Both programs get the data of every entity, under a name without an     *)
(* extension; its line of parents ends and is complete, and what it does   *)
(* not say an ancestor does.                                               *)
WellFormed ==
  \A n \in Names :
    /\ Extracts(Winner(n)) /\ Reads(Winner(n)) /\ n \notin Extended
    /\ n \notin Ancestors(n)
    /\ Ancestors(n) \subseteq Names
    /\ n \notin SayingClass => Ancestors(n) \cap SayingClass # {}
    /\ \A p \in Properties :
         DefOfName(n).properties[p] = NoClass => Ancestors(n) \cap SayingProperty(p) # {}

TypeOfName(n) ==
  DefOfName(IF n \in SayingClass THEN n ELSE Nearest(n, SayingClass)).class

PropertyOfName(n, p) ==
  DefOfName(IF DefOfName(n).properties[p] # NoClass THEN n
            ELSE Nearest(n, SayingProperty(p))).properties[p]

-----------------------------------------------------------------------------
(* The types of the variables; the loop's counter is the number of those   *)
(* that are marked.                                                        *)
TypeOK ==
  /\ ExtractorTypeOK
  /\ DOMAIN entityclassmap \subseteq Entities
  /\ \A n \in DOMAIN entityclassmap :
       entityclassmap[n] \in [parent : Entities \cup {NoParent},
                              typehash : Classes \cup {NoClass}, deserialized : BOOLEAN]
  /\ order \in Seq(Entities) /\ k \in 1 .. Len(order) + 1
  /\ totaldeserialized
       = Cardinality({n \in DOMAIN entityclassmap : entityclassmap[n].deserialized})
  /\ DOMAIN typeinfoHistory \subseteq Properties \X Entities
  /\ pc \in {"extract", "init", "resolve", "deserialize", "done", "aborted",
             "undefined", "endless"}
  /\ runs \in 1 .. MaxRuns

Agrees(n) ==
  /\ entityclassmap[n].parent = files[n].parent
  /\ files[n].class # NoClass => entityclassmap[n].typehash = files[n].class

(* The map and the files come from the same version of each entity: the    *)
(* extractor and DeserialInit decide on it each for itself, and a newest   *)
(* version that one of the two cannot unpack is not replaced by an older.  *)
MapMatchesFiles ==
  \A n \in DOMAIN entityclassmap :
    files[n] # NoFile /\ Reads(Winner(n)) => Agrees(n)

(* The order of the map does not show in the types that step 2 gives.      *)
TypesInherited ==
  WellFormed /\ pc = "deserialize" =>
    \A n \in Names : entityclassmap[n].typehash = TypeOfName(n)

(* Nor in the decls: an object gets the class of the nearest ancestor that *)
(* names one, and an entity the type of its parent.                        *)
DeclsInherit ==
  WellFormed =>
    \A n \in Names :
      decls[n] # NoDecl =>
        decls[n] = [inherit |-> DefOfName(n).parent, entityType |-> TypeOfName(n),
                    properties |-> [p \in Properties |-> PropertyOfName(n, p)]]

(* With such an installation no map is read at its end, no search goes on  *)
(* for ever, and the first run does not miss a file.                       *)
NeverLost ==
  WellFormed => pc \notin {"undefined", "endless"} /\ (runs = 1 => pc # "aborted")

(* A run that ends has written the decl of every entity: its counter       *)
(* counts them, and each one once.                                         *)
EndsComplete ==
  WellFormed /\ pc = "done" => \A n \in Names : decls[n] # NoDecl

(* And every entity gets its decl in the end, for good, whatever the order *)
(* and however many passes it takes.                                       *)
AllDeserialized ==
  WellFormed ~> [](\A n \in Names : decls[n] # NoDecl)
===============================================================================
