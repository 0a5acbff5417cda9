-------------------------- MODULE DeserializerProofs --------------------------
(***************************************************************************)
(* Proofs about the extractor and the deserializer.  Everything that is    *)
(* compared with the installation depends on listing alone, which no step  *)
(* changes; the first lemmas carry it over a step.                         *)
(***************************************************************************)
EXTENDS Deserializer, DataInduction

LEMMA WinnerSame ==
  ASSUME listing' = listing, NEW n
  PROVE  Winner(n)' = Winner(n)
BY DEF Winner

LEMMA NamesSame == ASSUME listing' = listing PROVE Names' = Names
BY DEF Names

LEMMA DefSame ==
  ASSUME listing' = listing, NEW n
  PROVE  DefOfName(n)' = DefOfName(n)
BY WinnerSame DEF DefOfName

LEMMA AncestorsSame ==
  ASSUME listing' = listing, NEW n
  PROVE  Ancestors(n)' = Ancestors(n)
BY DefSame, NamesSame DEF Ancestors, HasParents

LEMMA NearestSame ==
  ASSUME listing' = listing, NEW n, NEW S
  PROVE  Nearest(n, S)' = Nearest(n, S)
BY AncestorsSame DEF Nearest

LEMMA TypeSame ==
  ASSUME listing' = listing, NEW n
  PROVE  TypeOfName(n)' = TypeOfName(n)
BY NearestSame, DefSame, NamesSame DEF TypeOfName, SayingClass

LEMMA PropertySame ==
  ASSUME listing' = listing, NEW n, NEW p
  PROVE  PropertyOfName(n, p)' = PropertyOfName(n, p)
<1>1. SayingProperty(p)' = SayingProperty(p)
  BY DefSame, NamesSame DEF SayingProperty
<1> DEFINE m == IF DefOfName(n).properties[p] # NoClass THEN n
                ELSE Nearest(n, SayingProperty(p))
<1>2. m' = m
  BY <1>1, NearestSame, DefSame
<1>3. PICK c : c = m
  OBVIOUS
<1>4. PropertyOfName(n, p) = DefOfName(c).properties[p]
  BY <1>3 DEF PropertyOfName
<1>5. PropertyOfName(n, p)' = DefOfName(c)'.properties[p]
  BY <1>2, <1>3 DEF PropertyOfName
<1> QED BY <1>4, <1>5, DefSame

LEMMA WellFormedSame ==
  ASSUME listing' = listing
  PROVE  WellFormed' <=> WellFormed
<1>1. SayingClass' = SayingClass
  BY DefSame, NamesSame DEF SayingClass
<1>2. ASSUME NEW p PROVE SayingProperty(p)' = SayingProperty(p)
  BY DefSame, NamesSame DEF SayingProperty
<1> QED BY <1>1, <1>2, AncestorsSame, NamesSame, WinnerSame, DefSame DEF WellFormed

-----------------------------------------------------------------------------
(* The extractor: Winner is the entry that comes first.                    *)

(* The names of the entries a loop has gone past.                          *)
NamesBefore(i) == {listing[j].name : j \in 1 .. i - 1}

IsFirst(i) == listing[i].name \notin NamesBefore(i)

LEMMA ListingFacts ==
  ASSUME listing \in Installations
  PROVE  /\ listing \in Seq(EntryOf)
         /\ Len(listing) \in Nat
         /\ DOMAIN listing = 1 .. Len(listing)
         /\ Names \subseteq Entities
         /\ IsFiniteSet(Names)
<1>1. listing \in Seq(EntryOf)
  BY ExtractorAssumption
<1>2. Len(listing) \in Nat /\ DOMAIN listing = 1 .. Len(listing)
  BY <1>1
<1>3. \A j \in 1 .. Len(listing) : listing[j].name \in Entities
  <2>1. \A e \in EntryOf : e.name \in Entities
    BY DEF EntryOf
  <2> QED BY <1>1, <2>1
<1>4. Names \subseteq Entities
  BY <1>2, <1>3 DEF Names
<1>5. IsFiniteSet(Names)
  BY <1>4, ExtractorAssumption, FS_Subset
<1> QED BY <1>1, <1>2, <1>4, <1>5

LEMMA WinnerIsFirst ==
  ASSUME listing \in Installations, NEW i \in 1 .. Len(listing), IsFirst(i)
  PROVE  Winner(listing[i].name) = listing[i]
<1> DEFINE name == listing[i].name
           P(j) == listing[j].name = name /\ \A l \in 1 .. j - 1 : listing[l].name # name
<1>1. Len(listing) \in Nat /\ DOMAIN listing = 1 .. Len(listing)
  BY ListingFacts
<1>2. P(i)
  BY DEF IsFirst, NamesBefore
<1>3. ASSUME NEW j \in DOMAIN listing, P(j) PROVE j = i
  <2>1. ~(i \in 1 .. j - 1) /\ ~(j \in 1 .. i - 1)
    BY <1>2, <1>3
  <2> QED BY <1>1, <2>1
<1>4. i \in DOMAIN listing
  BY <1>1
<1>5. (CHOOSE j \in DOMAIN listing : P(j)) = i
  <2> HIDE DEF P
  <2> QED BY <1>2, <1>3, <1>4
<1> QED BY <1>5 DEF Winner

LEMMA WinnerIsThere ==
  ASSUME listing \in Installations, NEW n \in Names
  PROVE  \E i \in 1 .. Len(listing) :
           IsFirst(i) /\ listing[i].name = n /\ Winner(n) = listing[i]
<1>1. Len(listing) \in Nat /\ DOMAIN listing = 1 .. Len(listing)
  BY ListingFacts
<1> DEFINE T == {j \in 1 .. Len(listing) : listing[j].name = n}
<1>2. T \subseteq Nat /\ T # {}
  BY <1>1 DEF Names
<1>3. PICK i \in T : \A j \in T : i <= j
  <2> HIDE DEF T
  <2> QED BY <1>2, LeastNat
<1>4. IsFirst(i)
  <2>1. ASSUME NEW j \in 1 .. i - 1 PROVE listing[j].name # n
    <3>1. j \notin T
      BY <1>3, <1>2
    <3> QED BY <1>1, <3>1
  <2> QED BY <2>1 DEF IsFirst, NamesBefore
<1>5. Winner(n) = listing[i]
  BY <1>4, WinnerIsFirst
<1> QED BY <1>4, <1>5

LEMMA WinnerType ==
  ASSUME listing \in Installations, NEW n \in Names
  PROVE  Winner(n) \in EntryOf /\ DefOfName(n) \in DefOf
<1>1. Winner(n) \in EntryOf
  BY WinnerIsThere, ListingFacts
<1>2. \A e \in EntryOf : e.def \in Defs
  BY DEF EntryOf
<1> QED BY <1>1, <1>2, DeserializerAssumption DEF DefOfName

LEMMA NamesBeforeNext ==
  ASSUME NEW i \in Nat \ {0}
  PROVE  NamesBefore(i + 1) = NamesBefore(i) \cup {listing[i].name}
<1>1. 1 .. (i + 1) - 1 = (1 .. i - 1) \cup {i}
  OBVIOUS
<1> QED BY <1>1 DEF NamesBefore

LEMMA NamesBeforeEnds ==
  ASSUME listing \in Installations
  PROVE  NamesBefore(1) = {} /\ NamesBefore(Len(listing) + 1) = Names
<1>1. 1 .. 1 - 1 = {}
  OBVIOUS
<1>2. 1 .. (Len(listing) + 1) - 1 = DOMAIN listing
  BY ListingFacts
<1> QED BY <1>1, <1>2 DEF NamesBefore, Names

LEMMA NamesBeforeSame ==
  ASSUME listing' = listing, NEW i
  PROVE  NamesBefore(i)' = NamesBefore(i)
BY DEF NamesBefore

-----------------------------------------------------------------------------
(* What the extractor leaves: the names it has taken are those of the      *)
(* entries before the one it is at, and of the names it has not taken      *)
(* there is no file.                                                       *)
ReadInv ==
  /\ ExtractorTypeOK
  /\ pc \in {"extract", "init", "resolve", "deserialize", "done", "aborted",
             "undefined", "endless"}
  /\ extractedfiles = IF pc = "extract" THEN NamesBefore(at) ELSE Names
  /\ \A n \in Entities \ extractedfiles : files[n] = NoFile
  /\ HighestPriority

LEMMA ReadInit == DeserializerInit => ReadInv
<1> SUFFICES ASSUME DeserializerInit PROVE ReadInv
  OBVIOUS
<1> USE DEF DeserializerInit, ExtractorInit
<1>1. ExtractorTypeOK
  <2>1. 1 \in 1 .. Len(listing) + 1
    BY ListingFacts
  <2> QED BY <2>1 DEF ExtractorTypeOK
<1>2. extractedfiles = NamesBefore(at)
  BY NamesBeforeEnds
<1>3. HighestPriority
  BY DEF HighestPriority
<1> QED BY <1>1, <1>2, <1>3 DEF ReadInv

LEMMA PriorityKeeps ==
  ASSUME HighestPriority, listing' = listing,
         \A n \in Entities : files'[n] \in {files[n], NoFile}
  PROVE  HighestPriority'
<1>1. SUFFICES ASSUME NEW n \in Entities, files'[n] # NoFile
               PROVE  n \in Names' /\ Extracts(Winner(n))' /\ files'[n] = Winner(n)'.def
  BY DEF HighestPriority
<1>2. files'[n] = files[n]
  BY <1>1
<1> QED BY <1>1, <1>2, NamesSame, WinnerSame DEF HighestPriority

LEMMA ExtractReads ==
  ASSUME ReadInv, Extract
  PROVE  ReadInv'
<1> USE DEF Extract, ExtractEntry, deserializerVars
<1> DEFINE e == listing[at]
<1>1. listing \in Installations /\ listing' = listing
  BY DEF ReadInv, ExtractorTypeOK
<1>2. at \in 1 .. Len(listing) /\ at \in Nat \ {0} /\ Len(listing) \in Nat
  BY <1>1, ListingFacts DEF ReadInv, ExtractorTypeOK
<1>3. e \in EntryOf
  BY <1>1, <1>2, ListingFacts
<1>4. e.name \in Entities /\ e.def \in Defs
  BY <1>3 DEF EntryOf
<1>5. extractedfiles = NamesBefore(at) /\ NamesBefore(at + 1) = NamesBefore(at) \cup {e.name}
  BY <1>2, NamesBeforeNext DEF ReadInv
<1>6. extractedfiles' = NamesBefore(at)'
  <2>1. NamesBefore(at)' = NamesBefore(at + 1)
    BY <1>1 DEF NamesBefore
  <2>2. extractedfiles' = extractedfiles \cup {e.name}
    BY DEF IsNew
  <2> QED BY <2>1, <2>2, <1>5
<1>7. ExtractorTypeOK'
  <2>1. at' \in 1 .. Len(listing) + 1
    BY <1>2
  <2>2. extractedfiles' \subseteq Entities
    BY <1>4 DEF ReadInv, ExtractorTypeOK
  <2>3. files' \in [Entities -> Defs \cup {NoFile}]
    BY <1>4 DEF ReadInv, ExtractorTypeOK
  <2> QED BY <1>1, <2>1, <2>2, <2>3 DEF ExtractorTypeOK
<1>8. CASE ~(IsNew(e.name) /\ Extracts(e) /\ BecomesBin(e.name))
  <2>1. files' = files
    BY <1>8
  <2>2. extractedfiles \subseteq extractedfiles'
    OBVIOUS
  <2>3. HighestPriority'
    BY <2>1, <1>1, PriorityKeeps DEF ReadInv
  <2> QED BY <1>6, <1>7, <2>1, <2>2, <2>3 DEF ReadInv
<1>9. CASE IsNew(e.name) /\ Extracts(e) /\ BecomesBin(e.name)
  <2>1. files' = [files EXCEPT ![e.name] = e.def]
    BY <1>9
  <2>2. files \in [Entities -> Defs \cup {NoFile}]
    BY DEF ReadInv, ExtractorTypeOK
  <2>3. Winner(e.name) = e /\ e.name \in Names
    <3>1. IsFirst(at)
      BY <1>9, <1>5 DEF IsFirst, IsNew
    <3>2. at \in DOMAIN listing
      BY <1>1, <1>2, ListingFacts
    <3> QED BY <1>1, <1>2, <3>1, <3>2, WinnerIsFirst DEF Names
  <2>4. HighestPriority'
    <3>1. SUFFICES ASSUME NEW n \in Entities, files'[n] # NoFile
                   PROVE  n \in Names' /\ Extracts(Winner(n))' /\ files'[n] = Winner(n)'.def
      BY DEF HighestPriority
    <3>2. CASE n = e.name
      BY <2>1, <2>2, <2>3, <1>1, <1>9, <3>2, NamesSame, WinnerSame
    <3>3. CASE n # e.name
      <4>1. files'[n] = files[n]
        BY <2>1, <2>2, <3>3
      <4> QED BY <4>1, <3>1, <1>1, NamesSame, WinnerSame DEF ReadInv, HighestPriority
    <3> QED BY <3>2, <3>3
  <2>5. \A n \in Entities \ extractedfiles' : files'[n] = NoFile
    <3>1. extractedfiles' = extractedfiles \cup {e.name}
      BY <1>9
    <3> QED BY <2>1, <2>2, <3>1 DEF ReadInv
  <2> QED BY <1>6, <1>7, <2>4, <2>5 DEF ReadInv
<1> QED BY <1>8, <1>9

(* The other steps change at most where a loop is, and take files away.    *)
LEMMA OthersRead ==
  ASSUME ReadInv, listing' = listing, extractedfiles' = extractedfiles,
         pc # "extract" \/ (Extracted /\ pc = "extract"), pc' # "extract",
         pc' \in {"extract", "init", "resolve", "deserialize", "done", "aborted",
                  "undefined", "endless"},
         at' \in 1 .. Len(listing) + 1,
         files' \in [Entities -> Defs \cup {NoFile}],
         \A n \in Entities : files'[n] \in {files[n], NoFile}
  PROVE  ReadInv'
<1>1. listing \in Installations
  BY DEF ReadInv, ExtractorTypeOK
<1>2. ExtractorTypeOK'
  BY <1>1 DEF ReadInv, ExtractorTypeOK
<1>3. extractedfiles = Names
  <2>1. CASE pc = "extract"
    <3>1. at = Len(listing) + 1
      BY <1>1, <2>1, ListingFacts DEF ReadInv, ExtractorTypeOK, Extracted
    <3> QED BY <3>1, <2>1, <1>1, NamesBeforeEnds DEF ReadInv
  <2>2. CASE pc # "extract"
    BY <2>2 DEF ReadInv
  <2> QED BY <2>1, <2>2
<1>4. HighestPriority'
  BY PriorityKeeps DEF ReadInv
<1>5. \A n \in Entities \ extractedfiles' : files'[n] = NoFile
  BY DEF ReadInv
<1> QED BY <1>2, <1>3, <1>4, <1>5, NamesSame DEF ReadInv

LEMMA StutterReads == ASSUME ReadInv, UNCHANGED allVars PROVE ReadInv'
<1>1. listing' = listing /\ files' = files
  BY DEF allVars, extractorVars
<1>2. HighestPriority'
  BY <1>1, PriorityKeeps DEF ReadInv
<1>3. NamesBefore(at)' = NamesBefore(at) /\ Names' = Names
  BY DEF allVars, extractorVars, NamesBefore, Names
<1>4. ExtractorTypeOK'
  BY DEF ReadInv, ExtractorTypeOK, allVars, extractorVars
<1> QED BY <1>2, <1>3, <1>4 DEF ReadInv, allVars, extractorVars, deserializerVars

LEMMA ReadStep == ReadInv /\ [DeserializerNext]_allVars => ReadInv'
<1> SUFFICES ASSUME ReadInv, [DeserializerNext]_allVars PROVE ReadInv'
  OBVIOUS
<1>1. listing \in Installations /\ Len(listing) \in Nat
  BY ListingFacts DEF ReadInv, ExtractorTypeOK
<1>2. /\ at \in 1 .. Len(listing) + 1 /\ 1 \in 1 .. Len(listing) + 1
      /\ files \in [Entities -> Defs \cup {NoFile}]
      /\ pc \in {"extract", "init", "resolve", "deserialize", "done", "aborted",
                 "undefined", "endless"}
  BY <1>1 DEF ReadInv, ExtractorTypeOK
<1>3. CASE Extract
  BY <1>3, ExtractReads
<1>4. CASE EndExtraction
  BY <1>4, <1>2, OthersRead DEF EndExtraction
<1>5. CASE ReadEntry
  <2>1. at' \in 1 .. Len(listing) + 1
    BY <1>5, <1>1, <1>2 DEF ReadEntry, Extracted
  <2> QED BY <2>1, <1>5, <1>2, OthersRead DEF ReadEntry
<1>6. CASE StartResolving
  BY <1>6, <1>2, OthersRead DEF StartResolving, extractorVars
<1>7. CASE Resolve
  BY <1>7, <1>2, OthersRead DEF Resolve, extractorVars
<1>8. CASE StartDeserializing
  BY <1>8, <1>2, OthersRead DEF StartDeserializing, extractorVars
<1>9. CASE Skip
  BY <1>9, <1>2, OthersRead DEF Skip, Visiting, extractorVars
<1>10. CASE Deserialize
  <2>1. files' \in [Entities -> Defs \cup {NoFile}]
    BY <1>10, <1>2 DEF Deserialize
  <2>2. \A n \in Entities : files'[n] \in {files[n], NoFile}
    BY <1>10, <1>2 DEF Deserialize
  <2> QED BY <2>1, <2>2, <1>10, <1>2, OthersRead DEF Deserialize, Visiting
<1>11. CASE Abort
  BY <1>11, <1>2, OthersRead DEF Abort, Visiting, extractorVars
<1>12. CASE Lost
  BY <1>12, <1>2, OthersRead DEF Lost, Visiting, extractorVars
<1>13. CASE EndPass
  BY <1>13, <1>2, OthersRead DEF EndPass, extractorVars
<1>14. CASE RunAgain
  BY <1>14, <1>2, OthersRead DEF RunAgain
<1>15. CASE UNCHANGED allVars
  BY <1>15, StutterReads
<1> QED
  BY <1>3, <1>4, <1>5, <1>6, <1>7, <1>8, <1>9, <1>10, <1>11, <1>12, <1>13, <1>14, <1>15
     DEF DeserializerNext, Run

-----------------------------------------------------------------------------
(* The map: it has the names that were read, each with the parent and, if  *)
(* it has one, the class that its winner gives it.                         *)
EntityOf == [parent : Entities \cup {NoParent}, typehash : Classes \cup {NoClass},
             deserialized : BOOLEAN]

FromWinner(n, c) ==
  /\ c \in EntityOf
  /\ c.parent = ClassDef(Winner(n)).parent
  /\ ClassDef(Winner(n)).typehash # NoClass => c.typehash = ClassDef(Winner(n)).typehash

MapInv ==
  /\ DOMAIN entityclassmap = IF pc = "extract" THEN {}
                             ELSE IF pc = "init" THEN NamesBefore(at) ELSE Names
  /\ \A n \in DOMAIN entityclassmap : FromWinner(n, entityclassmap[n])
  /\ pc = "init" => \A n \in DOMAIN entityclassmap : entityclassmap[n] = ClassDef(Winner(n))

LEMMA ClassDefType == ASSUME NEW e \in EntryOf PROVE ClassDef(e) \in EntityOf
<1>1. e.def \in DefOf
  <2>1. e.def \in Defs
    BY DEF EntryOf
  <2> QED BY <2>1, DeserializerAssumption
<1>2. e.def.parent \in Entities \cup {NoParent} /\ e.def.class \in Classes \cup {NoClass}
  BY <1>1 DEF DefOf
<1> QED BY <1>1, <1>2 DEF ClassDef, EntityOf

LEMMA ClassDefSame ==
  ASSUME listing' = listing, NEW n
  PROVE  ClassDef(Winner(n))' = ClassDef(Winner(n))
<1>1. Winner(n)' = Winner(n)
  BY WinnerSame
<1> QED BY <1>1 DEF ClassDef

LEMMA FromWinnerSame ==
  ASSUME listing' = listing, NEW n, NEW c
  PROVE  FromWinner(n, c)' <=> FromWinner(n, c)
BY ClassDefSame DEF FromWinner

LEMMA MapInit == DeserializerInit => MapInv
<1> SUFFICES ASSUME DeserializerInit PROVE MapInv
  OBVIOUS
<1>1. pc = "extract" /\ DOMAIN entityclassmap = {}
  BY DEF DeserializerInit, Empty
<1> QED BY <1>1 DEF MapInv

(* Steps that leave the map alone, or at most mark or type an entity.      *)
LEMMA MapKeeps ==
  ASSUME MapInv, listing' = listing, pc \notin {"extract", "init"},
         pc' \notin {"extract", "init"},
         DOMAIN entityclassmap' = DOMAIN entityclassmap,
         \A n \in DOMAIN entityclassmap : FromWinner(n, entityclassmap'[n])
  PROVE  MapInv'
<1>1. DOMAIN entityclassmap' = Names'
  BY NamesSame DEF MapInv
<1>2. ASSUME NEW n \in DOMAIN entityclassmap' PROVE FromWinner(n, entityclassmap[n])'
  <2>1. PICK c : c = entityclassmap'[n]
    OBVIOUS
  <2>2. FromWinner(n, c)'
    BY <2>1, FromWinnerSame
  <2> QED BY <2>1, <2>2 DEF FromWinner
<1> QED BY <1>1, <1>2 DEF MapInv

LEMMA MapStays ==
  ASSUME MapInv, listing' = listing, pc \notin {"extract", "init"},
         pc' \notin {"extract", "init"}, UNCHANGED entityclassmap
  PROVE  MapInv'
BY MapKeeps DEF MapInv

LEMMA ReadEntryMaps ==
  ASSUME ReadInv, MapInv, ReadEntry
  PROVE  MapInv'
<1> DEFINE e == listing[at]
<1>1. listing \in Installations /\ listing' = listing /\ pc = "init" /\ pc' = "init"
  BY DEF ReadInv, ExtractorTypeOK, ReadEntry
<1>2. at \in 1 .. Len(listing) /\ at \in Nat \ {0} /\ Len(listing) \in Nat
  BY <1>1, ListingFacts DEF ReadInv, ExtractorTypeOK, ReadEntry, Extracted
<1>3. e \in EntryOf
  BY <1>1, <1>2, ListingFacts
<1>4. DOMAIN entityclassmap = NamesBefore(at)
  BY <1>1 DEF MapInv
<1>5. entityclassmap' = Emplace(entityclassmap, e.name, ClassDef(e))
  BY DEF ReadEntry
<1>6. DOMAIN entityclassmap' = NamesBefore(at)'
  <2>1. DOMAIN entityclassmap' = DOMAIN entityclassmap \cup {e.name}
    BY <1>5 DEF Emplace
  <2>2. NamesBefore(at)' = NamesBefore(at + 1)
    BY <1>1 DEF ReadEntry, NamesBefore
  <2> QED BY <2>1, <2>2, <1>2, <1>4, NamesBeforeNext
<1>7. ASSUME NEW n \in DOMAIN entityclassmap'
      PROVE  entityclassmap'[n] = ClassDef(Winner(n)) /\ Winner(n) \in EntryOf
  <2>1. CASE n \in DOMAIN entityclassmap
    <3>1. entityclassmap'[n] = entityclassmap[n]
      BY <1>5, <2>1 DEF Emplace
    <3>2. n \in Names
      <4>1. NamesBefore(at) \subseteq Names
        BY <1>1, <1>2, ListingFacts DEF NamesBefore, Names
      <4> QED BY <2>1, <1>4, <4>1
    <3> QED BY <3>1, <3>2, <2>1, <1>1, WinnerType DEF MapInv
  <2>2. CASE n \notin DOMAIN entityclassmap
    <3>1. n = e.name /\ entityclassmap'[n] = ClassDef(e)
      BY <1>5, <2>2 DEF Emplace
    <3>2. IsFirst(at)
      BY <2>2, <3>1, <1>4 DEF IsFirst
    <3> QED BY <3>1, <3>2, <1>1, <1>2, <1>3, WinnerIsFirst
  <2> QED BY <2>1, <2>2
<1>8. ASSUME NEW n \in DOMAIN entityclassmap' PROVE FromWinner(n, entityclassmap[n])'
  <2>1. ClassDef(Winner(n)) \in EntityOf
    BY <1>7, ClassDefType
  <2> QED BY <2>1, <1>1, <1>7, ClassDefSame DEF FromWinner
<1>9. \A n \in DOMAIN entityclassmap' : entityclassmap'[n] = ClassDef(Winner(n))'
  BY <1>1, <1>7, ClassDefSame
<1> QED BY <1>1, <1>6, <1>8, <1>9 DEF MapInv

LEMMA ResolveMaps ==
  ASSUME MapInv, Resolve
  PROVE  MapInv'
<1> DEFINE e == NextToResolve
           a == Ancestor(e, Typed)
<1>1. /\ pc = "resolve" /\ listing' = listing
      /\ pc' \in {"resolve", "undefined", "endless"}
      /\ \/ UNCHANGED entityclassmap
         \/ /\ ~IsTyped /\ ~Unknown(a)
            /\ entityclassmap' = [entityclassmap EXCEPT ![e].typehash = InheritedType(e)]
  BY DEF Resolve, extractorVars
<1>2. CASE UNCHANGED entityclassmap
  BY <1>1, <1>2, MapStays
<1>3. CASE /\ ~IsTyped /\ ~Unknown(a)
           /\ entityclassmap' = [entityclassmap EXCEPT ![e].typehash = InheritedType(e)]
  <2>1. InheritedType(e) \in Classes \cup {NoClass}
    <3>1. a \in DOMAIN entityclassmap
      BY <1>3 DEF Unknown
    <3>2. entityclassmap[a] \in EntityOf
      BY <3>1 DEF MapInv, FromWinner
    <3>3. entityclassmap[a].typehash \in Classes \cup {NoClass}
      BY <3>2 DEF EntityOf
    <3> QED BY <3>3 DEF InheritedType
  <2>2. ASSUME NEW n \in DOMAIN entityclassmap PROVE FromWinner(n, entityclassmap'[n])
    <3>1. FromWinner(n, entityclassmap[n])
      BY DEF MapInv
    <3>2. CASE n # e
      BY <3>1, <3>2, <1>3
    <3>3. CASE n = e
      <4>1. entityclassmap'[n] = [entityclassmap[n] EXCEPT !.typehash = InheritedType(e)]
        BY <1>3, <3>3
      <4>2. entityclassmap[n].typehash = NoClass
        BY <1>3, <3>3 DEF IsTyped, Typed
      <4>3. ClassDef(Winner(n)).typehash = NoClass
        BY <3>1, <4>2 DEF FromWinner
      <4>4. entityclassmap'[n] \in EntityOf /\ entityclassmap'[n].parent = entityclassmap[n].parent
        BY <4>1, <3>1, <2>1 DEF FromWinner, EntityOf
      <4> QED BY <4>3, <4>4, <3>1 DEF FromWinner
    <3> QED BY <3>2, <3>3
  <2>3. DOMAIN entityclassmap' = DOMAIN entityclassmap
    BY <1>3
  <2> QED BY <1>1, <2>2, <2>3, MapKeeps
<1> QED BY <1>1, <1>2, <1>3

LEMMA DeserializeMaps ==
  ASSUME MapInv, Deserialize
  PROVE  MapInv'
<1>1. /\ pc = "deserialize" /\ pc' = pc /\ listing' = listing
      /\ entityclassmap' = [entityclassmap EXCEPT ![Current].deserialized = TRUE]
  BY DEF Deserialize, Visiting
<1>2. ASSUME NEW n \in DOMAIN entityclassmap PROVE FromWinner(n, entityclassmap'[n])
  <2>1. FromWinner(n, entityclassmap[n])
    BY DEF MapInv
  <2>2. CASE n # Current
    BY <2>1, <2>2, <1>1
  <2>3. CASE n = Current
    <3>1. entityclassmap'[n] = [entityclassmap[n] EXCEPT !.deserialized = TRUE]
      BY <1>1, <2>3
    <3>2. entityclassmap'[n] \in EntityOf
      BY <3>1, <2>1 DEF FromWinner, EntityOf
    <3>3. /\ entityclassmap'[n].parent = entityclassmap[n].parent
          /\ entityclassmap'[n].typehash = entityclassmap[n].typehash
      BY <3>1, <2>1 DEF FromWinner, EntityOf
    <3> QED BY <3>2, <3>3, <2>1 DEF FromWinner
  <2> QED BY <2>2, <2>3
<1>3. DOMAIN entityclassmap' = DOMAIN entityclassmap
  BY <1>1
<1> QED BY <1>1, <1>2, <1>3, MapKeeps

LEMMA MapStep == ReadInv /\ MapInv /\ [DeserializerNext]_allVars => MapInv'
<1> SUFFICES ASSUME ReadInv, MapInv, [DeserializerNext]_allVars PROVE MapInv'
  OBVIOUS
<1>1. listing \in Installations
  BY DEF ReadInv, ExtractorTypeOK
<1>2. CASE Extract
  <2>1. pc = "extract" /\ pc' = "extract" /\ entityclassmap' = entityclassmap
    BY <1>2 DEF Extract, deserializerVars
  <2>2. DOMAIN entityclassmap = {}
    BY <2>1 DEF MapInv
  <2> QED BY <2>1, <2>2 DEF MapInv
<1>3. CASE EndExtraction \/ RunAgain
  <2>1. pc' = "init" /\ DOMAIN entityclassmap' = {} /\ at' = 1 /\ listing' = listing
    BY <1>3 DEF EndExtraction, RunAgain, MapInv, Empty
  <2>2. NamesBefore(at)' = {}
    <3>1. NamesBefore(at)' = NamesBefore(1)
      BY <2>1 DEF NamesBefore
    <3> QED BY <3>1, <1>1, NamesBeforeEnds
  <2> QED BY <2>1, <2>2 DEF MapInv
<1>4. CASE ReadEntry
  BY <1>4, ReadEntryMaps
<1>5. CASE StartResolving
  <2>1. pc = "init" /\ pc' = "resolve" /\ listing' = listing /\ UNCHANGED entityclassmap
    BY <1>5 DEF StartResolving, extractorVars
  <2>2. at = Len(listing) + 1
    BY <1>5, <1>1, ListingFacts DEF StartResolving, Extracted, ReadInv, ExtractorTypeOK
  <2>3. DOMAIN entityclassmap = Names
    BY <2>1, <2>2, <1>1, NamesBeforeEnds DEF MapInv
  <2>4. ASSUME NEW n \in DOMAIN entityclassmap' PROVE FromWinner(n, entityclassmap[n])'
    <3>1. FromWinner(n, entityclassmap[n])
      BY <2>1 DEF MapInv
    <3>2. PICK c : c = entityclassmap[n]
      OBVIOUS
    <3>3. FromWinner(n, c)'
      BY <3>1, <3>2, <2>1, FromWinnerSame
    <3> QED BY <3>2, <3>3, <2>1 DEF FromWinner
  <2> QED BY <2>1, <2>3, <2>4, NamesSame DEF MapInv
<1>6. CASE Resolve
  BY <1>6, ResolveMaps
<1>7. CASE StartDeserializing
  BY <1>7, MapStays DEF StartDeserializing, extractorVars
<1>8. CASE Deserialize
  BY <1>8, DeserializeMaps
<1>9. CASE Skip \/ Abort \/ Lost
  BY <1>9, MapStays DEF Skip, Abort, Lost, Visiting, extractorVars
<1>10. CASE EndPass
  BY <1>10, MapStays DEF EndPass, extractorVars
<1>11. CASE UNCHANGED allVars
  <2>1. /\ entityclassmap' = entityclassmap /\ listing' = listing /\ pc' = pc
        /\ NamesBefore(at)' = NamesBefore(at) /\ Names' = Names
    BY <1>11 DEF allVars, extractorVars, deserializerVars, NamesBefore, Names
  <2>2. ASSUME NEW n PROVE Winner(n)' = Winner(n)
    BY <2>1, WinnerSame
  <2> QED BY <2>1, <2>2 DEF MapInv, FromWinner, ClassDef
<1> QED
  BY <1>2, <1>3, <1>4, <1>5, <1>6, <1>7, <1>8, <1>9, <1>10, <1>11 DEF DeserializerNext, Run

-----------------------------------------------------------------------------
(* The loops: order goes through every name once, and the counter is the   *)
(* number of the entities that are marked.                                 *)
Marked == {n \in DOMAIN entityclassmap : entityclassmap[n].deserialized}

LoopInv ==
  /\ order \in Seq(Entities) /\ k \in 1 .. Len(order) + 1
  /\ pc \notin {"extract", "init"} => order \in Orders(Names)
  /\ totaldeserialized = Cardinality(Marked)
  /\ DOMAIN typeinfoHistory \subseteq Properties \X Entities
  /\ runs \in 1 .. MaxRuns

LEMMA OrderFacts ==
  ASSUME listing \in Installations, NEW o \in Orders(Names)
  PROVE  /\ o \in Seq(Entities) /\ Len(o) \in Nat /\ DOMAIN o = 1 .. Len(o)
         /\ \A i \in 1 .. Len(o) : o[i] \in Names
         /\ \A n \in Names : \E i \in 1 .. Len(o) : o[i] = n
<1> DEFINE N == Cardinality(Names)
<1>1. IsFiniteSet(Names) /\ N \in Nat /\ Names \subseteq Entities
  BY ListingFacts, FS_CardinalityType
<1>2. o \in [1 .. N -> Names] /\ \A i, j \in 1 .. N : o[i] = o[j] => i = j
  BY DEF Orders
<1>3. o \in Seq(Names) /\ Len(o) = N
  BY <1>1, <1>2
<1>4. IsFiniteSet(1 .. N) /\ Cardinality(1 .. N) = N
  BY <1>1, FS_Interval
<1>5. o \in Injection(1 .. N, Names)
  BY <1>2 DEF Injection, IsInjective
<1>6. o \in Surjection(1 .. N, Names)
  BY <1>1, <1>4, <1>5, FS_Injection
<1>7. \A n \in Names : \E i \in 1 .. N : o[i] = n
  BY <1>6 DEF Surjection
<1>8. o \in Seq(Entities)
  BY <1>1, <1>2
<1> QED BY <1>1, <1>2, <1>3, <1>7, <1>8

LEMMA MarkedFinite == ASSUME ReadInv, MapInv PROVE IsFiniteSet(Marked) /\ Marked \subseteq Names
<1>1. listing \in Installations
  BY DEF ReadInv, ExtractorTypeOK
<1>2. DOMAIN entityclassmap \subseteq Names
  <2>1. at \in 1 .. Len(listing) + 1
    BY DEF ReadInv, ExtractorTypeOK
  <2>2. NamesBefore(at) \subseteq Names
    BY <1>1, <2>1, ListingFacts DEF NamesBefore, Names
  <2> QED BY <2>2 DEF MapInv
<1> QED BY <1>1, <1>2, ListingFacts, FS_Subset DEF Marked

LEMMA LoopInit == DeserializerInit => LoopInv
<1> SUFFICES ASSUME DeserializerInit PROVE LoopInv
  OBVIOUS
<1> USE DEF DeserializerInit, Empty
<1>1. Marked = {}
  BY DEF Marked
<1>2. totaldeserialized = Cardinality(Marked)
  BY <1>1, FS_EmptySet
<1>3. order \in Seq(Entities) /\ k \in 1 .. Len(order) + 1
  OBVIOUS
<1>4. runs \in 1 .. MaxRuns
  BY DeserializerAssumption
<1> QED BY <1>2, <1>3, <1>4 DEF LoopInv

(* Steps that mark nobody.                                                 *)
LEMMA LoopKeeps ==
  ASSUME LoopInv, listing' = listing, Marked' = Marked,
         UNCHANGED <<totaldeserialized, typeinfoHistory, runs, order>>,
         k' \in 1 .. Len(order) + 1,
         pc' \in {"extract", "init"} \/ pc \notin {"extract", "init"}
  PROVE  LoopInv'
<1>1. Names' = Names
  BY NamesSame
<1>2. Orders(Names)' = Orders(Names)
  BY <1>1 DEF Orders
<1> QED BY <1>1, <1>2 DEF LoopInv

LEMMA CurrentIsNamed ==
  ASSUME ReadInv, LoopInv, MapInv, pc \notin {"extract", "init"}, k <= Len(order)
  PROVE  /\ order[k] \in Names /\ Names = DOMAIN entityclassmap /\ order[k] \in Entities
         /\ k + 1 \in 1 .. Len(order) + 1
<1>1. listing \in Installations /\ order \in Orders(Names)
  BY DEF ReadInv, ExtractorTypeOK, LoopInv
<1>2. k \in 1 .. Len(order) /\ Len(order) \in Nat
  BY <1>1, OrderFacts DEF LoopInv
<1>3. Names = DOMAIN entityclassmap
  BY DEF MapInv
<1> QED BY <1>1, <1>2, <1>3, OrderFacts, ListingFacts

(* Resolving marks nobody.                                                 *)
LEMMA ResolveMarks ==
  ASSUME MapInv, Resolve
  PROVE  Marked' = Marked
<1>1. CASE UNCHANGED entityclassmap
  BY <1>1 DEF Marked
<1>2. ASSUME NEW x, entityclassmap' = [entityclassmap EXCEPT ![NextToResolve].typehash = x]
      PROVE  Marked' = Marked
  <2>1. DOMAIN entityclassmap' = DOMAIN entityclassmap
    BY <1>2
  <2>2. ASSUME NEW n \in DOMAIN entityclassmap
        PROVE  entityclassmap'[n].deserialized = entityclassmap[n].deserialized
    <3>1. entityclassmap[n] \in EntityOf
      BY DEF MapInv, FromWinner
    <3>2. CASE n # NextToResolve
      BY <1>2, <3>2
    <3>3. CASE n = NextToResolve
      <4>1. entityclassmap'[n] = [entityclassmap[n] EXCEPT !.typehash = x]
        BY <1>2, <3>3
      <4> QED BY <4>1, <3>1 DEF EntityOf
    <3> QED BY <3>2, <3>3
  <2> QED BY <2>1, <2>2 DEF Marked
<1> QED BY <1>1, <1>2 DEF Resolve

LEMMA ResolveLoops ==
  ASSUME ReadInv, MapInv, LoopInv, Resolve
  PROVE  LoopInv'
<1>1. pc = "resolve" /\ k <= Len(order) /\ k' = k + 1
  BY DEF Resolve
<1>2. k' \in 1 .. Len(order) + 1
  BY <1>1, CurrentIsNamed
<1>3. Marked' = Marked
  BY ResolveMarks
<1> QED BY <1>1, <1>2, <1>3, LoopKeeps DEF Resolve, extractorVars

LEMMA RememberedDomain ==
  ASSUME NEW e \in Entities, DOMAIN typeinfoHistory \subseteq Properties \X Entities
  PROVE  /\ DOMAIN Remembered(e) = DOMAIN typeinfoHistory \cup Named(e) \X {e}
         /\ DOMAIN Remembered(e) \subseteq Properties \X Entities
<1>1. DOMAIN Remembered(e) = DOMAIN typeinfoHistory \cup Named(e) \X {e}
  BY DEF Remembered
<1>2. Named(e) \X {e} \subseteq Properties \X Entities
  BY DEF Named
<1> QED BY <1>1, <1>2

(* Who is deserialized joins the marked.                                   *)
LEMMA DeserializeMarks ==
  ASSUME MapInv, Deserialize, Current \in DOMAIN entityclassmap
  PROVE  /\ Current \notin Marked
         /\ Marked' = Marked \cup {Current}
         /\ DOMAIN entityclassmap' = DOMAIN entityclassmap
         /\ \A n \in DOMAIN entityclassmap :
              /\ entityclassmap'[n].parent = entityclassmap[n].parent
              /\ entityclassmap'[n].typehash = entityclassmap[n].typehash
<1>1. entityclassmap' = [entityclassmap EXCEPT ![Current].deserialized = TRUE]
  BY DEF Deserialize
<1>2. DOMAIN entityclassmap' = DOMAIN entityclassmap
  BY <1>1
<1>3. ASSUME NEW n \in DOMAIN entityclassmap, n # Current
      PROVE  entityclassmap'[n] = entityclassmap[n]
  BY <1>1, <1>3
<1>4. /\ entityclassmap'[Current].deserialized
      /\ entityclassmap'[Current].parent = entityclassmap[Current].parent
      /\ entityclassmap'[Current].typehash = entityclassmap[Current].typehash
  <2>1. entityclassmap[Current] \in EntityOf
    BY DEF MapInv, FromWinner
  <2>2. entityclassmap'[Current] = [entityclassmap[Current] EXCEPT !.deserialized = TRUE]
    BY <1>1
  <2> QED BY <2>1, <2>2 DEF EntityOf
<1>5. Current \notin Marked
  BY DEF Deserialize, Turn, Marked
<1>6. Marked' = Marked \cup {Current}
  BY <1>2, <1>3, <1>4 DEF Marked
<1> QED BY <1>2, <1>3, <1>4, <1>5, <1>6

LEMMA DeserializeLoops ==
  ASSUME ReadInv, MapInv, LoopInv, Deserialize
  PROVE  LoopInv'
<1>1. pc = "deserialize" /\ k <= Len(order)
  BY DEF Deserialize, Visiting
<1>2. /\ Current \in DOMAIN entityclassmap /\ Current \in Entities
      /\ k + 1 \in 1 .. Len(order) + 1
  BY <1>1, CurrentIsNamed DEF Current
<1>3. totaldeserialized' = Cardinality(Marked)'
  <2>1. IsFiniteSet(Marked) /\ Cardinality(Marked) \in Nat
    BY MarkedFinite, FS_CardinalityType
  <2>2. Cardinality(Marked \cup {Current}) = Cardinality(Marked) + 1
    BY <2>1, <1>2, DeserializeMarks, FS_AddElement
  <2> QED BY <2>2, <1>2, DeserializeMarks DEF LoopInv, Deserialize
<1>4. DOMAIN typeinfoHistory' \subseteq Properties \X Entities
  BY <1>2, RememberedDomain DEF LoopInv, Deserialize
<1>5. Orders(Names)' = Orders(Names)
  BY NamesSame DEF Orders, Deserialize
<1> QED BY <1>1, <1>2, <1>3, <1>4, <1>5 DEF LoopInv, Deserialize

LEMMA LoopStep == ReadInv /\ MapInv /\ LoopInv /\ [DeserializerNext]_allVars => LoopInv'
<1> SUFFICES ASSUME ReadInv, MapInv, LoopInv, [DeserializerNext]_allVars PROVE LoopInv'
  OBVIOUS
<1>1. /\ listing \in Installations /\ order \in Seq(Entities) /\ Len(order) \in Nat
      /\ k \in 1 .. Len(order) + 1 /\ 1 \in 1 .. Len(order) + 1
  BY DEF ReadInv, ExtractorTypeOK, LoopInv
<1>2. ASSUME UNCHANGED entityclassmap PROVE Marked' = Marked
  BY <1>2 DEF Marked
<1>3. CASE Extract
  <2>1. UNCHANGED <<entityclassmap, totaldeserialized, typeinfoHistory, runs, order, k, pc>>
    BY <1>3 DEF Extract, deserializerVars
  <2>2. listing' = listing /\ pc = "extract"
    BY <1>3 DEF Extract, ExtractEntry
  <2> QED BY <2>1, <2>2, <1>1, <1>2, LoopKeeps
<1>4. CASE EndExtraction
  BY <1>4, <1>1, <1>2, LoopKeeps DEF EndExtraction
<1>5. CASE ReadEntry
  <2>1. Marked' = Marked
    <3> DEFINE n == listing[at].name
               c == ClassDef(listing[at])
    <3>1. entityclassmap' = Emplace(entityclassmap, n, c) /\ ~c.deserialized
      BY <1>5 DEF ReadEntry, ClassDef
    <3>2. DOMAIN entityclassmap' = DOMAIN entityclassmap \cup {n}
      BY <3>1 DEF Emplace
    <3>3. \A m \in DOMAIN entityclassmap : entityclassmap'[m] = entityclassmap[m]
      BY <3>1 DEF Emplace
    <3>4. n \notin DOMAIN entityclassmap => entityclassmap'[n] = c
      BY <3>1 DEF Emplace
    <3> QED BY <3>1, <3>2, <3>3, <3>4 DEF Marked
  <2> QED BY <2>1, <1>5, <1>1, LoopKeeps DEF ReadEntry
<1>6. CASE StartResolving
  <2>1. order' \in Orders(Names)
    <3>1. at = Len(listing) + 1
      BY <1>6, <1>1, ListingFacts DEF StartResolving, Extracted, ReadInv, ExtractorTypeOK
    <3>2. DOMAIN entityclassmap = Names
      BY <1>6, <3>1, <1>1, NamesBeforeEnds DEF MapInv, StartResolving
    <3> QED BY <3>2, <1>6 DEF StartResolving
  <2>2. order' \in Seq(Entities) /\ Len(order') \in Nat
    BY <2>1, <1>1, OrderFacts
  <2>3. Orders(Names)' = Orders(Names) /\ Marked' = Marked
    BY <1>6, <1>2, NamesSame DEF Orders, StartResolving, extractorVars
  <2>4. k' \in 1 .. Len(order') + 1
    BY <2>2, <1>6 DEF StartResolving
  <2> QED BY <2>1, <2>2, <2>3, <2>4, <1>6 DEF LoopInv, StartResolving
<1>7. CASE Resolve
  BY <1>7, ResolveLoops
<1>8. CASE StartDeserializing
  BY <1>8, <1>1, <1>2, LoopKeeps DEF StartDeserializing, extractorVars
<1>9. CASE Skip
  <2>1. k + 1 \in 1 .. Len(order) + 1
    BY <1>9, CurrentIsNamed DEF Skip, Visiting
  <2> QED BY <2>1, <1>9, <1>2, LoopKeeps DEF Skip, Visiting, extractorVars
<1>10. CASE Deserialize
  BY <1>10, DeserializeLoops
<1>11. CASE Abort \/ Lost
  BY <1>11, <1>1, <1>2, LoopKeeps DEF Abort, Lost, Visiting, extractorVars
<1>12. CASE EndPass
  BY <1>12, <1>1, <1>2, LoopKeeps DEF EndPass, extractorVars
<1>13. CASE RunAgain
  <2>1. Marked' = {}
    BY <1>13 DEF RunAgain, Empty, Marked
  <2>2. totaldeserialized' = Cardinality(Marked)'
    BY <2>1, <1>13, FS_EmptySet DEF RunAgain
  <2>3. order' \in Seq(Entities) /\ k' \in 1 .. Len(order') + 1
    BY <1>13 DEF RunAgain
  <2>4. runs' \in 1 .. MaxRuns
    BY <1>13, DeserializerAssumption DEF RunAgain, LoopInv
  <2>5. DOMAIN typeinfoHistory' = {} /\ pc' = "init"
    BY <1>13 DEF RunAgain, Empty
  <2> QED BY <2>2, <2>3, <2>4, <2>5 DEF LoopInv
<1>14. CASE UNCHANGED allVars
  <2>1. UNCHANGED <<entityclassmap, totaldeserialized, typeinfoHistory, runs, order, k, pc, listing>>
    BY <1>14 DEF allVars, extractorVars, deserializerVars
  <2>2. Orders(Names)' = Orders(Names)
    BY <2>1, NamesSame DEF Orders
  <2> QED BY <2>1, <2>2, <1>2 DEF LoopInv
<1> QED
  BY <1>3, <1>4, <1>5, <1>6, <1>7, <1>8, <1>9, <1>10, <1>11, <1>12, <1>13, <1>14
     DEF DeserializerNext, Run

-----------------------------------------------------------------------------
(* The extractor and DeserialInit have decided on the same entries, and    *)
(* the loops' order and counter fit the map, in every reachable state.     *)
DriverInv == ReadInv /\ MapInv /\ LoopInv

THEOREM DriverInvariant == DeserializerSpec => []DriverInv
<1>1. DeserializerInit => DriverInv
  BY ReadInit, MapInit, LoopInit DEF DriverInv
<1>2. DriverInv /\ [DeserializerNext]_allVars => DriverInv'
  BY ReadStep, MapStep, LoopStep DEF DriverInv
<1> QED BY <1>1, <1>2, PTL DEF DeserializerSpec

(* Every variable has its type, and the counter of the entities that are   *)
(* deserialized is their number, however often the deserializer is run.    *)
THEOREM DeserializerTypes == DeserializerSpec => []TypeOK
<1>1. DriverInv => TypeOK
  <2> SUFFICES ASSUME DriverInv PROVE TypeOK
    OBVIOUS
  <2> USE DEF DriverInv
  <2>1. listing \in Installations
    BY DEF ReadInv, ExtractorTypeOK
  <2>2. DOMAIN entityclassmap \subseteq Entities
    <3>1. NamesBefore(at) \subseteq Names
      BY <2>1, ListingFacts DEF NamesBefore, Names, ReadInv, ExtractorTypeOK
    <3> QED BY <3>1, <2>1, ListingFacts DEF MapInv
  <2>3. \A n \in DOMAIN entityclassmap : entityclassmap[n] \in EntityOf
    BY DEF MapInv, FromWinner
  <2>4. totaldeserialized
         = Cardinality({n \in DOMAIN entityclassmap : entityclassmap[n].deserialized})
    BY DEF LoopInv, Marked
  <2> QED BY <2>2, <2>3, <2>4 DEF TypeOK, ReadInv, LoopInv, EntityOf
<1> QED BY <1>1, DriverInvariant, PTL

(* Each extracted file is the version of the highest priority: that is     *)
(* never undone, by no run of the deserializer either.                     *)
THEOREM ExtractsHighestPriority == DeserializerSpec => []HighestPriority
<1>1. DriverInv => HighestPriority
  BY DEF DriverInv, ReadInv
<1> QED BY <1>1, DriverInvariant, PTL

(* entityclassmap gives an entity the parent its file does, and the class  *)
(* where the file says one, although the map is built from the archives    *)
(* and the files were extracted before, with a library of their own.       *)
THEOREM MapMatches == DeserializerSpec => []MapMatchesFiles
<1>1. DriverInv => MapMatchesFiles
  <2> SUFFICES ASSUME DriverInv, NEW n \in DOMAIN entityclassmap, files[n] # NoFile,
                      Reads(Winner(n))
               PROVE  Agrees(n)
    BY DEF MapMatchesFiles
  <2>1. n \in Entities
    <3>1. listing \in Installations
      BY DEF DriverInv, ReadInv, ExtractorTypeOK
    <3>2. NamesBefore(at) \subseteq Names
      BY <3>1, ListingFacts DEF NamesBefore, Names, DriverInv, ReadInv, ExtractorTypeOK
    <3> QED BY <3>1, <3>2, ListingFacts DEF DriverInv, MapInv
  <2>2. files[n] = Winner(n).def
    BY <2>1 DEF DriverInv, ReadInv, HighestPriority
  <2>3. /\ entityclassmap[n].parent = ClassDef(Winner(n)).parent
        /\ ClassDef(Winner(n)).typehash # NoClass =>
             entityclassmap[n].typehash = ClassDef(Winner(n)).typehash
    BY DEF DriverInv, MapInv, FromWinner
  <2>4. ClassDef(Winner(n)).parent = files[n].parent /\ ClassDef(Winner(n)).typehash = files[n].class
    BY <2>2 DEF ClassDef
  <2> QED BY <2>3, <2>4 DEF Agrees
<1> QED BY <1>1, DriverInvariant, PTL

-----------------------------------------------------------------------------
(* The installation's lines of parents.                                    *)
ParentOf(n) == DefOfName(n).parent

LEMMA ParentType ==
  ASSUME listing \in Installations, NEW n \in Names
  PROVE  ParentOf(n) \in Entities \cup {NoParent} /\ NoParent \notin Entities
<1>1. DefOfName(n) \in DefOf
  BY WinnerType
<1> QED BY <1>1, DeserializerAssumption DEF DefOf, ParentOf

LEMMA AncestorsType == ASSUME NEW n PROVE Ancestors(n) \subseteq Entities
BY DEF Ancestors

LEMMA AncestorsHaveParents ==
  ASSUME listing \in Installations, NEW n \in Names
  PROVE  HasParents(Ancestors(n), n)
<1>1. SUFFICES ASSUME NEW m \in (Ancestors(n) \cap Names) \cup {n}, ParentOf(m) # NoParent
               PROVE  ParentOf(m) \in Ancestors(n)
  BY DEF HasParents, ParentOf
<1>2. ParentOf(m) \in Entities
  BY <1>1, ParentType
<1>3. ASSUME NEW S \in SUBSET Entities, HasParents(S, n) PROVE ParentOf(m) \in S
  <2>1. m \in (S \cap Names) \cup {n}
    BY <1>1, <1>3 DEF Ancestors
  <2> QED BY <2>1, <1>1, <1>3 DEF HasParents, ParentOf
<1> QED BY <1>2, <1>3 DEF Ancestors

LEMMA AncestorsLeast ==
  ASSUME NEW n, NEW S \in SUBSET Entities, HasParents(S, n)
  PROVE  Ancestors(n) \subseteq S
BY DEF Ancestors

LEMMA NoAncestors ==
  ASSUME NEW n, ParentOf(n) = NoParent
  PROVE  Ancestors(n) = {}
<1>1. HasParents({}, n)
  BY DEF HasParents, ParentOf
<1> QED BY <1>1, AncestorsLeast

LEMMA AncestorsAbove ==
  ASSUME listing \in Installations, NEW n \in Names, NEW a \in Ancestors(n) \cap Names
  PROVE  Ancestors(a) \subseteq Ancestors(n)
<1>1. HasParents(Ancestors(n), n)
  BY AncestorsHaveParents
<1>2. HasParents(Ancestors(n), a)
  BY <1>1 DEF HasParents
<1> QED BY <1>2, AncestorsLeast, AncestorsType

(* The ancestors are the parent and its ancestors.                         *)
LEMMA AncestorsStep ==
  ASSUME listing \in Installations, NEW n \in Names, ParentOf(n) \in Names
  PROVE  Ancestors(n) = {ParentOf(n)} \cup Ancestors(ParentOf(n))
<1> DEFINE p == ParentOf(n)
           S == {p} \cup Ancestors(p)
<1>1. p \in Entities /\ p # NoParent
  BY ListingFacts, ParentType
<1>2. HasParents(S, n)
  <2>1. HasParents(Ancestors(p), p)
    BY AncestorsHaveParents
  <2>2. ASSUME NEW m \in (S \cap Names) \cup {n} PROVE ParentOf(m) \in S \cup {NoParent}
    <3>1. CASE m = n
      BY <3>1
    <3>2. CASE m \in S \cap Names
      <4>1. m \in (Ancestors(p) \cap Names) \cup {p}
        BY <3>2
      <4> QED BY <4>1, <2>1 DEF HasParents, ParentOf
    <3> QED BY <3>1, <3>2
  <2> QED BY <2>2 DEF HasParents, ParentOf
<1>3. S \subseteq Entities
  BY <1>1, AncestorsType
<1>4. Ancestors(n) \subseteq S
  <2> HIDE DEF S
  <2> QED BY <1>2, <1>3, AncestorsLeast
<1>5. p \in Ancestors(n)
  BY <1>1, AncestorsHaveParents DEF HasParents, ParentOf
<1>6. Ancestors(p) \subseteq Ancestors(n)
  BY <1>5, AncestorsAbove
<1> QED BY <1>4, <1>5, <1>6

(* The nearest of a set is the parent, or else it is the parent's.         *)
LEMMA NearestStep ==
  ASSUME listing \in Installations, WellFormed, NEW n \in Names, NEW S,
         Ancestors(n) \cap S # {}
  PROVE  /\ ParentOf(n) \in Names
         /\ Ancestors(n) = {ParentOf(n)} \cup Ancestors(ParentOf(n))
         /\ ParentOf(n) \in S => Nearest(n, S) = ParentOf(n)
         /\ ParentOf(n) \notin S => /\ Ancestors(ParentOf(n)) \cap S # {}
                                    /\ Nearest(n, S) = Nearest(ParentOf(n), S)
<1> DEFINE p == ParentOf(n)
<1>1. Ancestors(n) \subseteq Names
  BY DEF WellFormed
<1>2. p \in Names
  <2>1. p # NoParent
    BY NoAncestors
  <2>2. p \in Ancestors(n)
    BY <2>1, AncestorsHaveParents DEF HasParents, ParentOf
  <2> QED BY <2>2, <1>1
<1>3. Ancestors(n) = {p} \cup Ancestors(p)
  BY <1>2, AncestorsStep
<1>4. CASE p \in S
  <2> DEFINE Q(a) == \A b \in (Ancestors(n) \cap S) \ {a} : b \in Ancestors(a)
  <2>1. p \in Ancestors(n) \cap S /\ Q(p)
    BY <1>3, <1>4
  <2>2. ASSUME NEW a \in Ancestors(n) \cap S, Q(a), a # p PROVE FALSE
    <3>1. p \in Ancestors(a)
      BY <2>1, <2>2
    <3>2. a \in Ancestors(p) \cap Names
      BY <1>1, <1>3, <2>2
    <3>3. p \in Ancestors(p)
      BY <3>1, <3>2, <1>2, AncestorsAbove
    <3> QED BY <3>3, <1>2 DEF WellFormed
  <2>3. (CHOOSE a \in Ancestors(n) \cap S : Q(a)) = p
    <3> HIDE DEF Q
    <3> QED BY <2>1, <2>2
  <2> QED BY <2>3, <1>2, <1>3, <1>4 DEF Nearest
<1>5. CASE p \notin S
  <2>1. Ancestors(n) \cap S = Ancestors(p) \cap S
    BY <1>3, <1>5
  <2>2. Nearest(n, S) = Nearest(p, S)
    BY <2>1 DEF Nearest
  <2> QED BY <2>1, <2>2, <1>2, <1>3, <1>5
<1> QED BY <1>4, <1>5

(* Fewer and fewer ancestors: every line of parents ends.                  *)
LEMMA FewerAncestors ==
  ASSUME listing \in Installations, WellFormed, NEW n \in Names, ParentOf(n) \in Names
  PROVE  /\ Cardinality(Ancestors(n)) \in Nat /\ Cardinality(Ancestors(ParentOf(n))) \in Nat
         /\ Cardinality(Ancestors(n)) = Cardinality(Ancestors(ParentOf(n))) + 1
<1> DEFINE p == ParentOf(n)
<1>1. Ancestors(n) = {p} \cup Ancestors(p)
  BY AncestorsStep
<1>2. p \notin Ancestors(p)
  BY DEF WellFormed
<1>3. IsFiniteSet(Ancestors(n)) /\ IsFiniteSet(Ancestors(p))
  BY AncestorsType, ExtractorAssumption, FS_Subset
<1>4. Cardinality(Ancestors(p) \cup {p}) = Cardinality(Ancestors(p)) + 1
  BY <1>2, <1>3, FS_AddElement
<1>5. Ancestors(n) = Ancestors(p) \cup {p}
  BY <1>1
<1> QED BY <1>3, <1>4, <1>5, FS_CardinalityType

-----------------------------------------------------------------------------
(* A search goes along the line of parents.                                *)
MapIsRead ==
  /\ listing \in Installations /\ WellFormed
  /\ DOMAIN entityclassmap = Names
  /\ \A n \in Names : entityclassmap[n].parent = ParentOf(n)

MaxLine == Cardinality(Entities)

LEMMA LineFacts ==
  ASSUME MapIsRead, NEW e \in Names
  PROVE  /\ MaxLine \in Nat
         /\ Line(e)[0] = e
         /\ \A d \in 1 .. MaxLine :
              Line(e)[d - 1] \in Names => Line(e)[d] = ParentOf(Line(e)[d - 1])
<1> DEFINE X == Entities \cup {NoParent}
           Up(a) == IF a \in DOMAIN entityclassmap THEN entityclassmap[a].parent ELSE NoParent
           n == MaxLine
           Def(f) == [d \in 0 .. n |-> IF d = 0 THEN e ELSE Up(f[d - 1])]
           step_ == [d \in 1 .. n |-> [a \in X |-> Up(a)]]
           c == CHOOSE g : g = Def(g)
<1>1. n \in Nat /\ e \in X
  BY ExtractorAssumption, FS_CardinalityType, ListingFacts DEF MapIsRead, MaxLine
<1>2. ASSUME NEW a \in X PROVE Up(a) \in X
  BY ParentType DEF MapIsRead
<1>3. PICK f \in [0 .. n -> X] : Follows(f, e, step_, n)
  <2>1. \A d \in 1 .. n : \A a \in X : step_[d][a] \in X
    BY <1>2
  <2> HIDE DEF step_, X, n
  <2> QED BY <1>1, <2>1, RecursiveFunction
<1>4. f[0] = e /\ \A d \in 1 .. n : f[d] = Up(f[d - 1])
  <2>1. \A d \in 1 .. n : \A a \in X : step_[d][a] = Up(a)
    OBVIOUS
  <2>2. \A d \in 1 .. n : f[d - 1] \in X
    <3> HIDE DEF X, n
    <3> QED BY <1>1
  <2> HIDE DEF step_, X, n, Up
  <2> QED BY <1>3, <2>1, <2>2 DEF Follows
<1>5. c = Def(c)
  <2> HIDE DEF X, n, Up
  <2>1. f = [d \in 0 .. n |-> f[d]]
    OBVIOUS
  <2>2. \A d \in 0 .. n : f[d] = IF d = 0 THEN e ELSE Up(f[d - 1])
    BY <1>4
  <2>3. f = Def(f)
    BY <2>1, <2>2
  <2> HIDE DEF Def
  <2> QED BY <2>3
<1>6. Line(e) = c
  BY DEF Line, MaxLine
<1>7. c[0] = e /\ \A d \in 1 .. n : c[d] = Up(c[d - 1])
  <2> HIDE DEF c, n, Up
  <2>1. c[0] = e
    BY <1>1, <1>5
  <2>2. ASSUME NEW d \in 1 .. n PROVE c[d] = Up(c[d - 1])
    BY <1>1, <1>5
  <2> QED BY <2>1, <2>2
<1>8. ASSUME NEW d \in 1 .. n, c[d - 1] \in Names PROVE c[d] = ParentOf(c[d - 1])
  <2> HIDE DEF c, n
  <2>1. Up(c[d - 1]) = ParentOf(c[d - 1])
    BY <1>8 DEF MapIsRead
  <2> QED BY <2>1, <1>7
<1> HIDE DEF c
<1> QED BY <1>1, <1>6, <1>7, <1>8

(* The search for a set that some ancestor is in: it ends at the i-th,     *)
(* and all before it are in the map and not in the set.                    *)
EndsAt(e, S, i) ==
  /\ i \in 1 .. MaxLine
  /\ Ancestor(e, S) = Line(e)[i] /\ Line(e)[i] \in S \cap Names
  /\ \A j \in 0 .. i - 1 :
       /\ Line(e)[j] \in Names /\ Line(e)[j + 1] = ParentOf(Line(e)[j])
       /\ Ancestors(Line(e)[j]) \cap S # {}
       /\ j + 1 < i => Line(e)[j + 1] \notin S

LEMMA SearchGoesOn ==
  ASSUME MapIsRead, NEW e \in Names, NEW S, NEW j \in 0 .. MaxLine - 1,
         Line(e)[j] \in Names, Ancestors(Line(e)[j]) \cap S # {}, j + 1 \notin Ends(e, S)
  PROVE  /\ Line(e)[j + 1] \in Names \ S
         /\ Line(e)[j + 1] = ParentOf(Line(e)[j])
         /\ Ancestors(Line(e)[j + 1]) \cap S # {}
<1>1. MaxLine \in Nat /\ Line(e)[j + 1] = ParentOf(Line(e)[j])
  <2>1. MaxLine \in Nat
    BY LineFacts
  <2>2. j + 1 \in 1 .. MaxLine /\ (j + 1) - 1 = j
    BY <2>1
  <2> QED BY <2>1, <2>2, LineFacts
<1>2. j + 1 \in 1 .. MaxLine
  BY <1>1
<1>3. Line(e)[j + 1] \notin S
  BY <1>2 DEF Ends, MaxLine
<1> QED BY <1>1, <1>3, NearestStep DEF MapIsRead

LEMMA SearchEnds ==
  ASSUME MapIsRead, NEW e \in Names, NEW S, Ancestors(e) \cap S # {}
  PROVE  Finds(e, S) /\ \E i \in 1 .. MaxLine : EndsAt(e, S, i)
<1> DEFINE L(j) == Line(e)[j]
           A(j) == Cardinality(Ancestors(L(j)))
<1>1. MaxLine \in Nat /\ L(0) = e
  BY LineFacts
<1>2. Ends(e, S) # {}
  <2>1. SUFFICES ASSUME Ends(e, S) = {} PROVE FALSE
    OBVIOUS
  <2> DEFINE T == {j \in 0 .. MaxLine : L(j) \in Names /\ Ancestors(L(j)) \cap S # {}
                                        /\ A(j) + j = Cardinality(Ancestors(e))}
  <2>2. 0 \in T
    <3>1. Cardinality(Ancestors(e)) \in Nat
      BY AncestorsType, ExtractorAssumption, FS_Subset, FS_CardinalityType
    <3> QED BY <1>1, <3>1
  <2>3. ASSUME NEW j \in 0 .. MaxLine - 1, j \in T PROVE j + 1 \in T
    <3>1. L(j) \in Names /\ Ancestors(L(j)) \cap S # {}
      BY <2>3
    <3>2. /\ L(j + 1) \in Names /\ L(j + 1) = ParentOf(L(j))
          /\ Ancestors(L(j + 1)) \cap S # {}
      BY <2>1, <3>1, SearchGoesOn
    <3>3. A(j) = A(j + 1) + 1 /\ A(j) \in Nat /\ A(j + 1) \in Nat
      BY <3>1, <3>2, FewerAncestors DEF MapIsRead
    <3>4. A(j) + j = Cardinality(Ancestors(e))
      BY <2>3
    <3>5. A(j + 1) + (j + 1) = Cardinality(Ancestors(e)) /\ j + 1 \in 0 .. MaxLine
      <4> HIDE DEF A
      <4> QED BY <1>1, <3>3, <3>4
    <3> QED BY <3>2, <3>5
  <2>4. MaxLine \in T
    <3> HIDE DEF T
    <3>1. 0 .. MaxLine \subseteq T
      BY <1>1, <2>2, <2>3, IntervalInduction
    <3> QED BY <1>1, <3>1
  <2>5. A(MaxLine) + MaxLine = Cardinality(Ancestors(e)) /\ A(MaxLine) \in Nat
    BY <2>4, AncestorsType, ExtractorAssumption, FS_Subset, FS_CardinalityType
  <2>6. Cardinality(Ancestors(e)) < MaxLine
    <3>1. e \in Entities /\ e \notin Ancestors(e)
      BY ListingFacts DEF MapIsRead, WellFormed
    <3>2. Cardinality(Entities \ {e}) = MaxLine - 1 /\ IsFiniteSet(Entities \ {e})
      BY <3>1, ExtractorAssumption, FS_RemoveElement DEF MaxLine
    <3>3. Ancestors(e) \subseteq Entities \ {e}
      BY <3>1, AncestorsType
    <3>4. Cardinality(Ancestors(e)) <= MaxLine - 1 /\ Cardinality(Ancestors(e)) \in Nat
      BY <3>2, <3>3, FS_Subset, FS_CardinalityType
    <3> QED BY <3>4, <1>1
  <2> HIDE DEF A
  <2> QED BY <2>5, <2>6, <1>1
<1>3. PICK i \in Ends(e, S) : \A m \in Ends(e, S) : i <= m
  <2>1. Ends(e, S) \subseteq Nat
    BY <1>1 DEF Ends, MaxLine
  <2> QED BY <1>2, <2>1, LeastNat
<1>4. i \in 1 .. MaxLine /\ Ends(e, S) \subseteq 1 .. MaxLine
  BY <1>3 DEF Ends, MaxLine
<1>5. Ancestor(e, S) = L(i)
  <2>1. \A m \in Ends(e, S) : (\A l \in Ends(e, S) : m <= l) => m = i
    <3>1. ASSUME NEW m \in Ends(e, S), \A l \in Ends(e, S) : m <= l PROVE m = i
      <4>1. m <= i /\ i <= m /\ m \in Nat /\ i \in Nat
        BY <1>1, <1>3, <1>4, <3>1
      <4> QED BY <4>1
    <3> QED BY <3>1
  <2>2. (CHOOSE m \in Ends(e, S) : \A l \in Ends(e, S) : m <= l) = i
    BY <1>3, <2>1
  <2> QED BY <2>2 DEF Ancestor
<1> DEFINE U == {j \in 0 .. i - 1 : L(j) \in Names /\ Ancestors(L(j)) \cap S # {}}
<1>6. 0 .. i - 1 \subseteq U
  <2>1. 0 \in U
    BY <1>1, <1>4
  <2>2. ASSUME NEW j \in 0 .. (i - 1) - 1, j \in U PROVE j + 1 \in U
    <3>1. L(j) \in Names /\ Ancestors(L(j)) \cap S # {}
      BY <2>2
    <3>2. j \in 0 .. MaxLine - 1 /\ j + 1 \in 0 .. i - 1 /\ ~(i <= j + 1)
      BY <1>1, <1>4
    <3>3. j + 1 \notin Ends(e, S)
      BY <1>3, <3>2
    <3>4. L(j + 1) \in Names /\ Ancestors(L(j + 1)) \cap S # {}
      BY <3>1, <3>2, <3>3, SearchGoesOn
    <3> QED BY <3>2, <3>4
  <2>3. i - 1 \in Nat
    BY <1>1, <1>4
  <2> HIDE DEF U
  <2> QED BY <2>1, <2>2, <2>3, IntervalInduction
<1>7. ASSUME NEW j \in 0 .. i - 1
      PROVE  /\ L(j) \in Names /\ L(j + 1) = ParentOf(L(j)) /\ Ancestors(L(j)) \cap S # {}
             /\ j + 1 < i => L(j + 1) \notin S
             /\ L(j + 1) \in Names
  <2>1. L(j) \in Names /\ Ancestors(L(j)) \cap S # {}
    BY <1>6
  <2>2. j + 1 \in 1 .. MaxLine /\ (j + 1) - 1 = j
    BY <1>1, <1>4
  <2>3. L(j + 1) = ParentOf(L(j))
    BY <2>1, <2>2, LineFacts
  <2>4. L(j + 1) \in Names
    BY <2>1, <2>3, NearestStep DEF MapIsRead
  <2>5. ASSUME j + 1 < i PROVE L(j + 1) \notin S
    <3>1. ~(i <= j + 1)
      BY <2>5, <1>1, <1>4
    <3>2. j + 1 \notin Ends(e, S)
      BY <3>1, <1>3
    <3> QED BY <3>2, <2>2 DEF Ends, MaxLine
  <2> QED BY <2>1, <2>3, <2>4, <2>5
<1>8. L(i) \in S \cap Names
  <2>1. i - 1 \in 0 .. i - 1 /\ (i - 1) + 1 = i
    BY <1>1, <1>4
  <2>2. L(i) \in Names
    BY <2>1, <1>7
  <2>3. L(i) \in S \/ Unknown(L(i))
    BY <1>3 DEF Ends
  <2> QED BY <2>2, <2>3 DEF Unknown, MapIsRead
<1>9. EndsAt(e, S, i)
  BY <1>4, <1>5, <1>7, <1>8 DEF EndsAt
<1> QED BY <1>2, <1>4, <1>9 DEF Finds

(* What the search finds is the nearest ancestor of the set.               *)
LEMMA AncestorIsNearest ==
  ASSUME MapIsRead, NEW e \in Names, NEW S, Ancestors(e) \cap S # {}
  PROVE  Finds(e, S) /\ Ancestor(e, S) = Nearest(e, S) /\ Ancestor(e, S) \in S \cap Names
<1> DEFINE L(j) == Line(e)[j]
<1>1. MaxLine \in Nat /\ L(0) = e
  BY LineFacts
<1>2. PICK i \in 1 .. MaxLine : EndsAt(e, S, i)
  BY SearchEnds
<1> DEFINE U == {j \in 0 .. i - 1 : Nearest(L(j), S) = Nearest(e, S)}
<1>3. ASSUME NEW j \in 0 .. i - 1
      PROVE  L(j) \in Names /\ L(j + 1) = ParentOf(L(j)) /\ Ancestors(L(j)) \cap S # {}
  BY <1>2 DEF EndsAt
<1>4. 0 .. i - 1 \subseteq U
  <2>1. 0 \in U /\ i - 1 \in Nat
    BY <1>1
  <2>2. ASSUME NEW j \in 0 .. (i - 1) - 1, j \in U PROVE j + 1 \in U
    <3>1. j \in 0 .. i - 1 /\ j + 1 \in 0 .. i - 1 /\ j + 1 < i
      BY <1>1
    <3>2. L(j + 1) \notin S
      BY <1>2, <3>1 DEF EndsAt
    <3>3. Nearest(L(j), S) = Nearest(L(j + 1), S)
      BY <3>1, <3>2, <1>3, NearestStep DEF MapIsRead
    <3> QED BY <2>2, <3>1, <3>3
  <2> HIDE DEF U
  <2> QED BY <2>1, <2>2, IntervalInduction
<1>5. i - 1 \in 0 .. i - 1 /\ (i - 1) + 1 = i
  BY <1>1
<1>6. Nearest(L(i - 1), S) = Nearest(e, S)
  BY <1>4, <1>5
<1>7. L(i) = ParentOf(L(i - 1)) /\ L(i) \in S \cap Names /\ Ancestor(e, S) = L(i)
  BY <1>2, <1>3, <1>5 DEF EndsAt
<1>8. Nearest(L(i - 1), S) = L(i)
  BY <1>7, <1>3, <1>5, NearestStep DEF MapIsRead
<1> QED BY <1>6, <1>7, <1>8, SearchEnds

(* An entity without a class has the type of its parent.                   *)
LEMMA TypeStep ==
  ASSUME listing \in Installations, WellFormed, NEW n \in Names \ SayingClass
  PROVE  /\ ParentOf(n) \in Names
         /\ TypeOfName(n) = TypeOfName(ParentOf(n))
<1>1. Ancestors(n) \cap SayingClass # {}
  BY DEF WellFormed
<1>2. /\ ParentOf(n) \in Names
      /\ ParentOf(n) \in SayingClass => Nearest(n, SayingClass) = ParentOf(n)
      /\ ParentOf(n) \notin SayingClass =>
           Nearest(n, SayingClass) = Nearest(ParentOf(n), SayingClass)
  BY <1>1, NearestStep
<1> QED BY <1>2 DEF TypeOfName

(* A search for a type finds one of the right type, whoever has been given *)
(* one by then.                                                            *)
LEMMA AncestorHasType ==
  ASSUME MapIsRead, NEW e \in Names \ SayingClass, NEW S, SayingClass \subseteq S
  PROVE  /\ Finds(e, S) /\ Ancestor(e, S) \in S \cap Names
         /\ TypeOfName(Ancestor(e, S)) = TypeOfName(e)
<1> DEFINE L(j) == Line(e)[j]
<1>1. MaxLine \in Nat /\ L(0) = e
  BY LineFacts
<1>2. Ancestors(e) \cap S # {}
  BY DEF MapIsRead, WellFormed
<1>3. PICK i \in 1 .. MaxLine : EndsAt(e, S, i)
  BY <1>2, SearchEnds
<1> DEFINE U == {j \in 0 .. i - 1 : L(j) \notin SayingClass /\ TypeOfName(L(j)) = TypeOfName(e)}
<1>4. ASSUME NEW j \in 0 .. i - 1 PROVE L(j) \in Names /\ L(j + 1) = ParentOf(L(j))
  BY <1>3 DEF EndsAt
<1>5. 0 .. i - 1 \subseteq U
  <2>1. 0 \in U /\ i - 1 \in Nat
    BY <1>1
  <2>2. ASSUME NEW j \in 0 .. (i - 1) - 1, j \in U PROVE j + 1 \in U
    <3>1. j \in 0 .. i - 1 /\ j + 1 \in 0 .. i - 1 /\ j + 1 < i
      BY <1>1
    <3>2. L(j + 1) \notin SayingClass
      BY <1>3, <3>1 DEF EndsAt
    <3>3. TypeOfName(L(j)) = TypeOfName(L(j + 1))
      BY <2>2, <3>1, <1>4, TypeStep DEF MapIsRead
    <3> QED BY <2>2, <3>1, <3>2, <3>3
  <2> HIDE DEF U
  <2> QED BY <2>1, <2>2, IntervalInduction
<1>6. i - 1 \in 0 .. i - 1 /\ (i - 1) + 1 = i
  BY <1>1
<1>7. L(i) = ParentOf(L(i - 1)) /\ L(i) \in S \cap Names /\ Ancestor(e, S) = L(i)
  BY <1>3, <1>4, <1>6 DEF EndsAt
<1>8. L(i - 1) \notin SayingClass /\ TypeOfName(L(i - 1)) = TypeOfName(e)
  BY <1>5, <1>6
<1>9. TypeOfName(L(i)) = TypeOfName(L(i - 1))
  BY <1>4, <1>6, <1>7, <1>8, TypeStep DEF MapIsRead
<1> QED BY <1>2, <1>7, <1>8, <1>9, SearchEnds

-----------------------------------------------------------------------------
(* With a well-formed installation.  Who has a type has the right one, and *)
(* the loop of step 2 leaves nobody behind without.                        *)
TypedInv ==
  /\ \A n \in Typed : entityclassmap[n].typehash = TypeOfName(n)
  /\ pc = "resolve" => \A j \in 1 .. k - 1 : order[j] \in Typed
  /\ pc \in {"deserialize", "done", "aborted"} => Names \subseteq Typed

(* Parents come before children; the history is exactly what the marked    *)
(* ones say; and the first run has not taken the file of anybody else.     *)
HistoryInv ==
  /\ \A n \in Marked : ParentOf(n) \in Names => ParentOf(n) \in Marked
  /\ \A p \in Properties, a \in Entities :
       <<p, a>> \in DOMAIN typeinfoHistory <=> a \in Marked \cap SayingProperty(p)
  /\ \A p \in Properties, a \in Entities :
       a \in Marked \cap SayingProperty(p) =>
         typeinfoHistory[<<p, a>>] = DefOfName(a).properties[p]
  /\ runs = 1 => \A n \in extractedfiles : files[n] = NoFile => n \in Marked

NotLost == pc \notin {"undefined", "endless"} /\ (runs = 1 => pc # "aborted")

WellInv ==
  /\ DOMAIN decls = Entities /\ DeclsInherit
  /\ WellFormed => TypedInv /\ HistoryInv /\ NotLost

LEMMA WinnerReadable ==
  ASSUME listing \in Installations, WellFormed, NEW n \in Names
  PROVE  /\ ClassDef(Winner(n)).parent = ParentOf(n)
         /\ ClassDef(Winner(n)).typehash = DefOfName(n).class
         /\ ClassDef(Winner(n)).deserialized = FALSE
         /\ ParentOf(n) \in Names \cup {NoParent}
<1>1. Reads(Winner(n))
  BY DEF WellFormed
<1>2. ParentOf(n) \in Names \cup {NoParent}
  BY AncestorsHaveParents DEF WellFormed, HasParents, ParentOf
<1> QED BY <1>1, <1>2 DEF ClassDef, ParentOf, DefOfName

LEMMA MapReads ==
  ASSUME DriverInv, WellFormed, pc \notin {"extract", "init"}
  PROVE  MapIsRead /\ SayingClass \subseteq Typed
<1>1. listing \in Installations /\ DOMAIN entityclassmap = Names
  BY DEF DriverInv, ReadInv, ExtractorTypeOK, MapInv
<1>2. ASSUME NEW n \in Names
      PROVE  /\ entityclassmap[n].parent = ParentOf(n)
             /\ DefOfName(n).class # NoClass => entityclassmap[n].typehash # NoClass
  BY <1>1, WinnerReadable DEF DriverInv, MapInv, FromWinner
<1> QED BY <1>1, <1>2 DEF MapIsRead, SayingClass, Typed

LEMMA WellInit == DeserializerInit => WellInv
<1> SUFFICES ASSUME DeserializerInit PROVE WellInv
  OBVIOUS
<1> USE DEF DeserializerInit, ExtractorInit, Empty
<1>1. DOMAIN decls = Entities /\ DeclsInherit
  <2>1. \A n \in Names : decls[n] = NoDecl
    BY ListingFacts
  <2> QED BY <2>1 DEF DeclsInherit
<1>2. Typed = {} /\ Marked = {}
  BY DEF Typed, Marked
<1>3. TypedInv
  BY <1>2 DEF TypedInv
<1>4. HistoryInv
  BY <1>2 DEF HistoryInv
<1> QED BY <1>1, <1>3, <1>4 DEF WellInv, NotLost

(* Steps that leave the map, or the types in it, alone.                    *)
LEMMA TypedKeeps ==
  ASSUME TypedInv, listing' = listing, Typed' = Typed,
         \A n \in Typed : entityclassmap'[n].typehash = entityclassmap[n].typehash,
         pc' = "resolve" => \A j \in 1 .. k' - 1 : order'[j] \in Typed,
         pc' \in {"deserialize", "done", "aborted"} => Names \subseteq Typed
  PROVE  TypedInv'
<1>1. \A n \in Typed' : entityclassmap'[n].typehash = TypeOfName(n)'
  BY TypeSame DEF TypedInv
<1> QED BY <1>1, NamesSame DEF TypedInv

LEMMA ResolveTypes ==
  ASSUME DriverInv, WellFormed, TypedInv, NotLost, Resolve
  PROVE  TypedInv' /\ NotLost'
<1> DEFINE e == NextToResolve
           a == Ancestor(e, Typed)
<1>1. /\ pc = "resolve" /\ k <= Len(order) /\ k' = k + 1 /\ order' = order /\ runs' = runs
      /\ listing' = listing
  BY DEF Resolve, extractorVars
<1>2. e \in Names /\ Names = DOMAIN entityclassmap /\ k \in Nat
  BY <1>1, CurrentIsNamed DEF DriverInv, NextToResolve, LoopInv
<1>3. \A j \in 1 .. k' - 1 : j \in 1 .. k - 1 \/ order[j] = e
  BY <1>1, <1>2 DEF NextToResolve
<1>4. CASE IsTyped
  <2>1. UNCHANGED <<entityclassmap, pc>>
    BY <1>4 DEF Resolve
  <2>2. Typed' = Typed
    BY <2>1 DEF Typed
  <2>3. \A j \in 1 .. k' - 1 : order'[j] \in Typed
    BY <1>1, <1>3, <1>4 DEF IsTyped, TypedInv
  <2> QED BY <2>1, <2>2, <2>3, <1>1, TypedKeeps DEF NotLost
<1>5. CASE ~IsTyped
  <2>1. e \notin Typed /\ e \in Names \ SayingClass /\ MapIsRead /\ SayingClass \subseteq Typed
    BY <1>1, <1>2, <1>5, MapReads DEF IsTyped
  <2>2. Finds(e, Typed) /\ a \in Typed \cap Names /\ TypeOfName(a) = TypeOfName(e)
    <3>1. PICK S : S = Typed
      OBVIOUS
    <3> QED BY <2>1, <3>1, AncestorHasType
  <2>3. entityclassmap' = [entityclassmap EXCEPT ![e].typehash = InheritedType(e)] /\ pc' = pc
    BY <1>2, <1>5, <2>2 DEF Resolve, Unknown
  <2>4. InheritedType(e) = TypeOfName(e) /\ InheritedType(e) # NoClass
    BY <2>2 DEF InheritedType, TypedInv, Typed
  <2>5. entityclassmap[e] \in EntityOf
    BY <1>2 DEF DriverInv, MapInv, FromWinner
  <2>6. entityclassmap'[e].typehash = TypeOfName(e)
    <3>1. entityclassmap'[e] = [entityclassmap[e] EXCEPT !.typehash = InheritedType(e)]
      BY <1>2, <2>3
    <3> QED BY <3>1, <2>4, <2>5 DEF EntityOf
  <2>7. /\ DOMAIN entityclassmap' = DOMAIN entityclassmap
        /\ \A n \in DOMAIN entityclassmap : n # e => entityclassmap'[n] = entityclassmap[n]
    BY <2>3
  <2>8. Typed' = Typed \cup {e}
    BY <1>2, <2>4, <2>6, <2>7 DEF Typed
  <2>9. \A n \in Typed' : entityclassmap'[n].typehash = TypeOfName(n)'
    <3>1. ASSUME NEW n \in Typed' PROVE entityclassmap'[n].typehash = TypeOfName(n)
      <4>1. CASE n = e
        BY <4>1, <2>6
      <4>2. CASE n # e
        BY <4>2, <2>7, <2>8 DEF TypedInv, Typed
      <4> QED BY <4>1, <4>2
    <3> QED BY <3>1, <1>1, TypeSame
  <2>10. \A j \in 1 .. k' - 1 : order'[j] \in Typed'
    BY <1>1, <1>3, <2>8 DEF TypedInv
  <2> QED BY <1>1, <2>3, <2>9, <2>10 DEF TypedInv, NotLost
<1> QED BY <1>4, <1>5

(* All that its ancestors say is in the history when an entity is          *)
(* deserialized, and the nearest of them is found.                         *)
LEMMA AncestorsMarked ==
  ASSUME DriverInv, WellFormed, HistoryInv, pc = "deserialize",
         NEW e \in Names, ParentOf(e) \in Names => ParentOf(e) \in Marked
  PROVE  Ancestors(e) \subseteq Marked
<1>1. listing \in Installations /\ Marked \subseteq Names
  BY MarkedFinite DEF DriverInv, ReadInv, ExtractorTypeOK
<1>2. Marked \subseteq Entities
  BY <1>1, ListingFacts
<1>3. HasParents(Marked, e)
  <2>1. ASSUME NEW m \in (Marked \cap Names) \cup {e} PROVE ParentOf(m) \in Marked \cup {NoParent}
    BY <1>1, WinnerReadable DEF HistoryInv
  <2> QED BY <2>1 DEF HasParents, ParentOf
<1> QED BY <1>2, <1>3, AncestorsLeast

LEMMA HistoryFinds ==
  ASSUME DriverInv, WellFormed, HistoryInv, pc = "deserialize",
         NEW e \in Names, Ancestors(e) \subseteq Marked,
         NEW p \in Properties, DefOfName(e).properties[p] = NoClass
  PROVE  /\ Finds(e, Naming(p)) /\ History(e, p) \in Naming(p)
         /\ typeinfoHistory[<<p, History(e, p)>>] = PropertyOfName(e, p)
<1> DEFINE a == History(e, p)
<1>1. MapIsRead /\ listing \in Installations
  BY MapReads DEF MapIsRead
<1>2. Ancestors(e) \cap Naming(p) = Ancestors(e) \cap SayingProperty(p)
  BY AncestorsType DEF Naming, HistoryInv
<1>3. Ancestors(e) \cap SayingProperty(p) # {}
  BY DEF WellFormed
<1>4. Nearest(e, Naming(p)) = Nearest(e, SayingProperty(p))
  BY <1>2 DEF Nearest
<1>5. Finds(e, Naming(p)) /\ a = Nearest(e, Naming(p)) /\ a \in Naming(p)
  <2>1. PICK S : S = Naming(p)
    OBVIOUS
  <2>2. Finds(e, S) /\ Ancestor(e, S) = Nearest(e, S) /\ Ancestor(e, S) \in S
    BY <1>1, <1>2, <1>3, <2>1, AncestorIsNearest
  <2> QED BY <2>1, <2>2 DEF History
<1>6. PropertyOfName(e, p) = DefOfName(a).properties[p]
  BY <1>4, <1>5 DEF PropertyOfName
<1>7. a \in Entities /\ <<p, a>> \in DOMAIN typeinfoHistory
  BY <1>5 DEF Naming
<1>8. typeinfoHistory[<<p, a>>] = DefOfName(a).properties[p]
  BY <1>7 DEF HistoryInv
<1> QED BY <1>5, <1>6, <1>8

(* What a decl has to say.                                                 *)
RightDecl(n) ==
  [inherit |-> DefOfName(n).parent, entityType |-> TypeOfName(n),
   properties |-> [p \in Properties |-> PropertyOfName(n, p)]]

LEMMA RightDeclSame ==
  ASSUME listing' = listing, NEW n
  PROVE  RightDecl(n)' = RightDecl(n)
<1>1. DefOfName(n)' = DefOfName(n) /\ TypeOfName(n)' = TypeOfName(n)
  BY DefSame, TypeSame
<1>2. \A p : PropertyOfName(n, p)' = PropertyOfName(n, p)
  BY PropertySame
<1>3. [p \in Properties |-> PropertyOfName(n, p)]' = [p \in Properties |-> PropertyOfName(n, p)]
  BY <1>2
<1> QED BY <1>1, <1>3 DEF RightDecl

(* Whose turn it is can be deserialized, and its decl is the right one.    *)
LEMMA TurnIsRight ==
  ASSUME DriverInv, WellFormed, TypedInv, HistoryInv, Visiting, Turn(Current),
         files[Current] # NoFile
  PROVE  /\ Current \in Names /\ files[Current] = DefOfName(Current)
         /\ ParentOf(Current) \in Names => ParentOf(Current) \in Marked
         /\ HistoryKnows(Current) /\ Decl(Current) = RightDecl(Current)
<1> DEFINE e == Current
<1>1. pc = "deserialize" /\ k <= Len(order)
  BY DEF Visiting
<1>2. e \in Names /\ Names = DOMAIN entityclassmap /\ e \in Entities
  BY <1>1, CurrentIsNamed DEF DriverInv, Current
<1>3. MapIsRead /\ listing \in Installations
  BY <1>1, MapReads DEF MapIsRead
<1>4. files[e] = DefOfName(e)
  BY <1>2 DEF DriverInv, ReadInv, HighestPriority, DefOfName
<1>5. ParentOf(e) \in Names => ParentOf(e) \in Marked
  BY <1>2, <1>3 DEF Turn, ParentIsReady, MapIsRead, Marked
<1>6. Ancestors(e) \subseteq Marked
  BY <1>1, <1>2, <1>5, AncestorsMarked
<1>7. ASSUME NEW p \in Unnamed(e)
      PROVE  /\ Finds(e, Naming(p)) /\ History(e, p) \in Naming(p)
             /\ typeinfoHistory[<<p, History(e, p)>>] = PropertyOfName(e, p)
  BY <1>1, <1>2, <1>4, <1>6, HistoryFinds DEF Unnamed
<1>8. HistoryKnows(e)
  BY <1>7 DEF HistoryKnows
<1>9. ASSUME NEW p \in Properties PROVE PropertyClass(e, p) = PropertyOfName(e, p)
  <2>1. CASE p \in Unnamed(e)
    BY <2>1, <1>7 DEF PropertyClass
  <2>2. CASE p \notin Unnamed(e)
    BY <2>2, <1>4 DEF PropertyClass, PropertyOfName, Unnamed
  <2> QED BY <2>1, <2>2
<1>10. EntityType(files[e]) = TypeOfName(e)
  <2>1. CASE e \in SayingClass
    BY <2>1, <1>4 DEF EntityType, TypeOfName, SayingClass
  <2>2. CASE e \notin SayingClass
    <3>1. ParentOf(e) \in Names /\ TypeOfName(e) = TypeOfName(ParentOf(e))
      BY <1>2, <1>3, <2>2, TypeStep DEF MapIsRead
    <3>2. entityclassmap[ParentOf(e)].typehash = TypeOfName(ParentOf(e))
      BY <3>1, <1>1 DEF TypedInv
    <3>3. files[e].class = NoClass /\ files[e].parent = ParentOf(e)
      BY <1>2, <1>4, <2>2 DEF SayingClass, ParentOf
    <3> QED BY <3>1, <3>2, <3>3 DEF EntityType
  <2> QED BY <2>1, <2>2
<1>11. [p \in Properties |-> PropertyClass(e, p)] = [p \in Properties |-> PropertyOfName(e, p)]
  BY <1>9
<1>12. Decl(e) = RightDecl(e)
  BY <1>4, <1>10, <1>11 DEF Decl, RightDecl
<1> QED BY <1>2, <1>4, <1>5, <1>8, <1>12

LEMMA SayingSame ==
  ASSUME listing' = listing, NEW p
  PROVE  SayingProperty(p)' = SayingProperty(p)
BY DefSame, NamesSame DEF SayingProperty

LEMMA ParentSame ==
  ASSUME listing' = listing, NEW n
  PROVE  ParentOf(n)' = ParentOf(n)
BY DefSame DEF ParentOf

LEMMA HistoryKeeps ==
  ASSUME HistoryInv, listing' = listing, Marked' = Marked, UNCHANGED typeinfoHistory,
         runs' = 1 => /\ runs = 1
                      /\ \A n \in extractedfiles' : files'[n] = NoFile =>
                           n \in extractedfiles /\ files[n] = NoFile
  PROVE  HistoryInv'
<1>1. \A n \in Marked' : ParentOf(n)' \in Names' => ParentOf(n)' \in Marked'
  BY NamesSame, ParentSame DEF HistoryInv
<1>2. ASSUME NEW p \in Properties, NEW a \in Entities
      PROVE  /\ <<p, a>> \in DOMAIN typeinfoHistory' <=> a \in Marked' \cap SayingProperty(p)'
             /\ a \in Marked' \cap SayingProperty(p)' =>
                  typeinfoHistory'[<<p, a>>] = DefOfName(a)'.properties[p]
  BY SayingSame, DefSame DEF HistoryInv
<1>3. runs' = 1 => \A n \in extractedfiles' : files'[n] = NoFile => n \in Marked'
  BY DEF HistoryInv
<1> QED BY <1>1, <1>2, <1>3 DEF HistoryInv

LEMMA DeclsKeep ==
  ASSUME DeclsInherit, listing' = listing, UNCHANGED decls
  PROVE  DeclsInherit'
<1>1. SUFFICES ASSUME WellFormed', NEW n \in Names', decls'[n] # NoDecl
               PROVE  decls'[n] = RightDecl(n)'
  BY DEF DeclsInherit, RightDecl
<1>2. WellFormed /\ n \in Names
  BY <1>1, WellFormedSame, NamesSame
<1>3. decls[n] = RightDecl(n)
  BY <1>1, <1>2 DEF DeclsInherit, RightDecl
<1> QED BY <1>3, RightDeclSame

LEMMA DeserializeWell ==
  ASSUME DriverInv, WellInv, Deserialize
  PROVE  WellInv'
<1> DEFINE e == Current
<1>1. /\ Visiting /\ Turn(e) /\ files[e] # NoFile /\ pc = "deserialize" /\ k <= Len(order)
      /\ decls' = [decls EXCEPT ![e] = Decl(e)] /\ typeinfoHistory' = Remembered(e)
      /\ \A n \in Entities : n # e => files'[n] = files[n]
      /\ listing' = listing /\ pc' = pc /\ runs' = runs /\ extractedfiles' = extractedfiles
  <2>1. files \in [Entities -> Defs \cup {NoFile}]
    BY DEF DriverInv, ReadInv, ExtractorTypeOK
  <2> QED BY <2>1 DEF Deserialize, Visiting
<1>2. e \in Names /\ Names = DOMAIN entityclassmap /\ e \in Entities
  BY <1>1, CurrentIsNamed DEF DriverInv, Current
<1>3. /\ Marked' = Marked \cup {e} /\ e \notin Marked
      /\ DOMAIN entityclassmap' = DOMAIN entityclassmap
      /\ \A n \in DOMAIN entityclassmap :
           entityclassmap'[n].typehash = entityclassmap[n].typehash
  BY <1>2, DeserializeMarks DEF DriverInv
<1>4. DOMAIN decls' = Entities
  BY <1>1 DEF WellInv
<1>5. ASSUME WellFormed
      PROVE  /\ TypedInv /\ HistoryInv /\ NotLost /\ files[e] = DefOfName(e)
             /\ ParentOf(e) \in Names => ParentOf(e) \in Marked
             /\ Decl(e) = RightDecl(e)
  BY <1>1, <1>5, TurnIsRight DEF WellInv
<1>6. DeclsInherit'
  <2>1. SUFFICES ASSUME WellFormed', NEW n \in Names', decls'[n] # NoDecl
                 PROVE  decls'[n] = RightDecl(n)'
    BY DEF DeclsInherit, RightDecl
  <2>2. WellFormed /\ n \in Names
    BY <1>1, <2>1, WellFormedSame, NamesSame
  <2>3. decls'[n] = RightDecl(n)
    <3>1. CASE n = e
      BY <1>1, <1>2, <1>5, <2>2, <3>1 DEF WellInv
    <3>2. CASE n # e
      <4>1. decls'[n] = decls[n]
        BY <1>1, <3>2
      <4> QED BY <4>1, <2>1, <2>2 DEF WellInv, DeclsInherit, RightDecl
    <3> QED BY <3>1, <3>2
  <2> QED BY <2>3, <1>1, RightDeclSame
<1>7. ASSUME WellFormed PROVE TypedInv' /\ NotLost'
  <2>1. Typed' = Typed
    BY <1>3 DEF Typed
  <2>2. \A n \in Typed : entityclassmap'[n].typehash = entityclassmap[n].typehash
    BY <1>3 DEF Typed
  <2>3. TypedInv'
    BY <2>1, <2>2, <1>1, <1>5, <1>7, TypedKeeps DEF TypedInv
  <2> QED BY <2>3, <1>1, <1>5, <1>7 DEF NotLost
<1>8. ASSUME WellFormed PROVE HistoryInv'
  <2>1. HistoryInv /\ files[e] = DefOfName(e)
    BY <1>5, <1>8
  <2>2. \A n \in Marked' : ParentOf(n)' \in Names' => ParentOf(n)' \in Marked'
    <3>1. \A n \in Marked' : ParentOf(n) \in Names => ParentOf(n) \in Marked'
      BY <1>3, <1>5, <1>8 DEF HistoryInv
    <3> QED BY <3>1, <1>1, NamesSame, ParentSame
  <2>3. ASSUME NEW p \in Properties
        PROVE  p \in Named(e) <=> e \in SayingProperty(p)
    BY <1>2, <2>1 DEF Named, SayingProperty
  <2>4. DOMAIN typeinfoHistory' = DOMAIN typeinfoHistory \cup Named(e) \X {e}
    BY <1>1, <1>2, RememberedDomain DEF DriverInv, LoopInv
  <2>5. ASSUME NEW p \in Properties, NEW a \in Entities
        PROVE  <<p, a>> \in DOMAIN typeinfoHistory' <=> a \in Marked' \cap SayingProperty(p)
    <3>1. <<p, a>> \in DOMAIN typeinfoHistory <=> a \in Marked \cap SayingProperty(p)
      BY <2>1 DEF HistoryInv
    <3>2. <<p, a>> \in Named(e) \X {e} <=> a = e /\ p \in Named(e)
      OBVIOUS
    <3> QED BY <3>1, <3>2, <2>3, <2>4, <1>3
  <2>6. ASSUME NEW p \in Properties, NEW a \in Entities, a \in Marked' \cap SayingProperty(p)
        PROVE  typeinfoHistory'[<<p, a>>] = DefOfName(a).properties[p]
    <3>1. <<p, a>> \in DOMAIN typeinfoHistory'
      BY <2>5, <2>6
    <3>2. <<p, a>> \in DOMAIN typeinfoHistory <=> a \in Marked \cap SayingProperty(p)
      BY <2>1 DEF HistoryInv
    <3>3. typeinfoHistory'[<<p, a>>]
            = IF <<p, a>> \in DOMAIN typeinfoHistory THEN typeinfoHistory[<<p, a>>]
              ELSE files[e].properties[p]
      <4>1. <<p, a>> \in DOMAIN typeinfoHistory \cup Named(e) \X {e}
        BY <3>1, <2>4
      <4>2. <<p, a>>[1] = p
        OBVIOUS
      <4> QED BY <4>1, <4>2, <1>1 DEF Remembered
    <3>4. CASE a \in Marked
      BY <3>2, <3>3, <3>4, <2>1, <2>6 DEF HistoryInv
    <3>5. CASE a \notin Marked
      <4>1. a = e
        BY <3>5, <2>6, <1>3
      <4> QED BY <4>1, <3>2, <3>3, <3>5, <2>1
    <3> QED BY <3>4, <3>5
  <2>7. runs' = 1 => \A n \in extractedfiles' : files'[n] = NoFile => n \in Marked'
    <3>1. extractedfiles \subseteq Entities
      BY DEF DriverInv, ReadInv, ExtractorTypeOK
    <3> QED BY <3>1, <2>1, <1>1, <1>3 DEF HistoryInv
  <2>8. \A p \in Properties, a \in Entities :
          /\ <<p, a>> \in DOMAIN typeinfoHistory' <=> a \in Marked' \cap SayingProperty(p)'
          /\ a \in Marked' \cap SayingProperty(p)' =>
               typeinfoHistory'[<<p, a>>] = DefOfName(a)'.properties[p]
    BY <2>5, <2>6, <1>1, SayingSame, DefSame, ZenonT(40)
  <2> QED BY <2>2, <2>7, <2>8 DEF HistoryInv
<1> QED BY <1>1, <1>4, <1>6, <1>7, <1>8, WellFormedSame DEF WellInv

LEMMA InitTyped ==
  DriverInv /\ pc = "init" => Marked = {} /\ (WellFormed => TypedInv)
<1> SUFFICES ASSUME DriverInv, pc = "init"
             PROVE  Marked = {} /\ (WellFormed => TypedInv)
  OBVIOUS
<1>1. listing \in Installations /\ DOMAIN entityclassmap = NamesBefore(at)
  BY DEF DriverInv, ReadInv, ExtractorTypeOK, MapInv
<1>2. ASSUME NEW n \in DOMAIN entityclassmap
      PROVE  n \in Names /\ entityclassmap[n] = ClassDef(Winner(n))
  <2>1. NamesBefore(at) \subseteq Names
    BY <1>1, ListingFacts DEF NamesBefore, Names, DriverInv, ReadInv, ExtractorTypeOK
  <2> QED BY <2>1, <1>1 DEF DriverInv, MapInv
<1>3. Marked = {}
  <2>1. \A n \in DOMAIN entityclassmap : ~entityclassmap[n].deserialized
    BY <1>2 DEF ClassDef
  <2> QED BY <2>1 DEF Marked
<1>4. ASSUME WellFormed, NEW n \in Typed PROVE entityclassmap[n].typehash = TypeOfName(n)
  <2>1. n \in Names /\ entityclassmap[n].typehash = DefOfName(n).class
        /\ DefOfName(n).class # NoClass
    BY <1>1, <1>2, <1>4, WinnerReadable DEF Typed
  <2> QED BY <2>1 DEF TypeOfName, SayingClass
<1> QED BY <1>3, <1>4 DEF TypedInv

LEMMA ExtractWell ==
  ASSUME DriverInv, WellInv, Extract
  PROVE  WellInv'
<1> DEFINE e == listing[at]
<1>1. /\ pc = "extract" /\ pc' = pc /\ listing' = listing /\ runs' = runs
      /\ UNCHANGED <<entityclassmap, typeinfoHistory, decls, order, k>>
      /\ at <= Len(listing)
  BY DEF Extract, ExtractEntry, deserializerVars
<1>2. DOMAIN entityclassmap = {} /\ listing \in Installations
  BY <1>1 DEF DriverInv, MapInv, ReadInv, ExtractorTypeOK
<1>3. Typed = {} /\ Typed' = {} /\ Marked = {} /\ Marked' = {}
  BY <1>1, <1>2 DEF Typed, Marked
<1>4. ASSUME WellFormed, NEW n \in extractedfiles', files'[n] = NoFile
      PROVE  n \in extractedfiles /\ files[n] = NoFile
  <2>1. at \in 1 .. Len(listing)
    BY <1>1, <1>2, ListingFacts DEF DriverInv, ReadInv, ExtractorTypeOK
  <2>2. e \in EntryOf /\ e.name \in Names
    BY <2>1, <1>2, ListingFacts DEF Names
  <2>3. e.name \in Entities /\ e.def \in Defs /\ e.def # NoFile
    BY <2>2, ExtractorAssumption DEF EntryOf
  <2>4. files \in [Entities -> Defs \cup {NoFile}]
    BY DEF DriverInv, ReadInv, ExtractorTypeOK
  <2>5. CASE ~IsNew(e.name)
    BY <1>4, <2>5 DEF Extract, ExtractEntry
  <2>6. CASE IsNew(e.name)
    <3>1. Extracts(e) /\ BecomesBin(e.name)
      <4>1. IsFirst(at)
        BY <1>1, <2>6 DEF DriverInv, ReadInv, IsNew, IsFirst
      <4>2. Winner(e.name) = e
        BY <1>2, <2>1, <4>1, WinnerIsFirst
      <4> QED BY <1>4, <2>2, <4>2 DEF WellFormed, BecomesBin
    <3>2. /\ files' = [files EXCEPT ![e.name] = e.def]
          /\ extractedfiles' = extractedfiles \cup {e.name}
      BY <2>6, <3>1 DEF Extract, ExtractEntry
    <3>3. n # e.name
      BY <1>4, <2>3, <2>4, <3>2
    <3> QED BY <1>4, <2>4, <3>2, <3>3
  <2> QED BY <2>5, <2>6
<1>5. DOMAIN decls' = Entities /\ DeclsInherit'
  BY <1>1, DeclsKeep DEF WellInv
<1>6. WellFormed => TypedInv'
  BY <1>1, <1>3, TypedKeeps DEF WellInv
<1>7. WellFormed => HistoryInv'
  BY <1>1, <1>3, <1>4, HistoryKeeps DEF WellInv
<1>8. WellFormed => NotLost'
  BY <1>1 DEF NotLost
<1> QED BY <1>1, <1>5, <1>6, <1>7, <1>8, WellFormedSame DEF WellInv

(* The steps of a run that leave history, files and decls alone.           *)
LEMMA OthersWell ==
  ASSUME WellInv, listing' = listing, Marked' = Marked,
         UNCHANGED <<extractedfiles, files, typeinfoHistory, decls, runs>>,
         WellFormed => TypedInv' /\ NotLost'
  PROVE  WellInv'
<1>1. DOMAIN decls' = Entities /\ DeclsInherit'
  BY DeclsKeep DEF WellInv
<1>2. WellFormed => HistoryInv'
  BY HistoryKeeps DEF WellInv
<1> QED BY <1>1, <1>2, WellFormedSame DEF WellInv

LEMMA RunAgainWell ==
  ASSUME DriverInv, WellInv, RunAgain
  PROVE  WellInv'
<1>1. /\ pc' = "init" /\ listing' = listing /\ DOMAIN entityclassmap' = {}
      /\ DOMAIN typeinfoHistory' = {} /\ decls' = decls
  BY DEF RunAgain, Empty
<1>2. Typed' = {} /\ Marked' = {}
  BY <1>1 DEF Typed, Marked
<1>3. runs' # 1
  BY DeserializerAssumption DEF RunAgain, DriverInv, LoopInv
<1>4. DOMAIN decls' = Entities /\ DeclsInherit'
  BY <1>1, DeclsKeep DEF WellInv
<1>5. TypedInv' /\ HistoryInv' /\ NotLost'
  BY <1>1, <1>2, <1>3 DEF TypedInv, HistoryInv, NotLost
<1> QED BY <1>4, <1>5 DEF WellInv

LEMMA ReadEntryWell ==
  ASSUME DriverInv, DriverInv', WellInv, ReadEntry
  PROVE  WellInv'
<1>1. /\ pc = "init" /\ pc' = "init" /\ listing' = listing
      /\ UNCHANGED <<extractedfiles, files, typeinfoHistory, decls, runs>>
  BY DEF ReadEntry
<1>2. (DriverInv /\ pc = "init" => Marked = {} /\ (WellFormed => TypedInv))'
  BY InitTyped, PTL
<1>3. Marked = {} /\ Marked' = {}
  BY <1>1, <1>2, InitTyped
<1>4. WellFormed => TypedInv'
  BY <1>1, <1>2, WellFormedSame
<1> QED BY <1>1, <1>3, <1>4, OthersWell DEF NotLost

LEMMA StartDeserializingWell ==
  ASSUME DriverInv, WellInv, StartDeserializing
  PROVE  WellInv'
<1>1. /\ pc = "resolve" /\ pc' = "deserialize" /\ k > Len(order) /\ listing' = listing
      /\ UNCHANGED <<extractedfiles, files, entityclassmap, typeinfoHistory, decls, runs>>
  BY DEF StartDeserializing, extractorVars
<1>2. Typed' = Typed /\ Marked' = Marked
  BY <1>1 DEF Typed, Marked
<1>3. ASSUME WellFormed PROVE Names \subseteq Typed
  <2>1. listing \in Installations /\ order \in Orders(Names) /\ k \in Nat
    BY <1>1 DEF DriverInv, ReadInv, ExtractorTypeOK, LoopInv
  <2>2. ASSUME NEW n \in Names PROVE n \in Typed
    <3>1. PICK i \in 1 .. Len(order) : order[i] = n
      BY <2>1, OrderFacts
    <3>2. i \in 1 .. k - 1
      BY <1>1, <2>1, OrderFacts
    <3> QED BY <3>1, <3>2, <1>1, <1>3 DEF WellInv, TypedInv
  <2> QED BY <2>2
<1>4. WellFormed => TypedInv' /\ NotLost'
  BY <1>1, <1>2, <1>3, TypedKeeps DEF WellInv, NotLost
<1> QED BY <1>1, <1>2, <1>4, OthersWell

(* No turn is lost, and none is missed in the first run.                   *)
LEMMA NoTurnLost ==
  ASSUME DriverInv, WellInv, WellFormed
  PROVE  ~Lost /\ (runs = 1 => ~Abort)
<1>1. ~Lost
  <2>1. SUFFICES ASSUME Lost PROVE FALSE
    OBVIOUS
  <2>2. Visiting /\ Turn(Current) /\ files[Current] # NoFile /\ ~HistoryKnows(Current)
    BY <2>1 DEF Lost
  <2> QED BY <2>2, TurnIsRight DEF WellInv
<1>2. ASSUME runs = 1, Abort PROVE FALSE
  <2>1. Visiting /\ Turn(Current) /\ files[Current] = NoFile /\ pc = "deserialize"
        /\ k <= Len(order)
    BY <1>2 DEF Abort, Visiting
  <2>2. Current \in Names
    BY <2>1, CurrentIsNamed DEF DriverInv, Current
  <2>3. Current \in extractedfiles
    BY <2>1, <2>2 DEF DriverInv, ReadInv
  <2>4. Current \in Marked
    BY <1>2, <2>1, <2>3 DEF WellInv, HistoryInv
  <2> QED BY <2>1, <2>4 DEF Turn, Marked
<1> QED BY <1>1, <1>2

LEMMA WellStep ==
  DriverInv /\ DriverInv' /\ WellInv /\ [DeserializerNext]_allVars => WellInv'
<1> SUFFICES ASSUME DriverInv, DriverInv', WellInv, [DeserializerNext]_allVars PROVE WellInv'
  OBVIOUS
<1>1. ASSUME UNCHANGED entityclassmap PROVE Typed' = Typed /\ Marked' = Marked
  BY <1>1 DEF Typed, Marked
<1>2. CASE Extract
  BY <1>2, ExtractWell
<1>3. CASE EndExtraction
  <2>1. /\ pc' = "init" /\ listing' = listing
        /\ UNCHANGED <<extractedfiles, files, entityclassmap, typeinfoHistory, decls, runs>>
    BY <1>3 DEF EndExtraction
  <2>2. WellFormed => TypedInv' /\ NotLost'
    BY <2>1, <1>1, TypedKeeps DEF WellInv, NotLost
  <2> QED BY <2>1, <2>2, <1>1, OthersWell
<1>4. CASE ReadEntry
  BY <1>4, ReadEntryWell
<1>5. CASE StartResolving
  <2>1. /\ pc' = "resolve" /\ listing' = listing /\ k' = 1
        /\ UNCHANGED <<extractedfiles, files, entityclassmap, typeinfoHistory, decls, runs>>
    BY <1>5 DEF StartResolving, extractorVars
  <2>2. WellFormed => TypedInv' /\ NotLost'
    BY <2>1, <1>1, TypedKeeps DEF WellInv, NotLost
  <2> QED BY <2>1, <2>2, <1>1, OthersWell
<1>6. CASE Resolve
  <2>1. Marked' = Marked
    BY <1>6, ResolveMarks DEF DriverInv
  <2>2. WellFormed => TypedInv' /\ NotLost'
    BY <1>6, ResolveTypes DEF WellInv
  <2> QED BY <2>1, <2>2, <1>6, OthersWell DEF Resolve, extractorVars
<1>7. CASE StartDeserializing
  BY <1>7, StartDeserializingWell
<1>8. CASE Deserialize
  BY <1>8, DeserializeWell
<1>9. CASE Skip \/ EndPass
  <2>1. /\ pc = "deserialize" /\ pc' \in {"deserialize", "done"} /\ listing' = listing
        /\ UNCHANGED <<extractedfiles, files, entityclassmap, typeinfoHistory, decls, runs>>
    BY <1>9 DEF Skip, EndPass, Visiting, extractorVars
  <2>2. WellFormed => TypedInv' /\ NotLost'
    <3>1. WellFormed => TypedInv'
      BY <2>1, <1>1, TypedKeeps DEF WellInv, TypedInv
    <3> QED BY <3>1, <2>1 DEF NotLost
  <2> QED BY <2>1, <2>2, <1>1, OthersWell
<1>10. CASE Abort \/ Lost
  <2>1. /\ pc = "deserialize" /\ pc' \in {"aborted", "endless"} /\ listing' = listing
        /\ Abort => pc' = "aborted"
        /\ UNCHANGED <<extractedfiles, files, entityclassmap, typeinfoHistory, decls, runs>>
    BY <1>10 DEF Abort, Lost, Visiting, extractorVars
  <2>2. WellFormed => TypedInv' /\ NotLost'
    <3>1. WellFormed => TypedInv'
      BY <2>1, <1>1, TypedKeeps DEF WellInv, TypedInv
    <3>2. WellFormed => Abort /\ runs # 1
      BY <1>10, NoTurnLost
    <3> QED BY <3>1, <3>2, <2>1 DEF NotLost
  <2> QED BY <2>1, <2>2, <1>1, OthersWell
<1>11. CASE RunAgain
  BY <1>11, RunAgainWell
<1>12. CASE UNCHANGED allVars
  <2>1. UNCHANGED <<listing, extractedfiles, files, entityclassmap, typeinfoHistory, decls,
                    runs, pc, k, order>>
    BY <1>12 DEF allVars, extractorVars, deserializerVars
  <2>2. WellFormed => TypedInv' /\ NotLost'
    BY <2>1, <1>1, TypedKeeps DEF WellInv, TypedInv, NotLost
  <2> QED BY <2>1, <2>2, <1>1, OthersWell
<1> QED
  BY <1>2, <1>3, <1>4, <1>5, <1>6, <1>7, <1>8, <1>9, <1>10, <1>11, <1>12
     DEF DeserializerNext, Run

-----------------------------------------------------------------------------
(* With a well-formed installation, whatever the order of the maps:        *)
THEOREM WellInvariant == DeserializerSpec => [](DriverInv /\ WellInv)
<1>1. DeserializerInit => WellInv
  BY WellInit
<1>2. DriverInv /\ DriverInv' /\ WellInv /\ [DeserializerNext]_allVars => WellInv'
  BY WellStep
<1> QED BY <1>1, <1>2, DriverInvariant, PTL DEF DeserializerSpec

(* ... step 2 of DeserialInit gives every entity the class of its nearest  *)
(* ancestor that names one, ...                                            *)
THEOREM TypesAreInherited == DeserializerSpec => []TypesInherited
<1>1. DriverInv /\ WellInv => TypesInherited
  BY DEF WellInv, TypedInv, TypesInherited
<1> QED BY <1>1, WellInvariant, PTL

(* ... every decl that is written inherits from the right entity, has the  *)
(* right type, and in each property the class its nearest ancestor has     *)
(* named, ...                                                              *)
THEOREM DeclsAreRight == DeserializerSpec => []DeclsInherit
<1>1. DriverInv /\ WellInv => DeclsInherit
  BY DEF WellInv
<1> QED BY <1>1, WellInvariant, PTL

(* ... and no search goes on for ever or reads the end of the map, nor     *)
(* does the first run stop for want of a file.                             *)
THEOREM NobodyIsLost == DeserializerSpec => []NeverLost
<1>1. DriverInv /\ WellInv => NeverLost
  BY DEF WellInv, NotLost, NeverLost
<1> QED BY <1>1, WellInvariant, PTL

-----------------------------------------------------------------------------
(* Whoever is marked has a decl, and a run ends with everybody marked.     *)
CompleteInv ==
  WellFormed =>
    /\ \A n \in Marked : decls[n] # NoDecl
    /\ pc = "done" => Names \subseteq Marked

LEMMA TurnDecl ==
  ASSUME DriverInv, WellFormed, TypedInv, HistoryInv, Visiting, Turn(Current),
         files[Current] # NoFile
  PROVE  Decl(Current) # NoDecl
<1> DEFINE e == Current
<1>1. pc = "deserialize" /\ listing \in Installations
  BY DEF Visiting, DriverInv, ReadInv, ExtractorTypeOK
<1>2. /\ e \in Names /\ files[e] = DefOfName(e) /\ Decl(e) = RightDecl(e)
      /\ ParentOf(e) \in Names => ParentOf(e) \in Marked
  BY TurnIsRight
<1>3. Ancestors(e) \subseteq Marked
  BY <1>1, <1>2, AncestorsMarked
<1>4. DefOfName(e) \in DefOf
  BY <1>1, <1>2, WinnerType
<1>5. TypeOfName(e) \in Classes \cup {NoClass}
  <2>1. e \in Typed
    BY <1>1, <1>2 DEF TypedInv
  <2>2. entityclassmap[e] \in EntityOf
    BY <2>1 DEF Typed, DriverInv, MapInv, FromWinner
  <2>3. entityclassmap[e].typehash \in Classes \cup {NoClass}
    BY <2>2 DEF EntityOf
  <2> QED BY <2>1, <2>3 DEF TypedInv
<1>6. ASSUME NEW p \in Properties
      PROVE  PropertyOfName(e, p) \in Classes \cup {NoClass, Absent}
  <2>1. CASE DefOfName(e).properties[p] # NoClass
    <3>1. DefOfName(e).properties \in [Properties -> Classes \cup {NoClass, Absent}]
      BY <1>4 DEF DefOf
    <3>2. DefOfName(e).properties[p] \in Classes \cup {NoClass, Absent}
      BY <3>1
    <3>3. PropertyOfName(e, p) = DefOfName(e).properties[p]
      BY <2>1 DEF PropertyOfName
    <3> QED BY <3>2, <3>3
  <2>2. CASE DefOfName(e).properties[p] = NoClass
    <3>1. /\ History(e, p) \in Naming(p)
          /\ typeinfoHistory[<<p, History(e, p)>>] = PropertyOfName(e, p)
      BY <1>1, <1>2, <1>3, <2>2, HistoryFinds
    <3>2. /\ History(e, p) \in SayingProperty(p)
          /\ typeinfoHistory[<<p, History(e, p)>>] = DefOfName(History(e, p)).properties[p]
      BY <3>1 DEF Naming, HistoryInv
    <3> QED BY <3>1, <3>2 DEF SayingProperty
  <2> QED BY <2>1, <2>2
<1>7. DefOfName(e).parent \in Entities \cup {NoParent}
  BY <1>4 DEF DefOf
<1>8. [p \in Properties |-> PropertyOfName(e, p)]
        \in [Properties -> Classes \cup {NoClass, Absent}]
  BY <1>6
<1>9. RightDecl(e) \in DeclOf
  BY <1>5, <1>7, <1>8 DEF RightDecl, DeclOf
<1> QED BY <1>2, <1>9, DeserializerAssumption

LEMMA CompleteKeeps ==
  ASSUME CompleteInv, listing' = listing, Marked' \subseteq Marked, UNCHANGED decls,
         pc' # "done" \/ (Marked' = Marked /\ pc = "done")
  PROVE  CompleteInv'
BY WellFormedSame, NamesSame DEF CompleteInv

LEMMA EndPassCompletes ==
  ASSUME DriverInv, CompleteInv, EndPass
  PROVE  CompleteInv'
<1>1. pc = "deserialize" /\ listing' = listing /\ UNCHANGED <<entityclassmap, decls>>
  BY DEF EndPass, extractorVars
<1>2. Marked' = Marked
  BY <1>1 DEF Marked
<1>3. CASE MoreToDo
  BY <1>1, <1>2, <1>3, CompleteKeeps DEF EndPass
<1>4. CASE ~MoreToDo
  <2>1. listing \in Installations /\ Names = DOMAIN entityclassmap
    BY <1>1 DEF DriverInv, ReadInv, ExtractorTypeOK, MapInv
  <2>2. IsFiniteSet(Names) /\ Marked \subseteq Names /\ IsFiniteSet(Marked)
    BY <2>1, ListingFacts, MarkedFinite DEF DriverInv
  <2>3. /\ Cardinality(Names) \in Nat /\ Cardinality(Marked) \in Nat
        /\ Cardinality(Marked) <= Cardinality(Names)
    BY <2>2, FS_CardinalityType, FS_Subset
  <2>4. Cardinality(Marked) = Cardinality(Names)
    BY <1>4, <2>1, <2>3 DEF MoreToDo, DriverInv, LoopInv
  <2>5. Marked = Names
    BY <2>2, <2>4, FS_Subset
  <2> QED BY <1>1, <1>2, <2>5, WellFormedSame, NamesSame DEF CompleteInv
<1> QED BY <1>3, <1>4

LEMMA CompleteStep ==
  /\ DriverInv /\ DriverInv' /\ WellInv /\ CompleteInv /\ [DeserializerNext]_allVars
  => CompleteInv'
<1> SUFFICES ASSUME DriverInv, DriverInv', WellInv, CompleteInv, [DeserializerNext]_allVars
             PROVE  CompleteInv'
  OBVIOUS
<1>1. ASSUME UNCHANGED entityclassmap PROVE Marked' = Marked
  BY <1>1 DEF Marked
<1>2. CASE Extract
  BY <1>1, <1>2, CompleteKeeps DEF Extract, ExtractEntry, deserializerVars
<1>3. CASE EndExtraction
  BY <1>1, <1>3, CompleteKeeps DEF EndExtraction
<1>4. CASE ReadEntry
  <2>1. (DriverInv /\ pc = "init" => Marked = {} /\ (WellFormed => TypedInv))'
    BY InitTyped, PTL
  <2>2. pc' = "init" /\ listing' = listing /\ UNCHANGED decls
    BY <1>4 DEF ReadEntry
  <2>3. Marked' = {}
    BY <2>1, <2>2
  <2> QED BY <2>2, <2>3, CompleteKeeps
<1>5. CASE StartResolving
  BY <1>1, <1>5, CompleteKeeps DEF StartResolving, extractorVars
<1>6. CASE Resolve
  <2>1. Marked' = Marked
    BY <1>6, ResolveMarks DEF DriverInv
  <2>2. pc' # "done" /\ listing' = listing /\ UNCHANGED decls
    BY <1>6 DEF Resolve, extractorVars
  <2> QED BY <2>1, <2>2, CompleteKeeps
<1>7. CASE StartDeserializing
  BY <1>1, <1>7, CompleteKeeps DEF StartDeserializing, extractorVars
<1>8. CASE Deserialize
  <2>1. /\ Visiting /\ Turn(Current) /\ files[Current] # NoFile /\ pc = "deserialize"
        /\ k <= Len(order) /\ pc' = pc /\ listing' = listing
        /\ decls' = [decls EXCEPT ![Current] = Decl(Current)]
    BY <1>8 DEF Deserialize, Visiting
  <2>2. Current \in DOMAIN entityclassmap /\ Current \in Entities
    BY <2>1, CurrentIsNamed DEF DriverInv, Current
  <2>3. Marked' = Marked \cup {Current}
    BY <1>8, <2>2, DeserializeMarks DEF DriverInv
  <2>4. WellFormed => Decl(Current) # NoDecl
    BY <2>1, TurnDecl DEF WellInv
  <2>5. WellFormed => \A n \in Marked' : decls'[n] # NoDecl
    BY <2>1, <2>2, <2>3, <2>4 DEF CompleteInv, WellInv
  <2> QED BY <2>1, <2>5, WellFormedSame DEF CompleteInv
<1>9. CASE Skip \/ Abort \/ Lost
  BY <1>1, <1>9, CompleteKeeps DEF Skip, Abort, Lost, Visiting, extractorVars
<1>10. CASE EndPass
  BY <1>10, EndPassCompletes
<1>11. CASE RunAgain
  <2>1. Marked' = {}
    BY <1>11 DEF RunAgain, Empty, Marked
  <2> QED BY <1>11, <2>1, CompleteKeeps DEF RunAgain
<1>12. CASE UNCHANGED allVars
  BY <1>1, <1>12, CompleteKeeps DEF allVars, extractorVars, deserializerVars
<1> QED
  BY <1>2, <1>3, <1>4, <1>5, <1>6, <1>7, <1>8, <1>9, <1>10, <1>11, <1>12
     DEF DeserializerNext, Run

(* ... and a run that ends has written the decl of every entity.           *)
THEOREM RunsEndComplete == DeserializerSpec => []EndsComplete
<1>1. DeserializerInit => CompleteInv
  <2>1. SUFFICES ASSUME DeserializerInit PROVE CompleteInv
    OBVIOUS
  <2>2. Marked = {} /\ pc = "extract"
    BY <2>1 DEF DeserializerInit, Empty, Marked
  <2> QED BY <2>2 DEF CompleteInv
<1>2. CompleteInv => EndsComplete
  BY DEF CompleteInv, EndsComplete
<1>3. /\ DriverInv /\ DriverInv' /\ WellInv /\ CompleteInv /\ [DeserializerNext]_allVars
      => CompleteInv'
  BY CompleteStep
<1> QED BY <1>1, <1>2, <1>3, WellInvariant, PTL DEF DeserializerSpec
===============================================================================
