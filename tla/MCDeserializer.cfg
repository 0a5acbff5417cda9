SPECIFICATION DeserializerSpec
CONSTANTS
  root = root
  middle = middle
  leaf = leaf
  dotted = dotted
  player = player
  monster = monster
  rifle = rifle
  sword = sword
  object = object
  Entities = {root, middle, leaf, dotted}
  Extended = {dotted}
  Classes = {player, monster, rifle, sword}
  Properties = {object}
  Defs <- MCDefs
  Installations <- MCInstallations
  NoFile = NoFile
  NoParent = NoParent
  NoClass = NoClass
  Absent = Absent
  NoDecl = NoDecl
  RemoveBinaries = TRUE
  MaxRuns = 2
INVARIANTS TypeOK HighestPriority MapMatchesFiles TypesInherited DeclsInherit NeverLost EndsComplete
PROPERTIES AllDeserialized
CHECK_DEADLOCK FALSE
