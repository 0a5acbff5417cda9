---------------------------- MODULE MCDeserializer ----------------------------
(* Three entities, each in a line of up to two ancestors, a patch that may *)
(* replace one of them, and installations that are damaged or ill-formed,  *)
(* or that a library is missing for.  A fourth entity has a name with an   *)
(* extension.                                                              *)
EXTENDS Deserializer, TLC

CONSTANTS root, middle, leaf, dotted, player, monster, rifle, sword, object

Def(parent, class, property) ==
  [parent |-> parent, class |-> class, properties |-> (object :> property)]
Good(name, def) == [name |-> name, def |-> def, stored |-> TRUE, unpackedBy |-> {}]
Packed(name, def, libraries) ==
  [name |-> name, def |-> def, stored |-> FALSE, unpackedBy |-> libraries]

RootDefs == {Def(NoParent, player, rifle)}
MiddleDefs == {Def(root, c, o) : c \in {monster, NoClass}, o \in {sword, NoClass, Absent}}
LeafDefs == {Def(p, c, NoClass) : p \in {root, middle}, c \in {player, NoClass}}

MCDefs == DefOf

Base == {<<Good(leaf, l), Good(root, r), Good(middle, m)>> :
           l \in LeafDefs, r \in RootDefs, m \in MiddleDefs}
Patched == {<<Good(middle, m)>> \o b :
              m \in {Def(root, monster, sword), Def(NoParent, NoClass, Absent)}, b \in Base}

Line3 == <<Good(leaf, Def(middle, NoClass, NoClass)), Good(root, Def(NoParent, player, rifle)),
           Good(middle, Def(root, monster, sword))>>
Damaged == {<<Packed(n, Def(NoParent, player, rifle), libraries)>> \o Line3 :
              n \in {middle, leaf}, libraries \in {{}, {"oo2core_8"}, Libraries}}
(* All of it is packed, and the deserializer has no library.               *)
NoLibrary == {[i \in DOMAIN Line3 |-> Packed(Line3[i].name, Line3[i].def, {"oo2core_9"})]}
WithExtension == {<<Good(dotted, Def(root, NoClass, NoClass))>> \o Line3}

IllFormed ==
  {<<Good(middle, Def(leaf, c, o)), Good(leaf, Def(middle, c, o))>> :
     c \in {player, NoClass}, o \in {rifle, NoClass}}
  \cup {<<Good(middle, Def(root, player, NoClass))>>}

MCInstallations == Base \cup Patched \cup Damaged \cup NoLibrary \cup WithExtension \cup IllFormed
===============================================================================
