------------------------- MODULE EntityParserProofs -------------------------
(***************************************************************************)
(* Proofs about EntityParser, for every set of words, every text that      *)
(* clients pass, every bound on the edits and every size of the history.   *)
(*                                                                         *)
(* The inductive invariant is ParserInv.  Of the tree it says that it is   *)
(* one and that no list of children is too full; of the allocators, that   *)
(* they have handed out what the tree and the nodes of a parse under way   *)
(* hold; of a parse, which nodes are open and that the tokens left of a    *)
(* command's text close them; of the history, that it is whole groups, as  *)
(* many as counted, each flagged at the command its undo or redo executes  *)
(* last; and of every command, that its text is balanced.  That last part  *)
(* is why no reverse fails to parse: the text of a forest is balanced      *)
(* (TextBalanced), and a balanced text takes the parser from the nesting   *)
(* it starts with back to it.                                              *)
(*                                                                         *)
(* First come parsed nodes and balanced texts, then the invariant, then    *)
(* the counts, the open objects, the tokens and the history step by step,  *)
(* then one lemma per action, and the theorems at the end.                 *)
(***************************************************************************)
EXTENDS EntityTreeProofs

-----------------------------------------------------------------------------
(* How many lines are roots.                                               *)

(* A tree has one node at depth 0.                                         *)
LEMMA RootsOfTree ==
  ASSUME NEW t, IsTree(t)
  PROVE  Count(t, -1) = 1
<1>1. /\ t \in Seq(Lines) /\ Len(t) \in Nat /\ Len(t) >= 1 /\ t[1].depth = 0
      /\ \A i \in 1 .. Len(t) : t[i].depth \in Nat
      /\ \A i \in 2 .. Len(t) : t[i].depth >= 1
      /\ DOMAIN t = 1 .. Len(t)
  BY TreeLines, LinesOf
<1>2. Starts(t, -1) = {1}
  <2>1. ASSUME NEW k \in 1 .. Len(t), t[k].depth = -1 + 1 PROVE k = 1
    <3>1. k = 1 \/ k \in 2 .. Len(t)
      BY <1>1
    <3> QED BY <1>1, <2>1, <3>1
  <2>2. 1 \in 1 .. Len(t) /\ t[1].depth = -1 + 1
    BY <1>1
  <2>3. \A j \in 1 .. 1 : t[j].depth > -1
    BY <1>1
  <2> QED BY <1>1, <2>1, <2>2, <2>3 DEF Starts
<1> QED BY <1>2, FS_Singleton DEF Count

(* All other lines are deeper.                                             *)
LEMMA DeepLines ==
  ASSUME NEW Y \in Seq(Lines)
  PROVE  /\ Cardinality({i \in DOMAIN Y : Y[i].depth > 0}) = Len(Y) - Count(Y, -1)
         /\ Count(Y, -1) \in Nat /\ Len(Y) \in Nat
<1>1. Len(Y) \in Nat /\ DOMAIN Y = 1 .. Len(Y) /\ \A k \in 1 .. Len(Y) : Y[k].depth \in Nat
  BY LinesOf
<1> DEFINE D == {i \in 1 .. Len(Y) : Y[i].depth > 0}
           Z == {i \in 1 .. Len(Y) : Y[i].depth = 0}
<1>2. Starts(Y, -1) = Z
  <2>1. \A k \in 1 .. Len(Y) : \A j \in 1 .. k : j \in 1 .. Len(Y)
    BY <1>1
  <2>2. \A v \in Nat : v > -1
    OBVIOUS
  <2>3. \A k \in 1 .. Len(Y) : \A j \in 1 .. k : Y[j].depth > -1
    BY <1>1, <2>1, <2>2
  <2>4. -1 + 1 = 0
    OBVIOUS
  <2> QED BY <1>1, <2>3, <2>4 DEF Starts
<1>3. IsFiniteSet(1 .. Len(Y)) /\ Cardinality(1 .. Len(Y)) = Len(Y)
  <2>1. 1 \in Int /\ Len(Y) \in Int /\ (Len(Y) = 0 \/ ~(1 > Len(Y))) /\ Len(Y) - 1 + 1 = Len(Y)
    BY <1>1
  <2>2. /\ IsFiniteSet(1 .. Len(Y))
        /\ Cardinality(1 .. Len(Y)) = IF 1 > Len(Y) THEN 0 ELSE Len(Y) - 1 + 1
    BY ONLY <2>1, FS_Interval
  <2> QED BY <1>1, <2>1, <2>2
<1>4. D = (1 .. Len(Y)) \ Z
  BY <1>1
<1>5. Z \subseteq 1 .. Len(Y)
  OBVIOUS
<1> HIDE DEF D, Z
<1>6. (1 .. Len(Y)) \cap Z = Z
  BY <1>5
<1>7. /\ IsFiniteSet(Z) /\ Cardinality(Z) \in Nat
      /\ Cardinality(D) = Cardinality(1 .. Len(Y)) - Cardinality((1 .. Len(Y)) \cap Z)
  BY <1>3, <1>4, <1>5, FS_Subset, FS_Difference, FS_CardinalityType
<1> QED BY <1>1, <1>2, <1>3, <1>6, <1>7 DEF Count, D

-----------------------------------------------------------------------------
(* The nodes that are parsed, in groups of lines.                          *)

Group(g) == IsTree(g) /\ Fit(g) /\ Exact(g)

Groups(s) ==
  /\ s \in Seq(Seq(Lines))
  /\ \A k \in 1 .. Len(s) : Group(s[k])
  /\ \A k \in 2 .. Len(s) : Len(s[k]) > 1 => s[k][1].braces

(* Trees one after the other have as many nodes at depth 0 as there are    *)
(* trees.                                                                  *)
LEMMA FlattenTrees ==
  ASSUME NEW s \in Seq(Seq(Lines)), \A k \in 1 .. Len(s) : IsTree(s[k])
  PROVE  FlattenSeq(s) \in Seq(Lines) /\ Inside(FlattenSeq(s), -1) /\ Count(FlattenSeq(s), -1) = Len(s)
<1>1. PICK f : Joinings(f, s, Lines) /\ FlattenSeq(s) = f[Len(s)]
  BY FlattenRecursion
<1>2. /\ \A k \in 0 .. Len(s) : f[k] \in Seq(Lines)
      /\ f[0] = <<>>
      /\ \A k \in 1 .. Len(s) : f[k] = f[k - 1] \o s[k]
  BY <1>1 DEF Joinings
<1>3. Len(s) \in Nat /\ \A k \in 1 .. Len(s) : s[k] \in Seq(Lines)
  OBVIOUS
<1>4. ASSUME NEW Y \in Seq(Lines) PROVE Inside(Y, -1)
  <2>1. \A v \in Nat : v > -1
    OBVIOUS
  <2> QED BY <2>1, LinesOf DEF Inside
<1> DEFINE T == {k \in 0 .. Len(s) : Count(f[k], -1) = k}
<1>5. 0 \in T
  <2>1. Count(<<>>, -1) = 0
    <3>1. -1 \in Int /\ <<>> \in Seq(Lines)
      OBVIOUS
    <3> QED BY <3>1, CountNone
  <2> QED BY <1>2, <1>3, <2>1
<1>6. ASSUME NEW m \in 0 .. (Len(s) - 1), m \in T PROVE m + 1 \in T
  <2>1. m + 1 \in 1 .. Len(s) /\ (m + 1) - 1 = m /\ m \in 0 .. Len(s) /\ m + 1 \in 0 .. Len(s)
    BY <1>3
  <2>2. f[m + 1] = f[m] \o s[m + 1] /\ f[m] \in Seq(Lines) /\ s[m + 1] \in Seq(Lines)
    BY <1>2, <1>3, <2>1
  <2>3. Count(s[m + 1], -1) = 1
    BY <2>1, RootsOfTree
  <2>4. Count(f[m] \o s[m + 1], -1) = Count(f[m], -1) + Count(s[m + 1], -1)
    <3>1. -1 \in Int
      OBVIOUS
    <3> QED BY <1>4, <2>2, <3>1, CountConcat
  <2>5. Count(f[m + 1], -1) = m + 1
    BY <1>6, <2>2, <2>3, <2>4
  <2> QED BY <2>1, <2>5
<1>7. 0 .. Len(s) \subseteq T
  <2> HIDE DEF T
  <2> QED BY <1>3, <1>5, <1>6, IntervalInduction
<1>8. Len(s) \in T
  BY <1>3, <1>7
<1> QED BY <1>1, <1>2, <1>3, <1>4, <1>8

(* Parsed nodes one after the other are whole nodes at depth 0.            *)
LEMMA FlattenGroups ==
  ASSUME NEW s \in Seq(Seq(Lines)),
         \A k \in 1 .. Len(s) : Group(s[k]) /\ (Len(s[k]) > 1 => s[k][1].braces)
  PROVE  Forest(FlattenSeq(s), 0) /\ Fit(FlattenSeq(s)) /\ Exact(FlattenSeq(s))
<1>1. PICK f : Joinings(f, s, Lines) /\ FlattenSeq(s) = f[Len(s)]
  BY FlattenRecursion
<1>2. /\ \A k \in 0 .. Len(s) : f[k] \in Seq(Lines)
      /\ f[0] = <<>>
      /\ \A k \in 1 .. Len(s) : f[k] = f[k - 1] \o s[k]
  BY <1>1 DEF Joinings
<1>3. Len(s) \in Nat /\ \A k \in 1 .. Len(s) : s[k] \in Seq(Lines)
  OBVIOUS
<1> DEFINE T == {k \in 0 .. Len(s) : Forest(f[k], 0) /\ Fit(f[k]) /\ Exact(f[k])}
<1>4. 0 \in T
  <2>1. Len(<<>>) = 0 /\ <<>> \in Seq(Lines) /\ 1 .. 0 = {} /\ 2 .. 0 = {}
    OBVIOUS
  <2>2. Forest(<<>>, 0)
    BY <2>1 DEF Forest
  <2>3. Fit(<<>>) /\ Exact(<<>>)
    BY <2>1 DEF Fit, Exact
  <2> QED BY <1>2, <1>3, <2>2, <2>3
<1>5. ASSUME NEW m \in 0 .. (Len(s) - 1), m \in T PROVE m + 1 \in T
  <2>1. m + 1 \in 1 .. Len(s) /\ (m + 1) - 1 = m /\ m \in 0 .. Len(s) /\ m + 1 \in 0 .. Len(s)
    BY <1>3
  <2> DEFINE Y == f[m]
             Z == s[m + 1]
  <2>2. f[m + 1] = Y \o Z /\ Y \in Seq(Lines) /\ Z \in Seq(Lines)
    BY <1>2, <1>3, <2>1
  <2>3. Forest(Y, 0) /\ Fit(Y) /\ Exact(Y)
    BY <1>5
  <2>4. IsTree(Z) /\ Fit(Z) /\ Exact(Z) /\ (Len(Z) > 1 => Z[1].braces)
    BY <2>1 DEF Group
  <2> HIDE DEF Y, Z
  <2>5. Forest(Z, 0) /\ Z[1].depth = 0
    BY <2>4, ForestOfGroup, TreeLines
  <2>6. Forest(Y \o Z, 0) /\ Fit(Y \o Z)
    <3>1. 0 \in Nat
      OBVIOUS
    <3> QED BY <2>3, <2>4, <2>5, <3>1, ForestConcat, FitConcat
  <2>7. Y # <<>> => Z[1].depth <= Y[Len(Y)].depth
    <3>1. Y # <<>> => Len(Y) \in 1 .. Len(Y)
      BY <2>2
    <3>2. Y # <<>> => Y[Len(Y)].depth \in Nat
      BY <2>2, <3>1, LinesOf
    <3> QED BY <2>5, <3>2
  <2>8. Exact(Y \o Z)
    BY <2>2, <2>3, <2>4, <2>7, ExactConcat
  <2> QED BY <2>1, <2>2, <2>6, <2>8
<1>6. 0 .. Len(s) \subseteq T
  <2> HIDE DEF T
  <2> QED BY <1>3, <1>4, <1>5, IntervalInduction
<1>7. Len(s) \in T
  BY <1>3, <1>6
<1> QED BY <1>1, <1>7

-----------------------------------------------------------------------------
(* The steps of the parser.                                                *)

ThingsJoined(X, Y, Z) ==
  /\ Y \o Z \in Seq(X) /\ Len(Y \o Z) = Len(Y) + Len(Z) /\ Len(Y) \in Nat /\ Len(Z) \in Nat
  /\ \A k \in 1 .. Len(Y) : (Y \o Z)[k] = Y[k]
  /\ \A k \in 1 .. Len(Z) : (Y \o Z)[Len(Y) + k] = Z[k]

(* The members of two lists joined.                                        *)
LEMMA JoinedThings ==
  ASSUME NEW X, NEW Y \in Seq(X), NEW Z \in Seq(X)
  PROVE  ThingsJoined(X, Y, Z)
BY DEF ThingsJoined

(* The members of a list after an append.                                  *)
LEMMA AppendedThing ==
  ASSUME NEW X, NEW Y \in Seq(X), NEW z \in X
  PROVE  /\ Append(Y, z) \in Seq(X) /\ Len(Append(Y, z)) = Len(Y) + 1 /\ Append(Y, z)[Len(Y) + 1] = z
         /\ \A k \in 1 .. Len(Y) : Append(Y, z)[k] = Y[k]
OBVIOUS

(* A list of one line.                                                     *)
LEMMA OneLine ==
  ASSUME NEW q \in Seq(Lines), Len(q) = 1
  PROVE  q = <<q[1]>> /\ q[1] \in Lines
OBVIOUS

TwoSizes(Y, Z) ==
  /\ Y \o Z \in Seq(Lines) /\ Len(Y \o Z) = Len(Y) + Len(Z)
  /\ SlotsOf(Y \o Z) = SlotsOf(Y) + SlotsOf(Z) /\ CharsIn(Y \o Z) = CharsIn(Y) + CharsIn(Z)
  /\ Len(Y) \in Nat /\ Len(Z) \in Nat
  /\ SlotsOf(Y) \in Nat /\ SlotsOf(Z) \in Nat /\ CharsIn(Y) \in Nat /\ CharsIn(Z) \in Nat

(* The sizes of two lists joined.                                          *)
LEMMA SizesTwo ==
  ASSUME NEW Y \in Seq(Lines), NEW Z \in Seq(Lines)
  PROVE  TwoSizes(Y, Z)
BY JoinedLines, SizesConcat, LinesOf DEF TwoSizes

GroupsSplit(s, p) ==
  LET A == SubSeq(s, 1, p - 1)
      C == SubSeq(s, p + 1, Len(s))
  IN  /\ A \in Seq(Seq(Lines)) /\ Len(A) = p - 1 /\ \A k \in 1 .. (p - 1) : A[k] = s[k]
      /\ C \in Seq(Seq(Lines)) /\ Len(C) = Len(s) - p /\ \A k \in 1 .. (Len(s) - p) : C[k] = s[p + k]
      /\ s[p] \in Seq(Lines)
      /\ FlattenSeq(A) \in Seq(Lines) /\ FlattenSeq(C) \in Seq(Lines)
      /\ FlattenSeq(s) = FlattenSeq(A) \o (s[p] \o FlattenSeq(C))

(* The parsed nodes before, at and after one of them.                      *)
LEMMA SplitGroups ==
  ASSUME NEW s \in Seq(Seq(Lines)), NEW p \in 1 .. Len(s)
  PROVE  GroupsSplit(s, p)
<1> DEFINE X == Seq(Lines)
           A == SubSeq(s, 1, p - 1)
           C == SubSeq(s, p + 1, Len(s))
           B == <<s[p]>>
           n == Len(s)
<1>1. s \in Seq(X) /\ n \in Nat /\ p \in 1 .. n /\ s[p] \in X
  OBVIOUS
<1> HIDE DEF X
<1>2. A \in Seq(X) /\ Len(A) = p - 1 /\ \A k \in 1 .. (p - 1) : A[k] = s[k]
  BY <1>1
<1>3. C \in Seq(X) /\ Len(C) = n - p /\ \A k \in 1 .. (n - p) : C[k] = s[p + k]
  BY <1>1
<1>4. B \in Seq(X) /\ Len(B) = 1 /\ B[1] = s[p]
  BY <1>1
<1> HIDE DEF A, C, B, n
<1>5. B \o C \in Seq(X) /\ Len(B \o C) = 1 + (n - p)
      /\ (B \o C)[1] = s[p]
      /\ \A k \in 1 .. (n - p) : (B \o C)[1 + k] = C[k]
  <2>1. /\ B \o C \in Seq(X) /\ Len(B \o C) = Len(B) + Len(C)
        /\ \A k \in 1 .. Len(B) : (B \o C)[k] = B[k]
        /\ \A k \in 1 .. Len(C) : (B \o C)[Len(B) + k] = C[k]
    <3>1. ThingsJoined(X, B, C)
      BY <1>3, <1>4, JoinedThings, Zenon
    <3> QED BY ONLY <3>1 DEF ThingsJoined
  <2>2. 1 \in 1 .. Len(B)
    BY <1>4
  <2> QED BY <1>3, <1>4, <2>1, <2>2
<1> DEFINE Z == B \o C
<1>6. Z \in Seq(X) /\ Len(Z) = 1 + (n - p) /\ Z[1] = s[p] /\ \A k \in 1 .. (n - p) : Z[1 + k] = s[p + k]
  BY <1>3, <1>5
<1> HIDE DEF Z
<1>7. /\ A \o Z \in Seq(X) /\ Len(A \o Z) = (p - 1) + (1 + (n - p))
      /\ \A k \in 1 .. (p - 1) : (A \o Z)[k] = s[k]
      /\ \A k \in 1 .. (1 + (n - p)) : (A \o Z)[(p - 1) + k] = Z[k]
  <2>1. /\ A \o Z \in Seq(X) /\ Len(A \o Z) = Len(A) + Len(Z)
        /\ \A k \in 1 .. Len(A) : (A \o Z)[k] = A[k]
        /\ \A k \in 1 .. Len(Z) : (A \o Z)[Len(A) + k] = Z[k]
    <3>1. ThingsJoined(X, A, Z)
      BY <1>2, <1>6, JoinedThings, Zenon
    <3> QED BY ONLY <3>1 DEF ThingsJoined
  <2> QED BY <1>2, <1>6, <2>1
<1>8. s = A \o Z
  <2>1. ASSUME NEW k \in 1 .. n PROVE s[k] = (A \o Z)[k]
    <3>1. CASE k < p
      <4>1. k \in 1 .. (p - 1)
        BY <1>1, <3>1
      <4> QED BY <1>7, <4>1
    <3>2. CASE k = p
      <4>1. 1 \in 1 .. (1 + (n - p)) /\ (p - 1) + 1 = p
        BY <1>1
      <4> QED BY <1>6, <1>7, <3>2, <4>1
    <3>3. CASE k > p
      <4>1. k - p \in 1 .. (n - p) /\ 1 + (k - p) \in 1 .. (1 + (n - p)) /\ (p - 1) + (1 + (k - p)) = k /\ p + (k - p) = k
        BY <1>1, <3>3
      <4>2. (A \o Z)[(p - 1) + (1 + (k - p))] = Z[1 + (k - p)]
        BY <1>7, <4>1
      <4>3. Z[1 + (k - p)] = s[p + (k - p)]
        BY <1>6, <4>1
      <4> QED BY <4>1, <4>2, <4>3
    <3>4. p \in Nat /\ k \in Nat
      BY <1>1
    <3>5. k < p \/ k = p \/ k > p
      BY ONLY <3>4
    <3> QED BY <3>1, <3>2, <3>3, <3>5, Zenon
  <2>2. Len(A \o Z) = n
    BY <1>1, <1>7
  <2>3. Len(s) = n
    BY DEF n
  <2> QED BY <1>1, <1>7, <2>1, <2>2, <2>3, SeqEqual
<1>9. FlattenSeq(A \o Z) = FlattenSeq(A) \o FlattenSeq(Z) /\ FlattenSeq(A) \in Seq(Lines)
  BY <1>2, <1>6, FlattenConcat DEF X
<1>10. FlattenSeq(Z) = FlattenSeq(B) \o FlattenSeq(C) /\ FlattenSeq(C) \in Seq(Lines)
  BY <1>3, <1>4, FlattenConcat DEF X, Z
<1>11. FlattenSeq(B) = s[p]
  BY <1>1, FlattenSmall DEF B, X
<1>12. FlattenSeq(s) = FlattenSeq(A) \o (s[p] \o FlattenSeq(C))
  BY <1>8, <1>9, <1>10, <1>11, Zenon
<1> QED BY <1>1, <1>2, <1>3, <1>9, <1>10, <1>12 DEF A, C, X, n, GroupsSplit

(* A node without children.                                                *)
LEMMA SingleLine ==
  ASSUME NEW x \in Lines, x.depth = 0, x.slots = 0
  PROVE  <<x>> \in Seq(Lines) /\ Len(<<x>>) = 1 /\ <<x>>[1] = x /\ Group(<<x>>)
<1>1. <<x>> \in Seq(Lines) /\ Len(<<x>>) = 1 /\ <<x>>[1] = x
  OBVIOUS
<1>2. <<>> \in Seq(Lines) /\ <<x>> \o <<>> = <<x>> /\ Len(<<>>) = 0 /\ 1 .. 0 = {} /\ 2 .. 0 = {}
  OBVIOUS
<1>3. Forest(<<>>, 1) /\ Fit(<<>>) /\ Exact(<<>>)
  BY <1>2 DEF Forest, Fit, Exact
<1>4. Count(<<>>, 0) = 0
  <2>1. 0 \in Int
    OBVIOUS
  <2> QED BY <1>2, <2>1, CountNone
<1>5. IsTree(<<x>>) /\ Fit(<<x>>)
  <2> DEFINE t == <<x>> \o <<>>
  <2>1. IsTree(t) /\ (Fit(<<>>) /\ Count(<<>>, 0) <= x.slots => Fit(t))
    BY <1>3, TreeOfForest
  <2> QED BY <1>2, <1>3, <1>4, <2>1
<1>6. Exact(<<x>>)
  <2>1. Exact(<<x>> \o <<>>)
    BY <1>2, <1>3, TrimTree
  <2> QED BY <1>2, <2>1
<1> QED BY <1>1, <1>5, <1>6 DEF Group

(* What the nodes parsed hold.                                             *)
SameHeld(F, G, slots, chars, nodes) ==
  /\ G \in Seq(Lines) /\ Len(G) = Len(F) + nodes
  /\ SlotsOf(G) = SlotsOf(F) + slots /\ CharsIn(G) = CharsIn(F) + chars

(* A node pushed by the parser adds one node and its name                  *)
(* (EntityParser.cpp 1039-1063).                                           *)
LEMMA NodePushed ==
  ASSUME NEW s, Groups(s), NEW x \in Lines, x.depth = 0, x.slots = 0
  PROVE  /\ Groups(Append(s, <<x>>))
         /\ SameHeld(FlattenSeq(s), FlattenSeq(Append(s, <<x>>)), 0, CharsOf(x.word), 1)
<1> DEFINE u == Append(s, <<x>>)
           n == Len(s)
<1>1. s \in Seq(Seq(Lines)) /\ n \in Nat
  BY DEF Groups
<1>2. <<x>> \in Seq(Lines) /\ Len(<<x>>) = 1 /\ Group(<<x>>)
  BY SingleLine
<1>3. u \in Seq(Seq(Lines)) /\ Len(u) = n + 1 /\ u[n + 1] = <<x>> /\ \A k \in 1 .. n : u[k] = s[k]
  <2> DEFINE y == <<x>>
             X == Seq(Lines)
  <2>1. s \in Seq(X) /\ y \in X /\ n = Len(s)
    BY <1>1, <1>2
  <2> HIDE DEF y, X, n
  <2>2. Append(s, y) \in Seq(X) /\ Len(Append(s, y)) = n + 1 /\ Append(s, y)[n + 1] = y
        /\ \A k \in 1 .. n : Append(s, y)[k] = s[k]
    BY <2>1
  <2> QED BY <2>2 DEF y, X
<1>4. /\ \A k \in 1 .. n : Group(s[k])
      /\ \A k \in 2 .. n : Len(s[k]) > 1 => s[k][1].braces
  BY DEF Groups
<1>5. /\ FlattenSeq(s) \in Seq(Lines)
      /\ FlattenSeq(u) = FlattenSeq(s) \o <<x>>
  BY <1>1, <1>2, FlattenAppend
<1> HIDE DEF u, n
<1>6. Groups(u)
  <2>1. ASSUME NEW k \in 1 .. (n + 1) PROVE Group(u[k])
    <3>1. k \in 1 .. n \/ k = n + 1
      BY <1>1
    <3> QED BY <1>2, <1>3, <1>4, <3>1
  <2>2. ASSUME NEW k \in 2 .. (n + 1), Len(u[k]) > 1 PROVE u[k][1].braces
    <3>1. CASE k = n + 1
      <4>1. Len(u[k]) = 1
        BY <1>2, <1>3, <3>1, Zenon
      <4> QED BY <2>2, <4>1
    <3>2. CASE k # n + 1
      <4>1. k \in 2 .. n /\ k \in 1 .. n
        BY <1>1, <3>2
      <4> QED BY <1>3, <1>4, <2>2, <4>1
    <3> QED BY <3>1, <3>2
  <2> QED BY <1>3, <2>1, <2>2 DEF Groups
<1>7. SlotsOf(<<x>>) = 0 /\ CharsIn(<<x>>) = CharsOf(x.word)
  BY SizesSmall
<1> DEFINE F == FlattenSeq(s)
           y == <<x>>
<1>8. SameHeld(F, F \o y, 0, CharsOf(x.word), 1)
  <2>1. F \in Seq(Lines) /\ y \in Seq(Lines) /\ Len(y) = 1 /\ SlotsOf(y) = 0 /\ CharsIn(y) = CharsOf(x.word)
    BY <1>2, <1>5, <1>7
  <2> HIDE DEF F, y
  <2>2. F \o y \in Seq(Lines) /\ Len(F \o y) = Len(F) + Len(y)
    BY <2>1, JoinedLines
  <2>3. SlotsOf(F \o y) = SlotsOf(F) + SlotsOf(y) /\ CharsIn(F \o y) = CharsIn(F) + CharsIn(y)
    BY <2>1, SizesConcat
  <2> QED BY <2>1, <2>2, <2>3 DEF SameHeld
<1> QED BY <1>5, <1>6, <1>8 DEF u

Closes(s, p) ==
  Append(SubSeq(s, 1, p - 1),
    <<[s[p][1] EXCEPT !.slots = OptimalMaxChildCount(Len(s) - p)]>>
      \o Deeper(FlattenSeq(SubSeq(s, p + 1, p + (Len(s) - p))), 1))

(* Closing an object gives the nodes parsed since it was opened to it as   *)
(* its children, in a list of their number rounded up (setNodeChildren,    *)
(* EntityParser.cpp 1065-1083).                                            *)
LEMMA NodeClosed ==
  ASSUME NEW s, Groups(s), NEW p \in 1 .. Len(s), Len(s[p]) = 1, s[p][1].slots = 0,
         p > 1 => s[p][1].braces
  PROVE  /\ Groups(Closes(s, p)) /\ Len(Closes(s, p)) = p
         /\ \A k \in 1 .. (p - 1) : Closes(s, p)[k] = s[k]
         /\ Closes(s, p)[p][1].word = s[p][1].word
         /\ OptimalMaxChildCount(Len(s) - p) \in Nat
         /\ SameHeld(FlattenSeq(s), FlattenSeq(Closes(s, p)), OptimalMaxChildCount(Len(s) - p), 0, 0)
<1> DEFINE A == SubSeq(s, 1, p - 1)
           C == SubSeq(s, p + 1, Len(s))
           x == s[p][1]
           n == Len(s) - p
           max == OptimalMaxChildCount(n)
           y == [x EXCEPT !.slots = max]
           F == FlattenSeq(C)
           D == Deeper(F, 1)
           g == <<y>> \o D
           a == FlattenSeq(A)
           u == Append(A, g)
<1>1. /\ s \in Seq(Seq(Lines)) /\ Len(s) \in Nat /\ p \in Nat /\ n \in Nat
      /\ \A k \in 1 .. Len(s) : Group(s[k])
      /\ \A k \in 2 .. Len(s) : Len(s[k]) > 1 => s[k][1].braces
  BY DEF Groups
<1>2. /\ A \in Seq(Seq(Lines)) /\ Len(A) = p - 1 /\ \A k \in 1 .. (p - 1) : A[k] = s[k]
      /\ C \in Seq(Seq(Lines)) /\ Len(C) = n /\ \A k \in 1 .. n : C[k] = s[p + k]
      /\ s[p] \in Seq(Lines)
      /\ a \in Seq(Lines) /\ F \in Seq(Lines)
      /\ FlattenSeq(s) = a \o (s[p] \o F)
  <2>1. GroupsSplit(s, p)
    BY <1>1, SplitGroups
  <2> QED BY <2>1 DEF GroupsSplit
<1>3. Closes(s, p) = u
  <2>1. p + (Len(s) - p) = Len(s)
    BY <1>1
  <2> QED BY <2>1 DEF Closes
<1>4. x \in Lines /\ x.depth = 0 /\ s[p] = <<x>>
  <2>1. IsTree(s[p])
    BY <1>1 DEF Group
  <2>2. x \in Lines /\ s[p] = <<x>>
    BY <1>2, OneLine
  <2> QED BY <2>1, <2>2, TreeLines
<1> HIDE DEF n
<1>5. max \in Nat /\ max >= n /\ (n = 0 => max = 0)
  BY <1>1, OptimalAtLeast
<1> HIDE DEF max, x
<1>6. y \in Lines /\ y.slots = max /\ y.depth = 0 /\ y.word = x.word /\ y.braces = x.braces
  BY <1>4, <1>5, ChangedLine
<1>7. ASSUME NEW k \in 1 .. Len(C) PROVE Group(C[k]) /\ (Len(C[k]) > 1 => C[k][1].braces)
  <2>1. k \in 1 .. n /\ p + k \in 1 .. Len(s) /\ p + k \in 2 .. Len(s)
    BY <1>1, <1>2 DEF n
  <2> QED BY <1>1, <1>2, <2>1
<1>8. Forest(F, 0) /\ Fit(F) /\ Exact(F) /\ Count(F, -1) = n
  <2>1. \A k \in 1 .. Len(C) : IsTree(C[k])
    BY <1>7 DEF Group
  <2> QED BY <1>2, <1>7, <2>1, FlattenGroups, FlattenTrees
<1> HIDE DEF F, A, C, y, a
<1>9. /\ Forest(D, 1) /\ Fit(D) /\ Exact(D) /\ Count(D, 0) = n
      /\ D \in Seq(Lines) /\ Len(D) = Len(F) /\ SlotsOf(D) = SlotsOf(F) /\ CharsIn(D) = CharsIn(F)
  <2>1. 0 \in Nat /\ 1 \in Nat /\ 0 + 1 = 1 /\ -1 \in Int /\ -1 + 1 = 0
    OBVIOUS
  <2>2. Forest(Deeper(F, 1), 0 + 1)
    BY <1>8, <2>1, ForestDeeper
  <2>3. Fit(D) /\ Exact(D)
    BY <1>2, <1>8, <2>1, FitDeeper, ExactDeeper
  <2>4. Count(Deeper(F, 1), -1 + 1) = Count(F, -1) /\ D \in Seq(Lines) /\ Len(D) = Len(F)
    BY <1>2, <2>1, CountDeeper
  <2>5. SlotsOf(D) = SlotsOf(F) /\ CharsIn(D) = CharsIn(F)
    BY <1>2, <2>1, SizesDeeper
  <2> QED BY <1>8, <2>1, <2>2, <2>3, <2>4, <2>5
<1> HIDE DEF D
<1>10. IsTree(g) /\ g[1] = y /\ Len(g) = 1 + Len(D) /\ Fit(g)
  BY <1>5, <1>6, <1>9, TreeOfForest
<1>11. Exact(g)
  <2>1. CASE D = <<>>
    <3>1. n = 0
      <4>1. 0 \in Int
        OBVIOUS
      <4> QED BY <1>9, <2>1, <4>1, CountNone
    <3> QED BY <1>5, <1>6, <1>9, <2>1, <3>1, TrimTree
  <2>2. CASE D # <<>>
    BY <1>6, <1>9, <2>2, TrimTree
  <2> QED BY <2>1, <2>2
<1>12. /\ g \in Seq(Lines) /\ Len(g) = 1 + Len(F)
       /\ SlotsOf(g) = max + SlotsOf(F) /\ CharsIn(g) = CharsOf(x.word) + CharsIn(F)
  <2>1. <<y>> \in Seq(Lines) /\ SlotsOf(<<y>>) = max /\ CharsIn(<<y>>) = CharsOf(x.word)
    BY <1>6, SizesSmall
  <2>2. TwoSizes(<<y>>, D)
    BY <1>9, <2>1, SizesTwo
  <2>3. /\ g \in Seq(Lines) /\ SlotsOf(g) = SlotsOf(<<y>>) + SlotsOf(D)
        /\ CharsIn(g) = CharsIn(<<y>>) + CharsIn(D)
    BY <2>2 DEF TwoSizes
  <2> HIDE DEF g
  <2> QED BY <1>9, <1>10, <2>1, <2>3
<1> HIDE DEF g
<1>13. Group(g)
  BY <1>10, <1>11 DEF Group
<1>14. /\ u \in Seq(Seq(Lines)) /\ Len(u) = p /\ u[p] = g /\ \A k \in 1 .. (p - 1) : u[k] = s[k]
  <2> DEFINE X == Seq(Lines)
  <2>1. A \in Seq(X) /\ g \in X /\ Len(A) = p - 1
    BY <1>2, <1>12
  <2> HIDE DEF X
  <2>2. u \in Seq(X) /\ Len(u) = (p - 1) + 1 /\ u[(p - 1) + 1] = g /\ \A k \in 1 .. (p - 1) : u[k] = A[k]
    BY <1>1, <2>1
  <2>3. (p - 1) + 1 = p
    BY <1>1
  <2> QED BY <1>2, <2>2, <2>3 DEF X
<1>15. FlattenSeq(u) = a \o g
  BY <1>2, <1>12, FlattenAppend DEF a
<1> HIDE DEF u
<1>16. Groups(u)
  <2>1. ASSUME NEW k \in 1 .. p PROVE Group(u[k])
    <3>1. (k \in 1 .. (p - 1) /\ k \in 1 .. Len(s)) \/ k = p
      BY <1>1
    <3> QED BY <1>1, <1>13, <1>14, <3>1
  <2>2. ASSUME NEW k \in 2 .. p, Len(u[k]) > 1 PROVE u[k][1].braces
    <3>1. CASE k = p
      <4>1. p > 1
        BY <1>1, <3>1
      <4> QED BY <1>6, <1>10, <1>14, <3>1, <4>1 DEF x
    <3>2. CASE k # p
      <4>1. k \in 2 .. Len(s) /\ k \in 1 .. (p - 1)
        BY <1>1, <3>2
      <4> QED BY <1>1, <1>14, <2>2, <4>1
    <3> QED BY <3>1, <3>2
  <2> QED BY <1>14, <2>1, <2>2 DEF Groups
<1>17. u[p][1].word = x.word
  BY <1>6, <1>10, <1>14
<1>18. SameHeld(FlattenSeq(s), FlattenSeq(u), max, 0, 0)
  <2> DEFINE b == s[p]
  <2>1. b \in Seq(Lines) /\ Len(b) = 1 /\ SlotsOf(b) = 0 /\ CharsIn(b) = CharsOf(x.word)
    BY <1>2, <1>4, SizesSmall DEF x
  <2> HIDE DEF b
  <2>2. ThreeSizes(a, b, F)
    BY <1>2, <2>1, SizesThree
  <2>3. /\ SlotsOf(a \o (b \o F)) = SlotsOf(a) + (SlotsOf(b) + SlotsOf(F))
        /\ CharsIn(a \o (b \o F)) = CharsIn(a) + (CharsIn(b) + CharsIn(F))
        /\ SlotsOf(a) \in Nat /\ SlotsOf(F) \in Nat /\ CharsIn(a) \in Nat /\ CharsIn(F) \in Nat /\ CharsIn(b) \in Nat
    BY <2>2 DEF ThreeSizes
  <2>4. /\ a \o g \in Seq(Lines) /\ Len(a \o g) = Len(a) + Len(g)
        /\ SlotsOf(a \o g) = SlotsOf(a) + SlotsOf(g) /\ CharsIn(a \o g) = CharsIn(a) + CharsIn(g)
    <3>1. TwoSizes(a, g)
      BY <1>2, <1>12, SizesTwo
    <3> QED BY ONLY <3>1 DEF TwoSizes
  <2>5. Len(a \o (b \o F)) = Len(a) + (1 + Len(F))
    <3>1. b \o F \in Seq(Lines) /\ Len(b \o F) = Len(b) + Len(F)
      BY <1>2, <2>1, JoinedLines
    <3> QED BY <1>2, <2>1, <3>1, JoinedLines
  <2>6. Len(a) \in Nat /\ Len(F) \in Nat
    BY <1>2, LinesOf
  <2>7. FlattenSeq(s) = a \o (b \o F)
    BY <1>2 DEF b
  <2>8. SlotsOf(a \o g) = SlotsOf(a \o (b \o F)) + max
    BY <1>5, <1>12, <2>1, <2>3, <2>4
  <2>9. CharsIn(a \o g) = CharsIn(a \o (b \o F)) + 0
    BY <1>12, <2>1, <2>3, <2>4
  <2>10. Len(a \o g) = Len(a \o (b \o F)) + 0
    BY <1>12, <2>4, <2>5, <2>6
  <2> QED BY <1>15, <2>4, <2>7, <2>8, <2>9, <2>10, Zenon DEF SameHeld
<1> QED BY <1>3, <1>5, <1>14, <1>16, <1>17, <1>18 DEF x, n, max

(* A list with members has a last one.                                     *)
LEMMA LastIn ==
  ASSUME NEW q \in Seq(Lines), q # <<>>
  PROVE  Len(q) \in 1 .. Len(q) /\ q[Len(q)].depth \in Nat /\ Len(q) >= 1
<1>1. Len(q) \in 1 .. Len(q) /\ Len(q) >= 1
  OBVIOUS
<1> QED BY <1>1, LinesOf

(* What a failed parse frees is what it allocated, the root's list apart   *)
(* (EntityParser.cpp 597-619).                                             *)
LEMMA RolledBack ==
  ASSUME NEW s, Groups(s), Len(s) >= 1, CharsOf(s[1][1].word) = 0
  PROVE  LET parsed == Tail(s[1]) \o FlattenSeq(Tail(s)) IN
         /\ parsed \in Seq(Lines) /\ Exact(parsed)
         /\ FlattenSeq(s) \in Seq(Lines) /\ Len(FlattenSeq(s)) = Len(parsed) + 1
         /\ SlotsOf(FlattenSeq(s)) = SlotsOf(parsed) + s[1][1].slots
         /\ CharsIn(FlattenSeq(s)) = CharsIn(parsed)
         /\ s[1][1].slots \in Nat
<1> DEFINE C == SubSeq(s, 2, Len(s))
           g == s[1]
           x == g[1]
           D == After(g, 1)
           F == FlattenSeq(C)
           parsed == D \o F
<1>1. /\ s \in Seq(Seq(Lines)) /\ Len(s) \in Nat /\ 1 \in 1 .. Len(s)
      /\ \A k \in 1 .. Len(s) : Group(s[k])
      /\ \A k \in 2 .. Len(s) : Len(s[k]) > 1 => s[k][1].braces
  BY DEF Groups
<1>2. /\ C \in Seq(Seq(Lines)) /\ Len(C) = Len(s) - 1 /\ \A k \in 1 .. (Len(s) - 1) : C[k] = s[1 + k]
      /\ g \in Seq(Lines)
      /\ F \in Seq(Lines)
      /\ FlattenSeq(s) = FlattenSeq(SubSeq(s, 1, 1 - 1)) \o (g \o F)
  <2>1. 1 + 1 = 2
    OBVIOUS
  <2>2. GroupsSplit(s, 1)
    BY <1>1, SplitGroups
  <2> QED BY <2>1, <2>2 DEF GroupsSplit
<1>3. FlattenSeq(s) = g \o F
  <2>1. SubSeq(s, 1, 1 - 1) = <<>>
    BY <1>1
  <2>2. g \o F \in Seq(Lines)
    BY <1>2, JoinedLines
  <2>3. \A q \in Seq(Lines) : <<>> \o q = q
    OBVIOUS
  <2>4. FlattenSeq(<<>>) = <<>>
    BY ONLY FlattenSmall
  <2>5. FlattenSeq(s) = <<>> \o (g \o F)
    BY ONLY <1>2, <2>1, <2>4
  <2> QED BY ONLY <2>2, <2>3, <2>5
<1>4. Tail(s) = C
  BY <1>1
<1>5. IsTree(g) /\ Exact(g)
  BY <1>1 DEF Group
<1> DEFINE b == <<x>>
<1>6. /\ Forest(D, 1) /\ x \in Lines /\ g = b \o D /\ Tail(g) = D
  BY <1>5, ForestOfTree
<1>7. Exact(D)
  <2> HIDE DEF g
  <2>1. Trim(g)
    <3>1. \A k \in 2 .. Len(g) : k \in 1 .. Len(g)
      BY <1>2, LinesOf
    <3> QED BY <1>5, <3>1 DEF Exact, Trim
  <2> QED BY <1>5, <2>1, ExactAfter
<1>8. Forest(F, 0) /\ Exact(F)
  <2>1. ASSUME NEW k \in 1 .. Len(C) PROVE Group(C[k]) /\ (Len(C[k]) > 1 => C[k][1].braces)
    <3>1. k \in 1 .. (Len(s) - 1) /\ 1 + k \in 1 .. Len(s) /\ 1 + k \in 2 .. Len(s)
      BY <1>1, <1>2
    <3> QED BY <1>1, <1>2, <3>1
  <2> QED BY <1>2, <2>1, FlattenGroups
<1>9. CharsOf(x.word) = 0 /\ x.slots \in Nat
  BY <1>6, LineFields
<1> HIDE DEF C, g, x, D, F
<1>10. D \in Seq(Lines) /\ b \in Seq(Lines) /\ Len(b) = 1 /\ SlotsOf(b) = x.slots /\ CharsIn(b) = 0
  <2>1. CharsOf(x.word) = 0
    BY <1>9
  <2>2. D \in Seq(Lines)
    BY <1>6 DEF Forest
  <2>3. b \in Seq(Lines) /\ Len(b) = 1
    BY <1>6
  <2>4. SlotsOf(<<x>>) = x.slots /\ CharsIn(<<x>>) = CharsOf(x.word)
    BY <1>6, SizesSmall
  <2> QED BY <2>1, <2>2, <2>3, <2>4
<1> HIDE DEF b
<1>11. Exact(parsed)
  <2>1. D # <<>> /\ F # <<>> => F[1].depth <= D[Len(D)].depth
    <3>1. D # <<>> => D[Len(D)].depth \in Nat
      BY <1>10, LastIn
    <3>2. F # <<>> => F[1].depth = 0
      BY <1>8 DEF Forest
    <3> QED BY <3>1, <3>2
  <2> QED BY <1>2, <1>7, <1>8, <1>10, <2>1, ExactConcat
<1>12. TwoSizes(D, F)
  BY <1>2, <1>10, SizesTwo
<1>13. FlattenSeq(s) = b \o (D \o F)
  <2>1. (b \o D) \o F = b \o (D \o F)
    <3>1. b \in Seq(Lines) /\ D \in Seq(Lines) /\ F \in Seq(Lines)
      BY <1>2, <1>10
    <3> HIDE DEF parsed
    <3> QED BY ONLY <3>1, Associative
  <2> QED BY <1>3, <1>6, <2>1, Zenon
<1>14. parsed \in Seq(Lines)
  BY <1>12 DEF TwoSizes
<1> HIDE DEF parsed
<1>15. TwoSizes(b, parsed)
  BY <1>10, <1>14, SizesTwo
<1>16. FlattenSeq(s) = b \o parsed
  BY <1>13 DEF parsed
<1>17. /\ b \o parsed \in Seq(Lines) /\ Len(b \o parsed) = Len(b) + Len(parsed)
       /\ SlotsOf(b \o parsed) = SlotsOf(b) + SlotsOf(parsed) /\ CharsIn(b \o parsed) = CharsIn(b) + CharsIn(parsed)
       /\ Len(parsed) \in Nat /\ SlotsOf(parsed) \in Nat /\ CharsIn(parsed) \in Nat
  BY <1>15 DEF TwoSizes
<1>18. /\ Len(FlattenSeq(s)) = Len(parsed) + 1
       /\ SlotsOf(FlattenSeq(s)) = SlotsOf(parsed) + x.slots
       /\ CharsIn(FlattenSeq(s)) = CharsIn(parsed)
  <2>1. Len(b \o parsed) = Len(parsed) + 1
    BY ONLY <1>10, <1>17
  <2>2. SlotsOf(b \o parsed) = SlotsOf(parsed) + x.slots
    BY ONLY <1>9, <1>10, <1>17
  <2>3. CharsIn(b \o parsed) = CharsIn(parsed)
    BY ONLY <1>10, <1>17
  <2> QED BY <1>16, <2>1, <2>2, <2>3, Zenon
<1>19. parsed = Tail(s[1]) \o FlattenSeq(Tail(s))
  BY <1>4, <1>6 DEF parsed, F, g
<1> QED BY <1>9, <1>11, <1>14, <1>16, <1>17, <1>18, <1>19 DEF x, g

(* The lines of the tree and of what is parsed.                            *)
AllLinesAre(t, s) ==
  LET F == FlattenSeq(s)
      lines == t \o F
  IN  /\ F \in Seq(Lines) /\ lines \in Seq(Lines)
      /\ Len(lines) = Len(t) + Len(F) /\ Len(t) \in Nat /\ Len(F) \in Nat /\ Len(s) \in Nat
      /\ SlotsOf(lines) = SlotsOf(t) + SlotsOf(F) /\ CharsIn(lines) = CharsIn(t) + CharsIn(F)
      /\ SlotsOf(t) \in Nat /\ SlotsOf(F) \in Nat /\ CharsIn(t) \in Nat /\ CharsIn(F) \in Nat
      /\ Cardinality({i \in DOMAIN lines : lines[i].depth > 0}) = Len(t) + Len(F) - (1 + Len(s))
      /\ Cardinality({i \in DOMAIN s : i > 1}) = IF s = <<>> THEN 0 ELSE Len(s) - 1
      /\ Len(t) + Len(F) >= 1 + Len(s)

(* The tree's lines and the parsed nodes' together: how many lie deeper    *)
(* than the roots.                                                         *)
LEMMA AllLines ==
  ASSUME NEW t, IsTree(t), NEW s, Groups(s)
  PROVE  AllLinesAre(t, s)
<1> DEFINE F == FlattenSeq(s)
           lines == t \o F
<1>1. s \in Seq(Seq(Lines)) /\ Len(s) \in Nat /\ DOMAIN s = 1 .. Len(s)
  BY DEF Groups
<1>2. F \in Seq(Lines) /\ Count(F, -1) = Len(s)
  <2>1. \A k \in 1 .. Len(s) : IsTree(s[k])
    BY DEF Groups, Group
  <2> QED BY <1>1, <2>1, FlattenTrees
<1> HIDE DEF F
<1>3. t \in Seq(Lines) /\ Count(t, -1) = 1 /\ Inside(t, -1)
  <2>1. \A v \in Nat : v > -1
    OBVIOUS
  <2>2. t \in Seq(Lines)
    BY TreeLines
  <2> QED BY <2>1, <2>2, RootsOfTree, LinesOf DEF Inside
<1>4. Count(lines, -1) = 1 + Len(s)
  <2>1. -1 \in Int
    OBVIOUS
  <2> QED BY <1>2, <1>3, <2>1, CountConcat
<1>5. TwoSizes(t, F)
  BY <1>2, <1>3, SizesTwo
<1>6. /\ lines \in Seq(Lines)
      /\ Len(lines) = Len(t) + Len(F) /\ Len(t) \in Nat /\ Len(F) \in Nat
      /\ SlotsOf(lines) = SlotsOf(t) + SlotsOf(F) /\ CharsIn(lines) = CharsIn(t) + CharsIn(F)
      /\ SlotsOf(t) \in Nat /\ SlotsOf(F) \in Nat /\ CharsIn(t) \in Nat /\ CharsIn(F) \in Nat
  BY <1>5 DEF TwoSizes
<1> HIDE DEF lines
<1>7. Cardinality({i \in DOMAIN lines : lines[i].depth > 0}) = Len(lines) - Count(lines, -1)
  BY <1>6, DeepLines
<1>8. Cardinality({i \in DOMAIN s : i > 1}) = IF s = <<>> THEN 0 ELSE Len(s) - 1
  <2>1. {i \in DOMAIN s : i > 1} = 2 .. Len(s)
    BY <1>1
  <2>2. Cardinality(2 .. Len(s)) = IF 2 > Len(s) THEN 0 ELSE Len(s) - 2 + 1
    BY <1>1, FS_Interval
  <2>3. s = <<>> <=> Len(s) = 0
    BY <1>1
  <2>4. Len(s) # 0 => (IF 2 > Len(s) THEN 0 ELSE Len(s) - 2 + 1) = Len(s) - 1
    BY <1>1
  <2>5. Len(s) = 0 => (IF 2 > Len(s) THEN 0 ELSE Len(s) - 2 + 1) = 0
    OBVIOUS
  <2> QED BY <2>1, <2>2, <2>3, <2>4, <2>5, Zenon
<1>9. Len(lines) >= Count(lines, -1)
  <2>1. Cardinality({i \in DOMAIN lines : lines[i].depth > 0}) \in Nat
    <3>1. DOMAIN lines = 1 .. Len(lines) /\ Len(lines) \in Nat
      BY <1>6, LinesOf
    <3>2. IsFiniteSet(DOMAIN lines)
      BY <3>1, FS_Interval
    <3> QED BY <3>2, FS_Subset, FS_CardinalityType
  <2> QED BY <1>1, <1>4, <1>6, <1>7, <2>1
<1>10. Len(lines) - Count(lines, -1) = Len(t) + Len(F) - (1 + Len(s)) /\ Len(t) + Len(F) >= 1 + Len(s)
  BY <1>4, <1>6, <1>9
<1>11. Cardinality({i \in DOMAIN lines : lines[i].depth > 0}) = Len(t) + Len(F) - (1 + Len(s))
  BY <1>7, <1>10, Zenon
<1> QED BY <1>1, <1>2, <1>6, <1>8, <1>10, <1>11, Zenon DEF F, lines, AllLinesAre

-----------------------------------------------------------------------------
(* Texts whose braces match.                                               *)

Braces == {"{", "}"}
Tokens == Words \cup Braces \cup {"bad"}
Nest(x) == IF x = "{" THEN 1 ELSE IF x = "}" THEN -1 ELSE 0

(* Nested runs from n to m along the tokens of s.                          *)
Nests(f, s, n, m) ==
  /\ f \in [0 .. Len(s) -> Nat] /\ f[0] = n /\ f[Len(s)] = m
  /\ \A k \in 1 .. Len(s) : f[k] = f[k - 1] + Nest(s[k])

(* The text s, parsed where n objects are open, leaves m open.             *)
Balanced(s, n, m) == s \in Seq(Words \cup Braces) /\ \E f : Nests(f, s, n, m)

(* Words, braces, the error and the end are told apart.                    *)
LEMMA TokensDiffer ==
  /\ \A w \in Words : w # "{" /\ w # "}" /\ w # "bad" /\ w # "end" /\ w # ""
  /\ "{" # "}" /\ "{" # "bad" /\ "}" # "bad" /\ "{" # "end" /\ "}" # "end" /\ "bad" # "end"
<1>1. {"{", "}", "bad", "end", ""} \cap Words = {}
  BY ConstantsAssumption
<1> QED BY <1>1

(* What each token does to the nesting.                                    *)
LEMMA NestIs ==
  /\ Nest("{") = 1 /\ Nest("}") = -1 /\ \A w \in Words : Nest(w) = 0
BY TokensDiffer DEF Nest

(* Texts that lead from one nesting to the next compose.                   *)
LEMMA BalancedConcat ==
  ASSUME NEW s, NEW t, NEW n, NEW m, NEW k, Balanced(s, n, m), Balanced(t, m, k)
  PROVE  Balanced(s \o t, n, k)
<1> DEFINE X == Words \cup Braces
           u == s \o t
           a == Len(s)
           b == Len(t)
<1>1. s \in Seq(X) /\ t \in Seq(X)
  BY DEF Balanced
<1> HIDE DEF X
<1>2. /\ u \in Seq(X) /\ Len(u) = a + b /\ a \in Nat /\ b \in Nat
      /\ \A i \in 1 .. a : u[i] = s[i]
      /\ \A i \in 1 .. b : u[a + i] = t[i]
  <2>1. ThingsJoined(X, s, t)
    BY <1>1, JoinedThings
  <2> QED BY <2>1 DEF ThingsJoined
<1>3. PICK f : Nests(f, s, n, m)
  BY DEF Balanced
<1>4. PICK g : Nests(g, t, m, k)
  BY DEF Balanced
<1>5. /\ f \in [0 .. a -> Nat] /\ f[0] = n /\ f[a] = m
      /\ \A i \in 1 .. a : f[i] = f[i - 1] + Nest(s[i])
  BY <1>3 DEF Nests
<1>6. /\ g \in [0 .. b -> Nat] /\ g[0] = m /\ g[b] = k
      /\ \A i \in 1 .. b : g[i] = g[i - 1] + Nest(t[i])
  BY <1>4 DEF Nests
<1> HIDE DEF u, a, b
<1> DEFINE h == [i \in 0 .. (a + b) |-> IF i <= a THEN f[i] ELSE g[i - a]]
<1>7. /\ h \in [0 .. (a + b) -> Nat]
      /\ \A i \in 0 .. a : h[i] = f[i]
      /\ \A i \in 0 .. b : h[a + i] = g[i]
  <2>1. ASSUME NEW i \in 0 .. (a + b) PROVE (IF i <= a THEN f[i] ELSE g[i - a]) \in Nat
    <3>1. i <= a => i \in 0 .. a
      BY <1>2
    <3>2. ~(i <= a) => i - a \in 0 .. b
      BY <1>2
    <3> QED BY <1>5, <1>6, <3>1, <3>2
  <2>2. ASSUME NEW i \in 0 .. a PROVE h[i] = f[i]
    <3>1. i \in 0 .. (a + b) /\ i <= a
      BY <1>2
    <3> QED BY <3>1
  <2>3. ASSUME NEW i \in 0 .. b PROVE h[a + i] = g[i]
    <3>1. a + i \in 0 .. (a + b) /\ (a + i) - a = i /\ (a + i <= a => i = 0 /\ a + i = a)
      BY <1>2
    <3> QED BY <1>5, <1>6, <3>1
  <2> QED BY <2>1, <2>2, <2>3
<1> HIDE DEF h
<1>8. ASSUME NEW i \in 1 .. (a + b) PROVE h[i] = h[i - 1] + Nest(u[i])
  <2>1. CASE i <= a
    <3>1. i \in 1 .. a /\ i \in 0 .. a /\ i - 1 \in 0 .. a
      BY <1>2, <2>1
    <3> QED BY <1>2, <1>5, <1>7, <3>1
  <2>2. CASE i > a
    <3>1. i - a \in 1 .. b /\ i - a \in 0 .. b /\ (i - a) - 1 \in 0 .. b
          /\ a + (i - a) = i /\ a + ((i - a) - 1) = i - 1
      BY <1>2, <2>2
    <3>2. u[i] = t[i - a] /\ h[i] = g[i - a] /\ h[i - 1] = g[(i - a) - 1]
      BY <1>2, <1>7, <3>1
    <3> QED BY <1>6, <3>1, <3>2
  <2> QED BY <1>2, <2>1, <2>2
<1>9. h[0] = n /\ h[a + b] = k
  <2>1. 0 \in 0 .. a /\ b \in 0 .. b
    BY <1>2
  <2> QED BY <1>5, <1>6, <1>7, <2>1
<1>10. Nests(h, u, n, k)
  BY <1>2, <1>7, <1>8, <1>9 DEF Nests
<1> QED BY <1>2, <1>10 DEF Balanced, X, u

(* The empty text, a word and an opening brace.                            *)
LEMMA BalancedSmall ==
  /\ \A n \in Nat : Balanced(<<>>, n, n)
  /\ \A n \in Nat : \A w \in Words : Balanced(<<w>>, n, n)
  /\ \A n \in Nat : Balanced(<<"{">>, n, n + 1)
<1>1. ASSUME NEW n \in Nat PROVE Balanced(<<>>, n, n)
  <2> DEFINE f == [i \in 0 .. 0 |-> n]
  <2>1. Nests(f, <<>>, n, n)
    <3>1. Len(<<>>) = 0 /\ 1 .. 0 = {} /\ 0 \in 0 .. 0
      OBVIOUS
    <3> QED BY <3>1 DEF Nests
  <2>2. <<>> \in Seq(Words \cup Braces)
    OBVIOUS
  <2> QED BY <2>1, <2>2 DEF Balanced
<1>2. ASSUME NEW n \in Nat, NEW w \in Words \cup Braces, n + Nest(w) \in Nat
      PROVE Balanced(<<w>>, n, n + Nest(w))
  <2> DEFINE s == <<w>>
             f == [i \in 0 .. 1 |-> IF i = 0 THEN n ELSE n + Nest(w)]
  <2>1. s \in Seq(Words \cup Braces) /\ Len(s) = 1 /\ s[1] = w
    OBVIOUS
  <2>2. f \in [0 .. 1 -> Nat] /\ f[0] = n /\ f[1] = n + Nest(w)
    BY <1>2
  <2> HIDE DEF s, f
  <2>3. \A k \in 1 .. 1 : k = 1 /\ k - 1 = 0
    OBVIOUS
  <2>4. \A k \in 1 .. 1 : f[k] = f[k - 1] + Nest(s[k])
    BY <2>1, <2>2, <2>3
  <2>5. Nests(f, s, n, n + Nest(w))
    BY <2>1, <2>2, <2>4 DEF Nests
  <2> QED BY <2>1, <2>5 DEF Balanced, s
<1>3. ASSUME NEW n \in Nat, NEW w \in Words PROVE Balanced(<<w>>, n, n)
  <2>1. Nest(w) = 0 /\ w \in Words \cup Braces
    BY NestIs
  <2>2. n + Nest(w) = n
    BY <2>1
  <2>3. Balanced(<<w>>, n, n + Nest(w))
    BY <1>2, <2>1, <2>2
  <2> QED BY <2>2, <2>3, Zenon
<1>4. ASSUME NEW n \in Nat PROVE Balanced(<<"{">>, n, n + 1)
  <2> DEFINE w == "{"
  <2>1. Nest(w) = 1 /\ w \in Words \cup Braces
    BY NestIs DEF Braces
  <2> HIDE DEF w
  <2>2. n + Nest(w) = n + 1 /\ n + Nest(w) \in Nat
    BY <2>1
  <2>3. Balanced(<<w>>, n, n + Nest(w))
    BY <1>2, <2>1, <2>2
  <2>4. Balanced(<<w>>, n, n + 1)
    BY <2>2, <2>3, Zenon
  <2> QED BY <2>4 DEF w
<1> QED BY <1>1, <1>3, <1>4

(* As many closing braces as there are levels to close.                    *)
LEMMA BalancedCloses ==
  ASSUME NEW n \in Nat, NEW m \in Nat, m <= n
  PROVE  Balanced([i \in 1 .. (n - m) |-> "}"], n, m)
<1> DEFINE s == [i \in 1 .. (n - m) |-> "}"]
           k == n - m
           f == [i \in 0 .. k |-> n - i]
<1>1. k \in Nat /\ k = n - m
  OBVIOUS
<1>2. s \in Seq(Words \cup Braces) /\ Len(s) = k /\ \A i \in 1 .. k : s[i] = "}"
  <2> DEFINE X == Words \cup Braces
             w == "}"
  <2>1. w \in X
    BY DEF Braces
  <2> HIDE DEF w, X, k
  <2>2. \A q \in [1 .. k -> X] : q \in Seq(X) /\ Len(q) = k
    BY <1>1
  <2>3. [i \in 1 .. k |-> w] \in [1 .. k -> X] /\ \A i \in 1 .. k : [j \in 1 .. k |-> w][i] = w
    BY <2>1
  <2>4. [i \in 1 .. k |-> w] \in Seq(X) /\ Len([i \in 1 .. k |-> w]) = k
    BY <2>2, <2>3
  <2> QED BY <2>3, <2>4 DEF w, X, k
<1>3. /\ f \in [0 .. k -> Nat] /\ f[0] = n /\ f[k] = m
      /\ \A i \in 0 .. k : f[i] = n - i
  BY <1>1
<1> HIDE DEF s, k, f
<1>4. ASSUME NEW i \in 1 .. k PROVE f[i] = f[i - 1] + Nest(s[i])
  <2>1. Nest(s[i]) = -1
    BY <1>2, NestIs
  <2>2. i \in 0 .. k /\ i - 1 \in 0 .. k
    BY <1>1
  <2> QED BY <1>1, <1>3, <2>1, <2>2
<1>5. Nests(f, s, n, m)
  BY <1>2, <1>3, <1>4 DEF Nests
<1> QED BY <1>2, <1>5 DEF Balanced, s

(* What is left of a sequence after its first element.                     *)
RestOf(X, q) ==
  /\ SubSeq(q, 2, Len(q)) \in Seq(X) /\ Len(SubSeq(q, 2, Len(q))) = Len(q) - 1
  /\ \A i \in 1 .. (Len(q) - 1) : SubSeq(q, 2, Len(q))[i] = q[1 + i]
  /\ q[1] \in X

(* The members of a list after its first.                                  *)
LEMMA OfRest ==
  ASSUME NEW X, NEW q \in Seq(X), Len(q) >= 1
  PROVE  RestOf(X, q)
<1>1. Len(q) \in Nat /\ q[1] \in X
  OBVIOUS
<1>2. 2 \in 1 .. (Len(q) + 1) /\ Len(q) \in 1 .. Len(q)
  BY <1>1
<1>3. /\ SubSeq(q, 2, Len(q)) \in Seq(X)
      /\ Len(SubSeq(q, 2, Len(q))) = IF 2 <= Len(q) THEN Len(q) - 2 + 1 ELSE 0
      /\ \A i \in 1 .. (Len(q) - 2 + 1) : SubSeq(q, 2, Len(q))[i] = q[2 + i - 1]
  BY <1>2, SubSeqProperties
<1>4. (IF 2 <= Len(q) THEN Len(q) - 2 + 1 ELSE 0) = Len(q) - 1 /\ Len(q) - 2 + 1 = Len(q) - 1
  <2> DEFINE n == Len(q)
  <2>1. n \in Nat /\ n >= 1
    BY <1>1
  <2> HIDE DEF n
  <2>2. (IF 2 <= n THEN n - 2 + 1 ELSE 0) = n - 1 /\ n - 2 + 1 = n - 1
    BY <2>1
  <2> QED BY <2>2 DEF n
<1>5. \A i \in 1 .. (Len(q) - 1) : 2 + i - 1 = 1 + i
  BY <1>1
<1> QED BY <1>1, <1>3, <1>4, <1>5 DEF RestOf

(* What is left of a text after its first token.                           *)
LEMMA BalancedRest ==
  ASSUME NEW s, NEW n \in Nat, NEW m, Balanced(s, n, m), Len(s) >= 1
  PROVE  /\ n + Nest(s[1]) \in Nat /\ s[1] \in Words \cup Braces
         /\ Balanced(SubSeq(s, 2, Len(s)), n + Nest(s[1]), m)
<1> DEFINE X == Words \cup Braces
           r == SubSeq(s, 2, Len(s))
           l == Len(s)
<1>1. s \in Seq(X) /\ l \in Nat /\ l >= 1
  <2>1. s \in Seq(X)
    BY DEF Balanced
  <2> QED BY <2>1
<1>2. PICK f : Nests(f, s, n, m)
  BY DEF Balanced
<1> HIDE DEF X
<1>3. r \in Seq(X) /\ Len(r) = l - 1 /\ (\A i \in 1 .. (l - 1) : r[i] = s[1 + i]) /\ s[1] \in X
  <2>1. RestOf(X, s)
    BY <1>1, OfRest
  <2> QED BY <1>1, <2>1 DEF RestOf
<1>4. /\ f \in [0 .. l -> Nat] /\ f[0] = n /\ f[l] = m
      /\ \A i \in 1 .. l : f[i] = f[i - 1] + Nest(s[i])
  BY <1>2 DEF Nests
<1> HIDE DEF r, l
<1> DEFINE g == [i \in 0 .. (l - 1) |-> f[1 + i]]
<1>5. f[1] = n + Nest(s[1]) /\ f[1] \in Nat
  <2>1. 1 \in 1 .. l /\ 1 \in 0 .. l /\ 1 - 1 = 0
    BY <1>1
  <2> QED BY <1>4, <2>1
<1>6. g \in [0 .. (l - 1) -> Nat] /\ \A i \in 0 .. (l - 1) : g[i] = f[1 + i]
  <2>1. \A i \in 0 .. (l - 1) : 1 + i \in 0 .. l
    BY <1>1
  <2>2. \A i \in 0 .. (l - 1) : f[1 + i] \in Nat
    BY <1>4, <2>1
  <2> QED BY <2>2
<1> HIDE DEF g
<1>7. g[0] = f[1] /\ g[l - 1] = m
  <2>1. 0 \in 0 .. (l - 1) /\ l - 1 \in 0 .. (l - 1) /\ 1 + 0 = 1 /\ 1 + (l - 1) = l
    BY <1>1
  <2> QED BY <1>4, <1>6, <2>1
<1>8. ASSUME NEW i \in 1 .. (l - 1) PROVE g[i] = g[i - 1] + Nest(r[i])
  <2>1. 1 + i \in 1 .. l /\ i \in 0 .. (l - 1) /\ i - 1 \in 0 .. (l - 1) /\ 1 + (i - 1) = (1 + i) - 1
    BY <1>1
  <2>2. g[i] = f[1 + i] /\ g[i - 1] = f[(1 + i) - 1] /\ r[i] = s[1 + i]
    BY <1>3, <1>6, <2>1
  <2> QED BY <1>4, <2>1, <2>2
<1>9. Nests(g, r, n + Nest(s[1]), m)
  BY <1>3, <1>5, <1>6, <1>7, <1>8 DEF Nests
<1> QED BY <1>3, <1>5, <1>9 DEF Balanced, X, r, l

(* An empty text changes no nesting.                                       *)
LEMMA BalancedEnd ==
  ASSUME NEW s, NEW n, NEW m, Balanced(s, n, m), Len(s) = 0
  PROVE  n = m
BY DEF Balanced, Nests

Ends(n) == [k \in 1 .. n |-> "}"]

(* The text of a line of depth n, before one of depth m.                   *)
Piece(w, b, n, m) ==
  (IF w = "" THEN <<>> ELSE <<w>>)
    \o (IF b THEN <<"{">> ELSE <<>>)
    \o Ends(n + (IF b THEN 1 ELSE 0) - m)

(* The text of one node leads from its nesting to that of the next.        *)
LEMMA PieceBalanced ==
  ASSUME NEW w \in Named, NEW b \in BOOLEAN, NEW n \in Nat, NEW m \in Nat,
         m <= n + (IF b THEN 1 ELSE 0)
  PROVE  Balanced(Piece(w, b, n, m), n, m)
<1> DEFINE one == IF w = "" THEN <<>> ELSE <<w>>
           two == IF b THEN <<"{">> ELSE <<>>
           q == IF b THEN 1 ELSE 0
           three == Ends(n + q - m)
<1>1. Balanced(one, n, n)
  <2>1. w \in Words => Balanced(<<w>>, n, n)
    BY BalancedSmall
  <2>2. Balanced(<<>>, n, n)
    BY BalancedSmall
  <2>3. w # "" => w \in Words
    BY DEF Named
  <2> QED BY <2>1, <2>2, <2>3, Zenon
<1>2. Balanced(two, n, n + q)
  <2>1. CASE b
    <3>1. two = <<"{">> /\ n + q = n + 1
      BY <2>1
    <3>2. Balanced(<<"{">>, n, n + 1)
      BY BalancedSmall
    <3> QED BY <3>1, <3>2, Zenon
  <2>2. CASE ~b
    <3>1. two = <<>> /\ n + q = n
      BY <2>2
    <3>2. Balanced(<<>>, n, n)
      BY BalancedSmall
    <3> QED BY <3>1, <3>2, Zenon
  <2> QED BY <2>1, <2>2
<1>3. n + q \in Nat /\ m <= n + q
  OBVIOUS
<1>4. Balanced(three, n + q, m)
  <2>1. ASSUME NEW v \in Nat, m <= v PROVE Balanced(Ends(v - m), v, m)
    BY <2>1, BalancedCloses DEF Ends
  <2> HIDE DEF q
  <2>2. Balanced(Ends((n + q) - m), n + q, m)
    BY <1>3, <2>1
  <2>3. (n + q) - m = n + (q - m)
    BY <1>3 DEF q
  <2> QED BY <2>2, <2>3, Zenon
<1> HIDE DEF one, two, three
<1>5. Balanced(one \o two, n, n + q)
  BY <1>1, <1>2, BalancedConcat
<1>6. Balanced((one \o two) \o three, n, m)
  BY <1>4, <1>5, BalancedConcat
<1> QED BY ONLY <1>6 DEF Piece, one, two, three, q

(* The text of a forest has as many objects closed as were opened, and     *)
(* none closed before.                                                     *)
LEMMA TextBalanced ==
  ASSUME NEW d \in Nat, NEW L, Forest(L, d)
  PROVE  Balanced(generateText(L), 0, 0)
<1> DEFINE l == Len(L)
           X == Words \cup Braces
           E == [i \in 0 .. l |-> IF i = 0 THEN 0 ELSE NextDepth(L, i) - d]
           s == [i \in DOMAIN L |->
                  (IF L[i].word = "" THEN <<>> ELSE <<L[i].word>>)
                    \o (IF L[i].braces THEN <<"{">> ELSE <<>>)
                    \o [k \in 1 .. ClosedAfter(L, i) |-> "}"]]
<1>1. /\ L \in Seq(Lines) /\ l \in Nat
      /\ \A i \in 1 .. l : L[i].depth \in Nat /\ L[i].depth >= d
      /\ l > 0 => L[1].depth = d
  <2>1. d \in Int
    OBVIOUS
  <2> QED BY <2>1, ForestLines
<1>2. /\ DOMAIN L = 1 .. l
      /\ \A i \in 1 .. l : L[i].word \in Named /\ L[i].braces \in BOOLEAN
  BY <1>1, LinesOf
<1>3. ASSUME NEW i \in 1 .. l
      PROVE  /\ NextDepth(L, i) \in Nat /\ NextDepth(L, i) >= d
             /\ NextDepth(L, i) <= L[i].depth + (IF L[i].braces THEN 1 ELSE 0)
             /\ i < l => NextDepth(L, i) = L[i + 1].depth
             /\ i = l => NextDepth(L, i) = d
  <2>1. CASE i < l
    <3>1. i + 1 \in 1 .. l /\ i + 1 \in 2 .. l /\ (i + 1) - 1 = i
      BY <1>1, <2>1
    <3>2. NextDepth(L, i) = L[i + 1].depth
      BY <2>1 DEF NextDepth
    <3>3. L[i + 1].depth <= L[(i + 1) - 1].depth + (IF L[(i + 1) - 1].braces THEN 1 ELSE 0)
      BY <3>1 DEF Forest
    <3>4. L[i + 1].depth <= L[i].depth + (IF L[i].braces THEN 1 ELSE 0)
      BY <3>1, <3>3, Zenon
    <3> QED BY <1>1, <2>1, <3>1, <3>2, <3>4
  <2>2. CASE ~(i < l)
    <3>1. NextDepth(L, i) = L[1].depth /\ l > 0
      BY <1>1, <2>2 DEF NextDepth
    <3> DEFINE c == IF L[i].braces THEN 1 ELSE 0
    <3>2. c \in Nat
      OBVIOUS
    <3> HIDE DEF c
    <3>3. NextDepth(L, i) = d /\ d <= L[i].depth + c
      BY <1>1, <3>1, <3>2
    <3> QED BY <1>1, <2>2, <3>3 DEF c
  <2> QED BY <2>1, <2>2
<1>4. /\ E[0] = 0 /\ E[l] = 0
      /\ \A i \in 0 .. l : E[i] \in Nat
      /\ \A i \in 1 .. l : E[i - 1] = L[i].depth - d /\ E[i] = NextDepth(L, i) - d
  <2>1. \A i \in 1 .. l : E[i] = NextDepth(L, i) - d /\ E[i] \in Nat
    BY <1>1, <1>3
  <2>2. E[0] = 0
    BY <1>1
  <2>3. ASSUME NEW i \in 1 .. l PROVE E[i - 1] = L[i].depth - d
    <3>1. CASE i = 1
      BY <1>1, <2>2, <3>1
    <3>2. CASE i # 1
      <4>1. i - 1 \in 1 .. l /\ i - 1 < l /\ (i - 1) + 1 = i
        BY <1>1, <3>2
      <4>2. NextDepth(L, i - 1) = L[(i - 1) + 1].depth
        BY <1>3, <4>1
      <4> QED BY <2>1, <4>1, <4>2
    <3> QED BY <3>1, <3>2
  <2>4. E[l] = 0
    <3>1. CASE l = 0
      BY <2>2, <3>1
    <3>2. CASE l # 0
      <4>1. l \in 1 .. l
        BY <1>1, <3>2
      <4> QED BY <1>3, <2>1, <4>1
    <3> QED BY <3>1, <3>2
  <2>5. ASSUME NEW i \in 0 .. l PROVE E[i] \in Nat
    <3>1. i = 0 \/ i \in 1 .. l
      BY <1>1
    <3> QED BY <2>1, <2>2, <3>1
  <2> HIDE DEF E
  <2> QED BY <2>1, <2>2, <2>3, <2>4, <2>5
<1> HIDE DEF E
<1>5. ASSUME NEW i \in 1 .. l PROVE Balanced(s[i], E[i - 1], E[i])
  <2> DEFINE w == L[i].word
             b == L[i].braces
             n == E[i - 1]
             m == E[i]
             c == IF b THEN 1 ELSE 0
             dp == L[i].depth
             nd == NextDepth(L, i)
  <2>1. n \in Nat /\ m \in Nat /\ n = dp - d /\ m = nd - d /\ dp \in Nat /\ nd \in Nat
        /\ nd <= dp + c /\ c \in 0 .. 1
    <3>1. i - 1 \in 0 .. l /\ i \in 0 .. l
      BY <1>1
    <3> QED BY <1>1, <1>3, <1>4, <3>1
  <2>2. s[i] = (IF w = "" THEN <<>> ELSE <<w>>) \o (IF b THEN <<"{">> ELSE <<>>)
                 \o Ends(dp + c - nd)
    BY <1>2 DEF ClosedAfter, Ends
  <2>3. w \in Named /\ b \in BOOLEAN
    BY <1>2
  <2> HIDE DEF w, b, n, m, dp, nd
  <2>4. m <= n + c /\ n + c - m = dp + c - nd
    <3> HIDE DEF c
    <3> QED BY <2>1
  <2>5. Balanced(Piece(w, b, n, m), n, m)
    BY <2>1, <2>3, <2>4, PieceBalanced
  <2>6. s[i] = Piece(w, b, n, m)
    BY <2>2, <2>4 DEF Piece
  <2>7. Balanced(s[i], n, m)
    BY <2>5, <2>6, Zenon
  <2> QED BY <2>7 DEF n, m
<1>6. s \in Seq(Seq(X)) /\ Len(s) = l
  <2>1. \A i \in 1 .. l : s[i] \in Seq(X)
    BY <1>5 DEF Balanced
  <2>2. DOMAIN s = 1 .. l
    BY <1>2
  <2> DEFINE r == [i \in 1 .. l |-> s[i]]
  <2>3. s = r
    BY <1>2
  <2>4. r \in [1 .. l -> Seq(X)]
    BY <2>1
  <2> HIDE DEF r, s, l
  <2>5. \A q \in [1 .. l -> Seq(X)] : q \in Seq(Seq(X)) /\ Len(q) = l
    BY <1>1
  <2> QED BY <2>3, <2>4, <2>5
<1>7. generateText(L) = FlattenSeq(s)
  BY DEF generateText
<1> HIDE DEF s
<1>8. PICK f : Joinings(f, s, X) /\ FlattenSeq(s) = f[Len(s)]
  BY <1>6, FlattenRecursion
<1>9. /\ f[0] = <<>>
      /\ \A k \in 1 .. l : f[k] = f[k - 1] \o s[k]
  BY <1>6, <1>8 DEF Joinings
<1> DEFINE T == {k \in 0 .. l : Balanced(f[k], 0, E[k])}
<1>10. 0 \in T
  <2>1. Balanced(<<>>, 0, 0)
    BY BalancedSmall
  <2>2. Balanced(f[0], 0, E[0])
    BY <1>4, <1>9, <2>1, Zenon
  <2> QED BY <1>1, <2>2
<1>11. ASSUME NEW m \in 0 .. (l - 1), m \in T PROVE m + 1 \in T
  <2>1. m + 1 \in 1 .. l /\ (m + 1) - 1 = m /\ m + 1 \in 0 .. l
    BY <1>1
  <2>2. Balanced(s[m + 1], E[(m + 1) - 1], E[m + 1]) /\ f[m + 1] = f[(m + 1) - 1] \o s[m + 1]
    BY <1>5, <1>9, <2>1
  <2>3. Balanced(s[m + 1], E[m], E[m + 1]) /\ f[m + 1] = f[m] \o s[m + 1]
    BY <2>1, <2>2, Zenon
  <2>4. Balanced(f[m], 0, E[m])
    BY <1>11
  <2>5. Balanced(f[m] \o s[m + 1], 0, E[m + 1])
    BY <2>3, <2>4, BalancedConcat
  <2>6. Balanced(f[m + 1], 0, E[m + 1])
    BY <2>3, <2>5, Zenon
  <2> QED BY <2>1, <2>6
<1>12. 0 .. l \subseteq T
  <2> HIDE DEF T, l
  <2> QED BY <1>1, <1>10, <1>11, IntervalInduction
<1>13. Balanced(f[l], 0, E[l])
  BY <1>1, <1>12
<1>14. f[l] = generateText(L) /\ E[l] = 0
  BY <1>4, <1>6, <1>7, <1>8
<1> QED BY <1>13, <1>14, Zenon

-----------------------------------------------------------------------------
(* The inductive invariant.                                                *)

Held == [nodes : Int, slots : Int, chars : Int]

(* The tree: no list of children is fuller than its block, and as long as  *)
(* all edits are of the root's children, only nodes with children have a   *)
(* list.                                                                   *)
TreeIs(t, b) == IsTree(t) /\ Fit(t) /\ (~b => Trim(t))

(* What the allocators handed out for the tree t and the nodes s parsed.   *)
HeldIs(h, t, s, b) ==
  LET F == FlattenSeq(s) IN
  /\ h \in Held
  /\ h.nodes = Len(t) + Len(F) - (IF Len(s) = 0 THEN 1 ELSE 2)
  /\ h.chars = CharsIn(t) + CharsIn(F)
  /\ h.slots >= SlotsOf(t) + SlotsOf(F)
  /\ ~b => h.slots = SlotsOf(t) + SlotsOf(F)

(* The objects being parsed, the outermost first, have no children yet.    *)
Opened(s, o) ==
  /\ o \in Seq(1 .. Len(s)) /\ Len(o) >= 1 /\ o[1] = 1
  /\ \A j, k \in 1 .. Len(o) : j < k => o[j] < o[k]
  /\ \A k \in 1 .. Len(o) :
       Len(s[o[k]]) = 1 /\ s[o[k]][1].slots = 0 /\ (o[k] > 1 => s[o[k]][1].braces)

(* An edit is of children that are there.                                  *)
PlaceIs(e, t, b) ==
  /\ Holds(t, e.parent) /\ e.index \in Nat /\ e.count \in Nat
  /\ e.index + e.count <= ChildCount(t, e.parent)
  /\ ~b => e.parent = 1

Parsing == {"parse", "failed", "parsed"}

ParseIs(c, s, o, e, t, b) ==
  /\ Groups(s)
  /\ c \in Parsing => Len(s) >= 1 /\ CharsOf(s[1][1].word) = 0 /\ PlaceIs(e, t, b)
  /\ c \notin Parsing => Len(s) = 0
  /\ c = "parsed" => Len(s) = 1
  /\ c = "parse" => Opened(s, o)

(* The tokens left: those of a command close what is open.                 *)
TokensLeft(r, q, o) ==
  q \in Seq(Tokens) /\ (r # "client" => Balanced(q, Len(o) - 1, 0))

TokensAre(c, r, q, o) == c = "parse" => TokensLeft(r, q, o)

CommandFields ==
  [type : {"EDIT_TREE", "EDIT_TEXT", "EDIT_POSITION"}, text : Seq(Named \cup Braces),
   insertionIndex : Nat, removalCount : Nat, parentID : {0}, lastInGroup : BOOLEAN]

CommandIs(c) ==
  /\ c \in CommandFields
  /\ c.type = "EDIT_TREE" => Balanced(c.text, 0, 0)
  /\ c.type = "EDIT_TEXT" => Len(c.text) = 1 /\ c.text[1] \in Named
  /\ c.type = "EDIT_POSITION" => c.insertionIndex # c.removalCount

CommandList(s) == s \in Seq(CommandFields) /\ \A i \in 1 .. Len(s) : CommandIs(s[i])

FlagsUpTo(h, n) == {i \in Flags(h) : i <= n}

(* The history h, of which n commands can be undone, with k groups.        *)
HistoryIs(h, n, k) ==
  /\ CommandList(h) /\ n \in 0 .. Len(h)
  /\ k = Cardinality(Flags(h)) /\ k <= MAX_COMMAND_MEMORY
  /\ n > 0 => h[1].lastInGroup
  /\ n < Len(h) => h[Len(h)].lastInGroup

GroupIs(g) == CommandList(g) /\ Flags(g) = {}

(* Where undo and redo are in the history, and what they left in g.        *)
RunIs(c, r, i, g, h, n) ==
  LET done == IF c = "executed" THEN 1 ELSE 0 IN
  /\ r = "undo" => /\ i \in 1 .. n /\ Len(g) = n - i + done
                   /\ \A j \in (i + 1) .. n : ~h[j].lastInGroup
  /\ r = "redo" => /\ i \in (n + 1) .. Len(h) /\ Len(g) = i - (n + 1) + done
                   /\ \A j \in (n + 1) .. (i - 1) : ~h[j].lastInGroup
  /\ r = "cancel" => i \in 1 .. Len(g)

ControlIs(c, r) ==
  /\ c \in {"idle", "parse", "failed", "parsed", "execute", "executed", "undefined"}
  /\ r \in {"client", "undo", "redo", "cancel"}
  /\ c \in {"idle", "failed"} => r = "client"
  /\ c \in {"execute", "executed"} => r # "client"

Documents == Seq([word : Named, braces : BOOLEAN, depth : Nat])

PastIs(q, h, n, b) ==
  /\ q \in Seq(Documents)
  /\ ~b => Len(q) = Cardinality(FlagsUpTo(h, n))

TreeInv    == TreeIs(tree, below)
HeldInv    == HeldIs(held, tree, tempChildren, below)
ParseInv   == ParseIs(pc, tempChildren, open, edit, tree, below)
TokensInv  == TokensAre(pc, running, tokens, open)
ControlInv == ControlIs(pc, running)
HistoryInv == HistoryIs(history, redoIndex, commandCount)
GroupInv   == GroupIs(reverseGroup)
RunInv     == pc # "undefined" => RunIs(pc, running, index, reverseGroup, history, redoIndex)
PastInv    == PastIs(past, history, redoIndex, below) /\ base \in Documents /\ before \in Documents
BoundsInv  == edits \in 0 .. MaxEdits /\ below \in BOOLEAN

ParserInv ==
  /\ TreeInv /\ HeldInv /\ ParseInv /\ TokensInv /\ ControlInv
  /\ HistoryInv /\ GroupInv /\ RunInv /\ PastInv /\ BoundsInv

-----------------------------------------------------------------------------
(* What is held, step by step.                                             *)
HeldBy(u, h, nodes, slots, chars) ==
  /\ u \in Held
  /\ u.nodes = h.nodes + nodes /\ u.slots = h.slots + slots /\ u.chars = h.chars + chars

(* The changes of the allocators' counts by one call, each as a            *)
(* difference.                                                             *)
LEMMA HeldChanged ==
  ASSUME NEW h \in Held, NEW x \in Int, NEW y \in Int
  PROVE  /\ HeldBy([h EXCEPT !.nodes = @ + x, !.chars = @ + y], h, x, 0, y)
         /\ HeldBy([h EXCEPT !.slots = @ + x], h, 0, x, 0)
         /\ HeldBy([h EXCEPT !.slots = @ - x], h, 0, -x, 0)
         /\ HeldBy([h EXCEPT !.chars = @ + x], h, 0, 0, x)
<1>1. /\ h.nodes \in Int /\ h.slots \in Int /\ h.chars \in Int
      /\ h = [nodes |-> h.nodes, slots |-> h.slots, chars |-> h.chars]
  BY DEF Held
<1>2. HeldBy([h EXCEPT !.nodes = @ + x, !.chars = @ + y], h, x, 0, y)
  <2> DEFINE v == [h EXCEPT !.nodes = @ + x]
             u == [v EXCEPT !.chars = @ + y]
  <2>1. v \in Held /\ v.nodes = h.nodes + x /\ v.slots = h.slots /\ v.chars = h.chars
    BY <1>1 DEF Held
  <2>2. u = [h EXCEPT !.nodes = @ + x, !.chars = @ + y]
    BY DEF Held
  <2> HIDE DEF v
  <2>3. u \in Held /\ u.nodes = v.nodes /\ u.slots = v.slots /\ u.chars = v.chars + y
    BY <2>1 DEF Held
  <2>4. HeldBy(u, h, x, 0, y)
    <3> HIDE DEF u
    <3> QED BY <1>1, <2>1, <2>3 DEF HeldBy
  <2> HIDE DEF u
  <2> QED BY <2>2, <2>4, Zenon
<1>3. HeldBy([h EXCEPT !.slots = @ + x], h, 0, x, 0)
  BY <1>1 DEF HeldBy, Held
<1>4. HeldBy([h EXCEPT !.slots = @ - x], h, 0, -x, 0)
  BY <1>1 DEF HeldBy, Held
<1>5. HeldBy([h EXCEPT !.chars = @ + x], h, 0, 0, x)
  BY <1>1 DEF HeldBy, Held
<1> QED BY <1>2, <1>3, <1>4, <1>5

(* Freed lines are taken from the counts.                                  *)
LEMMA HeldLess ==
  ASSUME NEW h \in Held, NEW Y \in Seq(Lines)
  PROVE  HeldBy(Less(h, Freed(Y)), h, -Len(Y), -Freed(Y).slots, -CharsIn(Y))
<1> DEFINE f == Freed(Y)
<1>1. f.nodes \in Int /\ f.slots \in Int /\ f.chars \in Int
      /\ f.nodes = Len(Y) /\ f.chars = CharsIn(Y)
  BY FreedSizes, SizeLists
<1>2. f = [nodes |-> f.nodes, slots |-> f.slots, chars |-> f.chars]
  BY DEF Freed
<1> HIDE DEF f
<1>3. HeldBy(Less(h, f), h, -f.nodes, -f.slots, -f.chars)
  BY <1>1, <1>2 DEF HeldBy, Held, Less
<1> QED BY <1>1, <1>3 DEF f

(* The line the parser pushes.                                             *)
LEMMA LineIs ==
  ASSUME NEW w \in Named, NEW b \in BOOLEAN
  PROVE  /\ Line(w, b) \in Lines /\ Line(w, b).word = w /\ Line(w, b).braces = b
         /\ Line(w, b).depth = 0 /\ Line(w, b).slots = 0
BY DEF Line, Lines

(* A node without a name has no characters.                                *)
LEMMA NamelessChars == CharsOf("") = 0 /\ "" \in Named
BY DEF CharsOf, Named

(* What the sizes of a tree and of nodes are.                              *)
SizesAre(t, s) ==
  LET F == FlattenSeq(s) IN
  /\ F \in Seq(Lines) /\ Len(t) \in Nat /\ Len(F) \in Nat /\ Len(s) \in Nat
  /\ SlotsOf(t) \in Nat /\ SlotsOf(F) \in Nat /\ CharsIn(t) \in Nat /\ CharsIn(F) \in Nat

(* The sizes of a tree and of parsed nodes are natural numbers.            *)
LEMMA TheSizes ==
  ASSUME NEW t, IsTree(t), NEW s, Groups(s)
  PROVE  SizesAre(t, s)
<1>1. AllLinesAre(t, s)
  BY AllLines
<1> QED BY ONLY <1>1 DEF AllLinesAre, SizesAre

(* What holds as long as the edits are of the root's children implies what *)
(* holds always.                                                           *)
LEMMA HeldSame ==
  ASSUME NEW h, NEW t, NEW s, NEW b, HeldIs(h, t, s, b)
  PROVE  HeldIs(h, t, s, TRUE)
BY DEF HeldIs

(* The counts keep up with a node pushed,                                  *)
LEMMA HeldPush ==
  ASSUME NEW t, IsTree(t), NEW s, Groups(s), Len(s) >= 1, NEW h, NEW b, HeldIs(h, t, s, b),
         NEW w \in Named, NEW z \in BOOLEAN
  PROVE  /\ Groups(Append(s, <<Line(w, z)>>))
         /\ HeldIs([h EXCEPT !.nodes = @ + 1, !.chars = @ + CharsOf(w)], t, Append(s, <<Line(w, z)>>), b)
<1> DEFINE u == [h EXCEPT !.nodes = @ + 1, !.chars = @ + CharsOf(w)]
           G == Append(s, <<Line(w, z)>>)
           n == CharsOf(w)
<1>1. SizesAre(t, s)
  BY TheSizes
<1>2. /\ h \in Held
      /\ h.nodes = Len(t) + Len(FlattenSeq(s)) - (IF Len(s) = 0 THEN 1 ELSE 2)
      /\ h.chars = CharsIn(t) + CharsIn(FlattenSeq(s))
      /\ h.slots >= SlotsOf(t) + SlotsOf(FlattenSeq(s))
      /\ ~b => h.slots = SlotsOf(t) + SlotsOf(FlattenSeq(s))
  BY DEF HeldIs
<1>3. n \in Nat
  BY CharsOfNat
<1>4. HeldBy(u, h, 1, 0, n)
  <2>1. 1 \in Int /\ n \in Int
    BY <1>3
  <2>2. \A x, y \in Int : HeldBy([h EXCEPT !.nodes = @ + x, !.chars = @ + y], h, x, 0, y)
    BY <1>2, HeldChanged
  <2> QED BY <2>1, <2>2, Zenon
<1>5. Groups(G) /\ SameHeld(FlattenSeq(s), FlattenSeq(G), 0, n, 1)
  <2>1. Line(w, z) \in Lines /\ Line(w, z).word = w /\ Line(w, z).depth = 0 /\ Line(w, z).slots = 0
    BY LineIs
  <2> DEFINE x == Line(w, z)
  <2>2. x \in Lines /\ x.depth = 0 /\ x.slots = 0 /\ x.word = w
    BY <2>1
  <2> HIDE DEF x
  <2>3. Groups(Append(s, <<x>>)) /\ SameHeld(FlattenSeq(s), FlattenSeq(Append(s, <<x>>)), 0, CharsOf(x.word), 1)
    BY <2>2, NodePushed
  <2>4. Groups(Append(s, <<x>>)) /\ SameHeld(FlattenSeq(s), FlattenSeq(Append(s, <<x>>)), 0, n, 1)
    BY <2>2, <2>3
  <2> QED BY ONLY <2>4 DEF x
<1>6. Len(G) = Len(s) + 1
  BY DEF Groups
<1> HIDE DEF u, G, n
<1>7. HeldIs(u, t, G, b)
  <2> DEFINE F == FlattenSeq(s)
             K == FlattenSeq(G)
             lt == Len(t)
             lf == Len(F)
             lk == Len(K)
             ls == Len(s)
             lg == Len(G)
             st == SlotsOf(t)
             sf == SlotsOf(F)
             sk == SlotsOf(K)
             ct == CharsIn(t)
             cf == CharsIn(F)
             ck == CharsIn(K)
             hn == h.nodes
             hs == h.slots
             hc == h.chars
  <2>1. lt \in Nat /\ lf \in Nat /\ ls \in Nat /\ st \in Nat /\ sf \in Nat /\ ct \in Nat /\ cf \in Nat
    BY ONLY <1>1 DEF SizesAre
  <2>2. hn \in Int /\ hs \in Int /\ hc \in Int
    BY ONLY <1>2 DEF Held
  <2>3. lk = lf + 1 /\ sk = sf + 0 /\ ck = cf + n
    BY <1>5 DEF SameHeld
  <2>4. u \in Held /\ u.nodes = hn + 1 /\ u.slots = hs + 0 /\ u.chars = hc + n
    BY <1>4 DEF HeldBy
  <2>5. hn = lt + lf - (IF ls = 0 THEN 1 ELSE 2) /\ hc = ct + cf /\ hs >= st + sf /\ (~b => hs = st + sf)
        /\ lg = ls + 1 /\ ls >= 1
    BY <1>2, <1>6
  <2> HIDE DEF lt, lf, lk, ls, lg, st, sf, sk, ct, cf, ck, hn, hs, hc
  <2>6. /\ u.nodes = lt + lk - (IF lg = 0 THEN 1 ELSE 2) /\ u.chars = ct + ck
        /\ u.slots >= st + sk /\ (~b => u.slots = st + sk)
    BY <1>3, <2>1, <2>2, <2>3, <2>4, <2>5
  <2> QED BY ONLY <2>4, <2>6 DEF HeldIs, K, lt, lk, lg, st, sk, ct, ck
<1> QED BY <1>5, <1>7 DEF u, G

Roots(s) == IF Len(s) = 0 THEN 1 ELSE 2

(* A step that changes what is held as it changes the sizes.               *)
SameChange(t, s, v, r, b, nodes, slots, chars) ==
  /\ Len(v) + Len(FlattenSeq(r)) - Roots(r) = Len(t) + Len(FlattenSeq(s)) - Roots(s) + nodes
  /\ SlotsOf(v) + SlotsOf(FlattenSeq(r)) <= SlotsOf(t) + SlotsOf(FlattenSeq(s)) + slots
  /\ ~b => SlotsOf(v) + SlotsOf(FlattenSeq(r)) = SlotsOf(t) + SlotsOf(FlattenSeq(s)) + slots
  /\ CharsIn(v) + CharsIn(FlattenSeq(r)) = CharsIn(t) + CharsIn(FlattenSeq(s)) + chars

(* with any step that changes the lines by what it adds to the counts,     *)
LEMMA HeldStep ==
  ASSUME NEW t, IsTree(t), NEW s, Groups(s), NEW v, IsTree(v), NEW r, Groups(r), NEW b,
         NEW h, HeldIs(h, t, s, b), NEW nodes \in Int, NEW slots \in Int, NEW chars \in Int,
         NEW u, HeldBy(u, h, nodes, slots, chars),
         SameChange(t, s, v, r, b, nodes, slots, chars)
  PROVE  HeldIs(u, v, r, b)
<1>1. SizesAre(t, s) /\ SizesAre(v, r)
  BY TheSizes
<1> DEFINE F == FlattenSeq(s)
           K == FlattenSeq(r)
           lt == Len(t)
           lf == Len(F)
           lv == Len(v)
           lk == Len(K)
           st == SlotsOf(t)
           sf == SlotsOf(F)
           sv == SlotsOf(v)
           sk == SlotsOf(K)
           ct == CharsIn(t)
           cf == CharsIn(F)
           cv == CharsIn(v)
           ck == CharsIn(K)
           rs == IF Len(s) = 0 THEN 1 ELSE 2
           rr == IF Len(r) = 0 THEN 1 ELSE 2
           hn == h.nodes
           hs == h.slots
           hc == h.chars
<1>2. lt \in Nat /\ lf \in Nat /\ lv \in Nat /\ lk \in Nat /\ st \in Nat /\ sf \in Nat /\ sv \in Nat /\ sk \in Nat
      /\ ct \in Nat /\ cf \in Nat /\ cv \in Nat /\ ck \in Nat
  BY ONLY <1>1 DEF SizesAre
<1>3. rs \in Int /\ rr \in Int
  OBVIOUS
<1>4. hn \in Int /\ hs \in Int /\ hc \in Int
      /\ hn = lt + lf - rs /\ hc = ct + cf /\ hs >= st + sf /\ (~b => hs = st + sf)
  BY DEF HeldIs, Held
<1>5. u \in Held /\ u.nodes = hn + nodes /\ u.slots = hs + slots /\ u.chars = hc + chars
  BY DEF HeldBy
<1>6. /\ lv + lk - rr = lt + lf - rs + nodes
      /\ sv + sk <= st + sf + slots /\ (~b => sv + sk = st + sf + slots)
      /\ cv + ck = ct + cf + chars
  BY DEF SameChange, Roots
<1> HIDE DEF lt, lf, lv, lk, st, sf, sv, sk, ct, cf, cv, ck, rs, rr, hn, hs, hc
<1>7. u.nodes = lv + lk - rr
  BY <1>2, <1>3, <1>4, <1>5, <1>6
<1>8. u.chars = cv + ck
  BY <1>2, <1>4, <1>5, <1>6
<1>9. u.slots >= sv + sk /\ (~b => u.slots = sv + sk)
  BY <1>2, <1>4, <1>5, <1>6
<1> QED BY ONLY <1>5, <1>7, <1>8, <1>9 DEF HeldIs, K, lv, lk, sv, sk, cv, ck, rr

(* The parse begins: the temporary root holds nothing.                     *)
Started == << <<RootLine>> >>

(* A parse starts with one nameless node to collect the rest,              *)
LEMMA StartedGroups ==
  /\ Groups(Started) /\ Len(Started) = 1 /\ CharsOf(Started[1][1].word) = 0
  /\ Opened(Started, <<1>>)
  /\ Len(FlattenSeq(Started)) = 1 /\ SlotsOf(FlattenSeq(Started)) = 0 /\ CharsIn(FlattenSeq(Started)) = 0
<1> DEFINE x == RootLine
           g == <<x>>
           s == <<g>>
<1>1. x \in Lines /\ x.depth = 0 /\ x.slots = 0 /\ CharsOf(x.word) = 0
  BY LineIs, NamelessChars DEF RootLine
<1> HIDE DEF x
<1>2. g \in Seq(Lines) /\ Len(g) = 1 /\ g[1] = x /\ Group(g)
  BY <1>1, SingleLine
<1>3. SlotsOf(g) = 0 /\ CharsIn(g) = 0
  BY <1>1, SizesSmall
<1> HIDE DEF g
<1>4. s \in Seq(Seq(Lines)) /\ Len(s) = 1 /\ s[1] = g
  BY <1>2
<1>5. FlattenSeq(s) = g
  BY <1>2, FlattenSmall
<1> HIDE DEF s
<1>6. Groups(s)
  <2>1. \A k \in 1 .. 1 : k = 1
    OBVIOUS
  <2>2. \A k \in 2 .. 1 : FALSE
    OBVIOUS
  <2> QED BY <1>2, <1>4, <2>1, <2>2 DEF Groups
<1>7. Opened(s, <<1>>)
  <2> DEFINE o == <<1>>
  <2>1. o \in Seq(1 .. 1) /\ Len(o) = 1 /\ o[1] = 1
    OBVIOUS
  <2> HIDE DEF o
  <2>2. \A k \in 1 .. 1 : k = 1
    OBVIOUS
  <2>3. Opened(s, o)
    BY <1>1, <1>2, <1>4, <2>1, <2>2 DEF Opened
  <2> QED BY <2>3 DEF o
<1>8. /\ Groups(s) /\ Len(s) = 1 /\ CharsOf(s[1][1].word) = 0
      /\ Opened(s, <<1>>)
      /\ Len(FlattenSeq(s)) = 1 /\ SlotsOf(FlattenSeq(s)) = 0 /\ CharsIn(FlattenSeq(s)) = 0
  BY <1>1, <1>2, <1>3, <1>4, <1>5, <1>6, <1>7
<1> QED BY <1>8, Zenon DEF Started, s, g, x

(* and between edits there is none.                                        *)
LEMMA NoGroups ==
  /\ Groups(<<>>) /\ Len(<<>>) = 0
  /\ Len(FlattenSeq(<<>>)) = 0 /\ SlotsOf(FlattenSeq(<<>>)) = 0 /\ CharsIn(FlattenSeq(<<>>)) = 0
<1>1. <<>> \in Seq(Seq(Lines)) /\ Len(<<>>) = 0
  OBVIOUS
<1>2. \A k \in 1 .. 0 : FALSE
  OBVIOUS
<1>3. \A k \in 2 .. 0 : FALSE
  OBVIOUS
<1>4. Groups(<<>>)
  BY <1>1, <1>2, <1>3 DEF Groups
<1>5. FlattenSeq(<<>>) = <<>>
  BY FlattenSmall
<1> QED BY <1>1, <1>4, <1>5, SizesSmall, Zenon

(* The counts are a record of integers.                                    *)
LEMMA HeldIsRecord ==
  ASSUME NEW h, NEW t, NEW s, NEW b, HeldIs(h, t, s, b)
  PROVE  h \in Held
BY DEF HeldIs

(* Starting a parse and ending one leave the counts.                       *)
LEMMA HeldStart ==
  ASSUME NEW t, IsTree(t), NEW s, Groups(s), Len(s) = 0, NEW h, NEW b, HeldIs(h, t, s, b)
  PROVE  /\ HeldIs(h, t, Started, b)
         /\ HeldIs(h, t, <<>>, b)
<1>1. FlattenSeq(s) = <<>> /\ s = <<>>
  <2>1. s = <<>>
    BY DEF Groups
  <2> QED BY <2>1, FlattenSmall
<1>2. HeldIs(h, t, <<>>, b)
  BY <1>1, Zenon
<1> DEFINE lt == Len(t)
           F == FlattenSeq(<<>>)
           K == FlattenSeq(Started)
<1>3. SizesAre(t, s)
  BY TheSizes
<1>4. lt \in Nat /\ SlotsOf(t) \in Nat /\ CharsIn(t) \in Nat
  BY ONLY <1>3 DEF SizesAre
<1>5. /\ Len(F) = 0 /\ SlotsOf(F) = 0 /\ CharsIn(F) = 0
      /\ Len(K) = 1 /\ SlotsOf(K) = 0 /\ CharsIn(K) = 0 /\ Len(Started) = 1 /\ Len(<<>>) = 0
  BY NoGroups, StartedGroups
<1>6. /\ h \in Held
      /\ h.nodes = lt + Len(F) - (IF Len(<<>>) = 0 THEN 1 ELSE 2)
      /\ h.chars = CharsIn(t) + CharsIn(F)
      /\ h.slots >= SlotsOf(t) + SlotsOf(F)
      /\ ~b => h.slots = SlotsOf(t) + SlotsOf(F)
  BY <1>2 DEF HeldIs
<1> DEFINE sf == SlotsOf(F)
           sk == SlotsOf(K)
           lf == Len(F)
           lk == Len(K)
           cf == CharsIn(F)
           ck == CharsIn(K)
           st == SlotsOf(t)
           ct == CharsIn(t)
           l1 == Len(Started)
           l0 == Len(<<>>)
<1>7. /\ h.nodes = lt + lf - (IF l0 = 0 THEN 1 ELSE 2) /\ h.chars = ct + cf
      /\ h.slots >= st + sf /\ (~b => h.slots = st + sf)
      /\ lf = 0 /\ sf = 0 /\ cf = 0 /\ lk = 1 /\ sk = 0 /\ ck = 0 /\ l1 = 1 /\ l0 = 0
      /\ lt \in Nat /\ st \in Nat /\ ct \in Nat
  BY <1>4, <1>5, <1>6
<1> HIDE DEF lt, lf, lk, sf, sk, cf, ck, st, ct, l1, l0
<1>8. /\ h.nodes = lt + lk - (IF l1 = 0 THEN 1 ELSE 2) /\ h.chars = ct + ck
      /\ h.slots >= st + sk /\ (~b => h.slots = st + sk)
  BY <1>7
<1>9. HeldIs(h, t, Started, b)
  BY ONLY <1>6, <1>8 DEF HeldIs, lt, lk, sk, ck, st, ct, l1, K
<1> QED BY <1>2, <1>9

(* The counts keep up with an object closed,                               *)
LEMMA HeldClose ==
  ASSUME NEW t, IsTree(t), NEW s, Groups(s), NEW h, NEW b, HeldIs(h, t, s, b),
         NEW p \in 1 .. Len(s), Len(s[p]) = 1, s[p][1].slots = 0, p > 1 => s[p][1].braces
  PROVE  HeldIs([h EXCEPT !.slots = @ + OptimalMaxChildCount(Len(s) - p)], t, Closes(s, p), b)
<1> DEFINE max == OptimalMaxChildCount(Len(s) - p)
           u == [h EXCEPT !.slots = @ + max]
           r == Closes(s, p)
<1>1. /\ Groups(r) /\ Len(r) = p /\ max \in Nat
      /\ SameHeld(FlattenSeq(s), FlattenSeq(r), max, 0, 0)
  BY NodeClosed
<1>2. h \in Held
  BY HeldIsRecord
<1>3. HeldBy(u, h, 0, max, 0)
  <2>1. max \in Int
    BY <1>1
  <2> HIDE DEF max
  <2> QED BY <1>2, <2>1, HeldChanged
<1>4. SizesAre(t, s) /\ SizesAre(t, r)
  BY <1>1, TheSizes
<1> HIDE DEF max, u, r
<1> DEFINE F == FlattenSeq(s)
           K == FlattenSeq(r)
           lt == Len(t)
           lf == Len(F)
           lk == Len(K)
           st == SlotsOf(t)
           sf == SlotsOf(F)
           sk == SlotsOf(K)
           ct == CharsIn(t)
           cf == CharsIn(F)
           ck == CharsIn(K)
<1>5. lt \in Nat /\ lf \in Nat /\ lk \in Nat /\ st \in Nat /\ sf \in Nat /\ sk \in Nat
      /\ ct \in Nat /\ cf \in Nat /\ ck \in Nat
  BY ONLY <1>4 DEF SizesAre
<1>6. lk = lf + 0 /\ sk = sf + max /\ ck = cf + 0
  BY <1>1 DEF SameHeld
<1>7. Roots(s) = 2 /\ Roots(r) = 2
  <2>1. Len(s) \in Nat /\ Len(r) = p /\ p \in 1 .. Len(s)
    BY <1>1, <1>4 DEF SizesAre
  <2>2. Len(s) # 0 /\ Len(r) # 0
    BY <2>1
  <2> QED BY <2>2 DEF Roots
<1> HIDE DEF lt, lf, lk, st, sf, sk, ct, cf, ck
<1>8. /\ lt + lk - 2 = lt + lf - 2 + 0 /\ st + sk <= st + sf + max /\ st + sk = st + sf + max
      /\ ct + ck = ct + cf + 0
  BY <1>1, <1>5, <1>6
<1>9. SameChange(t, s, t, r, b, 0, max, 0)
  BY ONLY <1>7, <1>8 DEF SameChange, F, K, lt, lf, lk, st, sf, sk, ct, cf, ck
<1>10. HeldIs(u, t, r, b)
  <2>1. 0 \in Int /\ max \in Int
    BY <1>1
  <2> QED BY <1>1, <1>3, <1>9, <2>1, HeldStep
<1> QED BY ONLY <1>10 DEF u, r, max

(* with two calls after each other,                                        *)
LEMMA HeldTwice ==
  ASSUME NEW h \in Held, NEW u, NEW v, NEW a \in Int, NEW b \in Int, NEW c \in Int, NEW d \in Int,
         HeldBy(u, h, a, b, c), HeldBy(v, u, 0, d, 0)
  PROVE  HeldBy(v, h, a, b + d, c)
<1>1. h.nodes \in Int /\ h.slots \in Int /\ h.chars \in Int
  BY DEF Held
<1>2. /\ u.nodes = h.nodes + a /\ u.slots = h.slots + b /\ u.chars = h.chars + c
      /\ v \in Held /\ v.nodes = u.nodes + 0 /\ v.slots = u.slots + d /\ v.chars = u.chars + 0
  BY DEF HeldBy
<1> QED BY <1>1, <1>2 DEF HeldBy

(* with a parse rolled back,                                               *)
LEMMA HeldRollback ==
  ASSUME NEW t, IsTree(t), NEW s, Groups(s), Len(s) >= 1, CharsOf(s[1][1].word) = 0,
         NEW h, NEW b, HeldIs(h, t, s, b)
  PROVE  HeldIs([Less(h, Freed(Tail(s[1]) \o FlattenSeq(Tail(s)))) EXCEPT !.slots = @ - s[1][1].slots],
                t, <<>>, b)
<1> DEFINE Y == Tail(s[1]) \o FlattenSeq(Tail(s))
           u == Less(h, Freed(Y))
           v == [u EXCEPT !.slots = @ - s[1][1].slots]
           F == FlattenSeq(s)
           K == FlattenSeq(<<>>)
           x == s[1][1].slots
           f == Freed(Y).slots
           n == Len(Y)
           c == CharsIn(Y)
           sy == SlotsOf(Y)
           lt == Len(t)
           lf == Len(F)
           lk == Len(K)
           st == SlotsOf(t)
           sf == SlotsOf(F)
           sk == SlotsOf(K)
           ct == CharsIn(t)
           cf == CharsIn(F)
           ck == CharsIn(K)
<1>1. /\ Y \in Seq(Lines) /\ Exact(Y) /\ lf = n + 1 /\ sf = sy + x /\ cf = c /\ x \in Nat
  BY RolledBack
<1>2. n \in Nat /\ f \in Nat /\ c \in Nat /\ sy \in Nat /\ f = sy
  <2> HIDE DEF Y
  <2>1. f \in Nat /\ f = sy
    BY <1>1, FreedSizes
  <2>2. n \in Nat /\ c \in Nat /\ sy \in Nat
    BY <1>1, SizeLists
  <2> QED BY <2>1, <2>2
<1>3. h \in Held
  BY HeldIsRecord
<1>4. SizesAre(t, s)
  BY TheSizes
<1>5. lt \in Nat /\ lf \in Nat /\ st \in Nat /\ sf \in Nat /\ ct \in Nat /\ cf \in Nat
  BY ONLY <1>4 DEF SizesAre
<1>6. Groups(<<>>) /\ lk = 0 /\ sk = 0 /\ ck = 0 /\ Roots(<<>>) = 1
  BY NoGroups DEF Roots
<1>7. Roots(s) = 2
  <2>1. Len(s) # 0
    BY <1>4 DEF SizesAre
  <2> QED BY <2>1 DEF Roots
<1> HIDE DEF Y, u, v, F, K, x, f, n, c, sy, lt, lf, lk, st, sf, sk, ct, cf, ck
<1>8. HeldBy(u, h, -n, -f, -c)
  BY <1>1, <1>3, HeldLess DEF u, n, f, c
<1>9. HeldBy(v, u, 0, -x, 0)
  <2>1. u \in Held /\ x \in Int
    BY <1>1, <1>8 DEF HeldBy
  <2>2. HeldBy([u EXCEPT !.slots = @ - x], u, 0, -x, 0)
    BY <2>1, HeldChanged
  <2> QED BY <2>2 DEF v, x
<1>10. HeldBy(v, h, -n, -f + -x, -c)
  <2>1. -n \in Int /\ -f \in Int /\ -c \in Int /\ -x \in Int
    BY <1>1, <1>2
  <2> QED BY <1>3, <1>8, <1>9, <2>1, HeldTwice
<1>11. /\ lt + lk - 1 = lt + lf - 2 + -n
       /\ st + sk = st + sf + (-f + -x) /\ st + sk <= st + sf + (-f + -x)
       /\ ct + ck = ct + cf + -c
  BY <1>1, <1>2, <1>5, <1>6
<1>12. SameChange(t, s, t, <<>>, b, -n, -f + -x, -c)
  BY ONLY <1>6, <1>7, <1>11 DEF SameChange, F, K, lt, lf, lk, st, sf, sk, ct, cf, ck
<1>13. HeldIs(v, t, <<>>, b)
  <2>1. -n \in Int /\ -f + -x \in Int /\ -c \in Int
    BY <1>1, <1>2
  <2> QED BY <1>6, <1>10, <1>12, <2>1, HeldStep
<1> QED BY ONLY <1>13 DEF v, u, Y

(* The parse of an edit, once it has ended.                                *)
LEMMA OneGroup ==
  ASSUME NEW s, Groups(s), Len(s) = 1
  PROVE  Group(s[1]) /\ s[1] \in Seq(Lines) /\ FlattenSeq(s) = s[1]
<1>1. 1 \in 1 .. Len(s) /\ s \in Seq(Seq(Lines))
  BY DEF Groups
<1>2. Group(s[1]) /\ s[1] \in Seq(Lines)
  BY <1>1 DEF Groups
<1>3. s = <<s[1]>>
  <2> DEFINE q == s[1]
             r == <<q>>
  <2>1. q \in Seq(Lines) /\ Len(r) = 1 /\ r[1] = q /\ r \in Seq(Seq(Lines))
    BY <1>2
  <2>2. \A k \in 1 .. 1 : k = 1
    OBVIOUS
  <2> HIDE DEF r
  <2>3. \A k \in 1 .. Len(s) : s[k] = r[k]
    BY <2>1, <2>2
  <2>4. s = r
    BY <1>1, <2>1, <2>3
  <2> QED BY <2>4 DEF r
<1>4. FlattenSeq(<<s[1]>>) = s[1]
  BY <1>2, FlattenSmall
<1> QED BY <1>2, <1>3, <1>4, Zenon

(* with the parsed nodes spliced in and those removed freed,               *)
LEMMA HeldEdit ==
  ASSUME NEW t, NEW b, TreeIs(t, b), NEW s, Groups(s), Len(s) = 1, CharsOf(s[1][1].word) = 0,
         NEW h, HeldIs(h, t, s, b), NEW p, Holds(t, p), ~b => p = 1,
         NEW i \in Nat, NEW n \in Nat, i + n <= ChildCount(t, p)
  PROVE  /\ TreeIs(TreeEdited(t, p, i, n, s[1]), b)
         /\ Forest(Children(t, p, i, n), t[p].depth + 1) /\ t[p].depth \in Nat
         /\ ChildCount(s[1], 1) \in Nat
         /\ HeldIs([Less(h, Freed(Children(t, p, i, n)))
                      EXCEPT !.slots = @ + SlotsAfter(t, p, n, s[1]) - t[p].slots - s[1][1].slots],
                   TreeEdited(t, p, i, n, s[1]), <<>>, b)
<1> DEFINE g == s[1]
           R == Children(t, p, i, n)
           v == TreeEdited(t, p, i, n, g)
           S == SlotsAfter(t, p, n, g)
           ts == t[p].slots
           gs == g[1].slots
           u == Less(h, Freed(R))
           w == [u EXCEPT !.slots = @ + S - ts - gs]
           F == FlattenSeq(s)
           K == FlattenSeq(<<>>)
           f == Freed(R).slots
           lr == Len(R)
           sr == SlotsOf(R)
           cr == CharsIn(R)
           lt == Len(t)
           lf == Len(F)
           lk == Len(K)
           lv == Len(v)
           st == SlotsOf(t)
           sf == SlotsOf(F)
           sk == SlotsOf(K)
           sv == SlotsOf(v)
           ct == CharsIn(t)
           cf == CharsIn(F)
           ck == CharsIn(K)
           cv == CharsIn(v)
<1>1. IsTree(t) /\ Fit(t) /\ (~b => Trim(t))
  BY DEF TreeIs
<1>2. Group(g) /\ g \in Seq(Lines) /\ F = g /\ IsTree(g) /\ Fit(g) /\ Exact(g)
  BY OneGroup DEF Group
<1>3. p \in 1 .. Len(t) /\ t[p].depth \in Nat /\ ts \in Nat
  <2>1. p \in 1 .. Len(t)
    BY DEF Holds
  <2> QED BY <1>1, <2>1, TreeLines
<1>4. TreeEditIs(t, p, i, n, g)
  <2> HIDE DEF g
  <2> QED BY <1>1, <1>2, TreeEdit
<1>5. gs \in Nat
  BY <1>2, TreeLines
<1> HIDE DEF g
<1>6. /\ IsTree(v) /\ Fit(v) /\ (p = 1 /\ Trim(t) => Trim(v))
      /\ Forest(R, t[p].depth + 1) /\ (Trim(t) => Exact(R))
      /\ ChildCount(g, 1) \in Nat /\ S \in Nat
      /\ lv + lr + 1 = lt + Len(g)
      /\ sv + sr + ts + gs = st + SlotsOf(g) + S
      /\ cv + cr + CharsOf(g[1].word) = ct + CharsIn(g)
  BY ONLY <1>4 DEF TreeEditIs
<1>7. TreeIs(v, b)
  BY <1>1, <1>6 DEF TreeIs
<1>8. R \in Seq(Lines)
  BY <1>6 DEF Forest
<1>9. lr \in Nat /\ f \in Nat /\ cr \in Nat /\ sr \in Nat /\ f <= sr /\ (~b => f = sr)
  BY <1>1, <1>6, <1>8, FreedSizes, SizeLists
<1>10. h \in Held
  BY HeldIsRecord
<1>11. SizesAre(t, s) /\ SizesAre(v, <<>>)
  <2> HIDE DEF v
  <2> QED BY <1>1, <1>6, NoGroups, TheSizes
<1>12. lt \in Nat /\ lf \in Nat /\ st \in Nat /\ sf \in Nat /\ ct \in Nat /\ cf \in Nat
       /\ lv \in Nat /\ lk \in Nat /\ sv \in Nat /\ sk \in Nat /\ cv \in Nat /\ ck \in Nat
  BY ONLY <1>11 DEF SizesAre
<1>13. Groups(<<>>) /\ lk = 0 /\ sk = 0 /\ ck = 0 /\ Roots(<<>>) = 1 /\ Roots(s) = 2
  BY NoGroups DEF Roots
<1>14. CharsOf(g[1].word) = 0 /\ lf = Len(g) /\ sf = SlotsOf(g) /\ cf = CharsIn(g)
  <2>1. CharsOf(g[1].word) = 0
    BY DEF g
  <2> HIDE DEF F
  <2> QED BY <1>2, <2>1 DEF F
<1> HIDE DEF R, v, S, ts, gs, u, w, F, K, f, lr, sr, cr, lt, lf, lk, lv, st, sf, sk, sv, ct, cf, ck, cv
<1>15. HeldBy(u, h, -lr, -f, -cr)
  BY <1>8, <1>10, HeldLess DEF u, lr, f, cr
<1> DEFINE e == S - ts - gs
<1>16. e \in Int /\ e = S - (ts + gs)
  BY <1>3, <1>5, <1>6
<1>17. HeldBy(w, u, 0, e, 0)
  <2>1. u \in Held
    BY <1>15 DEF HeldBy
  <2> HIDE DEF e
  <2>2. HeldBy([u EXCEPT !.slots = @ + e], u, 0, e, 0)
    BY <1>16, <2>1, HeldChanged
  <2> QED BY <2>2 DEF w, e
<1> HIDE DEF e
<1>18. HeldBy(w, h, -lr, -f + e, -cr)
  <2>1. -lr \in Int /\ -f \in Int /\ -cr \in Int
    BY <1>9
  <2> QED BY <1>10, <1>15, <1>16, <1>17, <2>1, HeldTwice
<1> DEFINE lg == Len(g)
           sg == SlotsOf(g)
           cg == CharsIn(g)
           wg == CharsOf(g[1].word)
<1>19. lv + lr + 1 = lt + lg /\ sv + sr + ts + gs = st + sg + S /\ cv + cr + wg = ct + cg
       /\ wg = 0 /\ lf = lg /\ sf = sg /\ cf = cg
  BY <1>6, <1>14
<1> HIDE DEF lg, sg, cg, wg
<1>20. lv + lk - 1 = lt + lf - 2 + -lr
  BY <1>9, <1>12, <1>13, <1>19
<1>21. sv + sk <= st + sf + (-f + e) /\ (~b => sv + sk = st + sf + (-f + e))
  BY <1>3, <1>5, <1>6, <1>9, <1>12, <1>13, <1>16, <1>19
<1>22. cv + ck = ct + cf + -cr
  BY <1>9, <1>12, <1>13, <1>19
<1>23. SameChange(t, s, v, <<>>, b, -lr, -f + e, -cr)
  BY ONLY <1>13, <1>20, <1>21, <1>22 DEF SameChange, F, K, lt, lf, lk, lv, st, sf, sk, sv, ct, cf, ck, cv
<1>24. HeldIs(w, v, <<>>, b)
  <2>1. -lr \in Int /\ -f + e \in Int /\ -cr \in Int
    BY <1>9, <1>16
  <2> QED BY <1>1, <1>6, <1>13, <1>18, <1>23, <2>1, HeldStep
<1>25. /\ TreeIs(v, b) /\ Forest(R, t[p].depth + 1) /\ t[p].depth \in Nat /\ ChildCount(g, 1) \in Nat
       /\ HeldIs(w, v, <<>>, b)
  BY <1>3, <1>6, <1>7, <1>24
<1> QED BY ONLY <1>25 DEF v, w, u, R, S, ts, gs, g

(* with children moved                                                     *)
LEMMA HeldMoved ==
  ASSUME NEW t, NEW b, TreeIs(t, b), NEW s, Groups(s), NEW h, HeldIs(h, t, s, b),
         NEW p, ~b => p = 1, NEW v, Moved(t, p, v)
  PROVE  TreeIs(v, b) /\ HeldIs(h, v, s, b)
<1>1. /\ IsTree(v) /\ Len(v) = Len(t) /\ (Fit(t) => Fit(v)) /\ (p = 1 /\ Trim(t) => Trim(v))
      /\ SlotsOf(v) = SlotsOf(t) /\ CharsIn(v) = CharsIn(t)
  BY DEF Moved
<1>2. TreeIs(v, b)
  BY <1>1 DEF TreeIs
<1>3. HeldIs(h, v, s, b)
  BY <1>1 DEF HeldIs
<1> QED BY <1>2, <1>3

(* and with a name replaced.                                               *)
LEMMA HeldText ==
  ASSUME NEW t, NEW b, TreeIs(t, b), NEW s, Groups(s), NEW h, HeldIs(h, t, s, b),
         NEW p \in 1 .. Len(t), NEW w \in Named
  PROVE  /\ TreeIs([t EXCEPT ![p].word = w], b)
         /\ HeldIs([h EXCEPT !.chars = @ + CharsOf(w) - CharsOf(t[p].word)],
                   [t EXCEPT ![p].word = w], s, b)
         /\ t[p].word \in Named
<1> DEFINE x == [t[p] EXCEPT !.word = w]
           v == [t EXCEPT ![p] = x]
           e == CharsOf(w) - CharsOf(t[p].word)
           u == [h EXCEPT !.chars = @ + e]
           F == FlattenSeq(s)
<1>1. IsTree(t) /\ Fit(t) /\ (~b => Trim(t)) /\ t \in Seq(Lines) /\ t[p] \in Lines
  <2>1. IsTree(t) /\ Fit(t) /\ (~b => Trim(t))
    BY DEF TreeIs
  <2> QED BY <2>1, TreeLines
<1>2. /\ x \in Lines /\ x.word = w /\ x.braces = t[p].braces /\ x.depth = t[p].depth
      /\ x.slots = t[p].slots /\ t[p].word \in Named
  BY <1>1, RenamedLine, LineFields
<1> HIDE DEF x
<1>3. LineReplaced(t, p, x, v)
  BY <1>1, <1>2, ReplaceLine
<1> HIDE DEF v
<1>4. /\ v \in Seq(Lines) /\ Len(v) = Len(t) /\ v[p] = x
      /\ \A k \in 1 .. Len(t) : k # p => v[k] = t[k]
      /\ SlotsOf(v) + t[p].slots = SlotsOf(t) + x.slots
      /\ CharsIn(v) + CharsOf(t[p].word) = CharsIn(t) + CharsOf(x.word)
  BY <1>3 DEF LineReplaced
<1>5. \A k \in 1 .. Len(t) :
        v[k].depth = t[k].depth /\ v[k].braces = t[k].braces /\ v[k].slots = t[k].slots
  BY <1>2, <1>4
<1>6. Shaped(t, v)
  BY <1>4, <1>5 DEF Shaped
<1>7. /\ IsTree(v)
      /\ \A k \in 1 .. Len(t) : ChildCount(v, k) = ChildCount(t, k)
      /\ \A k \in 1 .. Len(t) : HasChildren(v, k) <=> HasChildren(t, k)
  BY <1>1, <1>6, SameShape
<1>8. Fit(v)
  BY <1>1, <1>4, <1>5, <1>7 DEF Fit
<1>9. ~b => Trim(v)
  <2>1. \A k \in 2 .. Len(t) : k \in 1 .. Len(t)
    OBVIOUS
  <2>2. ASSUME Trim(t), NEW k \in 2 .. Len(t), ~HasChildren(v, k) PROVE v[k].slots = 0
    BY <1>5, <1>7, <2>1, <2>2 DEF Trim
  <2> QED BY <1>1, <1>4, <2>2 DEF Trim
<1>10. TreeIs(v, b)
  BY <1>7, <1>8, <1>9 DEF TreeIs
<1>11. h \in Held
  BY HeldIsRecord
<1>12. SizesAre(t, s) /\ SizesAre(v, s)
  BY <1>1, <1>7, TheSizes
<1> DEFINE lt == Len(t)
           lf == Len(F)
           lv == Len(v)
           st == SlotsOf(t)
           sf == SlotsOf(F)
           sv == SlotsOf(v)
           ct == CharsIn(t)
           cf == CharsIn(F)
           cv == CharsIn(v)
           xs == x.slots
           ts == t[p].slots
           xc == CharsOf(w)
           tc == CharsOf(t[p].word)
<1>13. lt \in Nat /\ lf \in Nat /\ st \in Nat /\ sf \in Nat /\ ct \in Nat /\ cf \in Nat
       /\ lv \in Nat /\ sv \in Nat /\ cv \in Nat
  BY ONLY <1>12 DEF SizesAre
<1>14. /\ lv = lt /\ sv + ts = st + xs /\ cv + tc = ct + xc /\ xs = ts /\ ts \in Nat /\ xc \in Nat /\ tc \in Nat
  BY <1>1, <1>2, <1>4, LineFields, CharsOfNat
<1>15. Roots(s) \in Int
  BY DEF Roots
<1> DEFINE k == Roots(s)
<1> HIDE DEF F, lt, lf, lv, st, sf, sv, ct, cf, cv, xs, ts, xc, tc, k, u, e
<1>16. /\ lv + lf - k = lt + lf - k + 0
       /\ sv + sf <= st + sf + 0 /\ sv + sf = st + sf + 0
       /\ cv + cf = ct + cf + (xc - tc) /\ xc - tc \in Int
  BY <1>13, <1>14, <1>15 DEF k
<1>17. e = xc - tc
  BY DEF e, xc, tc
<1>18. SameChange(t, s, v, s, b, 0, 0, e)
  BY ONLY <1>16, <1>17 DEF SameChange, F, lt, lf, lv, st, sf, sv, ct, cf, cv, k
<1>19. HeldBy(u, h, 0, 0, e)
  <2>1. HeldBy([h EXCEPT !.chars = @ + e], h, 0, 0, e)
    BY <1>11, <1>16, <1>17, HeldChanged
  <2> QED BY <2>1 DEF u
<1>20. HeldIs(u, v, s, b)
  <2>1. 0 \in Int /\ e \in Int
    BY <1>16, <1>17
  <2> QED BY <1>1, <1>7, <1>18, <1>19, <2>1, HeldStep
<1>21. TreeIs(v, b) /\ HeldIs(u, v, s, b) /\ t[p].word \in Named
  BY <1>2, <1>10, <1>20
<1> QED BY ONLY <1>21 DEF v, u, x, e

-----------------------------------------------------------------------------
(* The objects being parsed.                                               *)
LEMMA InSeq ==
  ASSUME NEW A, NEW B, NEW q \in Seq(A), \A k \in 1 .. Len(q) : q[k] \in B
  PROVE  q \in Seq(B)
<1>1. Len(q) \in Nat /\ q = [k \in 1 .. Len(q) |-> q[k]]
  OBVIOUS
<1>2. [k \in 1 .. Len(q) |-> q[k]] \in [1 .. Len(q) -> B]
  OBVIOUS
<1>3. \A n \in Nat : \A f \in [1 .. n -> B] : f \in Seq(B)
  OBVIOUS
<1> QED BY <1>1, <1>2, <1>3, Zenon

(* A node pushed is the innermost open object if it has a brace.           *)
LEMMA OpenedPush ==
  ASSUME NEW s, Groups(s), NEW o, Opened(s, o), NEW w \in Named, NEW z \in BOOLEAN
  PROVE  /\ Opened(Append(s, <<Line(w, z)>>), IF z THEN Append(o, Len(s) + 1) ELSE o)
         /\ Len(Append(s, <<Line(w, z)>>)) = Len(s) + 1
         /\ Len(s) >= 1 => Append(s, <<Line(w, z)>>)[1] = s[1]
<1> DEFINE g == <<Line(w, z)>>
           r == Append(s, g)
           l == Len(s)
           m == Len(o)
<1>1. s \in Seq(Seq(Lines)) /\ l \in Nat
  BY DEF Groups
<1>2. g \in Seq(Lines) /\ Len(g) = 1 /\ g[1].slots = 0 /\ g[1].braces = z
  BY LineIs
<1> HIDE DEF g
<1>3. r \in Seq(Seq(Lines)) /\ Len(r) = l + 1 /\ r[l + 1] = g /\ \A k \in 1 .. l : r[k] = s[k]
  BY <1>1, <1>2, AppendedThing
<1>4. /\ o \in Seq(1 .. l) /\ m >= 1 /\ o[1] = 1 /\ m \in Nat
      /\ \A j, k \in 1 .. m : j < k => o[j] < o[k]
      /\ \A k \in 1 .. m : o[k] \in 1 .. l
      /\ \A k \in 1 .. m : Len(s[o[k]]) = 1 /\ s[o[k]][1].slots = 0 /\ (o[k] > 1 => s[o[k]][1].braces)
  BY DEF Opened
<1> HIDE DEF r, l
<1>5. o \in Seq(1 .. (l + 1))
  <2>1. \A k \in 1 .. m : o[k] \in 1 .. (l + 1)
    BY <1>1, <1>4
  <2> HIDE DEF m
  <2>2. \A k \in 1 .. Len(o) : o[k] \in 1 .. (l + 1)
    BY <2>1 DEF m
  <2> QED BY <1>4, <2>2, InSeq
<1>6. \A k \in 1 .. m : Len(r[o[k]]) = 1 /\ r[o[k]][1].slots = 0 /\ (o[k] > 1 => r[o[k]][1].braces)
  BY <1>3, <1>4
<1>7. Opened(r, o)
  BY <1>3, <1>4, <1>5, <1>6 DEF Opened
<1>8. ASSUME z PROVE Opened(r, Append(o, l + 1))
  <2> DEFINE q == Append(o, l + 1)
  <2>1. l + 1 \in 1 .. (l + 1)
    BY <1>1
  <2>2. q \in Seq(1 .. (l + 1)) /\ Len(q) = m + 1 /\ q[m + 1] = l + 1 /\ \A k \in 1 .. m : q[k] = o[k]
    <3> HIDE DEF q, m
    <3>1. /\ Append(o, l + 1) \in Seq(1 .. (l + 1)) /\ Len(Append(o, l + 1)) = Len(o) + 1
          /\ Append(o, l + 1)[Len(o) + 1] = l + 1
          /\ \A k \in 1 .. Len(o) : Append(o, l + 1)[k] = o[k]
      BY <1>5, <2>1, AppendedThing
    <3> QED BY <3>1 DEF q, m
  <2> HIDE DEF q, m
  <2>3. \A k \in 1 .. (m + 1) : k = m + 1 \/ k \in 1 .. m
    BY <1>4
  <2>4. ASSUME NEW j \in 1 .. (m + 1), NEW k \in 1 .. (m + 1), j < k PROVE q[j] < q[k]
    <3>1. j \in 1 .. m
      BY <1>4, <2>4
    <3>2. CASE k = m + 1
      <4>1. q[k] = l + 1 /\ q[j] = o[j] /\ o[j] \in 1 .. l
        BY <1>4, <2>2, <3>1, <3>2
      <4> QED BY <1>1, <4>1
    <3>3. CASE k \in 1 .. m
      BY <1>4, <2>2, <2>4, <3>1, <3>3
    <3> QED BY <2>3, <3>2, <3>3
  <2>5. ASSUME NEW k \in 1 .. (m + 1)
        PROVE  Len(r[q[k]]) = 1 /\ r[q[k]][1].slots = 0 /\ (q[k] > 1 => r[q[k]][1].braces)
    <3>1. CASE k = m + 1
      <4>1. q[k] = l + 1 /\ r[q[k]] = g
        BY <1>3, <2>2, <3>1
      <4> QED BY <1>2, <1>8, <4>1
    <3>2. CASE k \in 1 .. m
      BY <1>6, <2>2, <3>2
    <3> QED BY <2>3, <3>1, <3>2
  <2>6. 1 \in 1 .. m /\ m + 1 >= 1
    BY <1>4
  <2>7. q[1] = 1
    BY <1>4, <2>2, <2>6
  <2>8. Opened(r, q)
    BY <1>3, <2>2, <2>4, <2>5, <2>6, <2>7 DEF Opened
  <2> QED BY <2>8 DEF q
<1>9. l >= 1 => r[1] = s[1]
  BY <1>1, <1>3
<1>10. Opened(r, IF z THEN Append(o, l + 1) ELSE o)
  BY <1>7, <1>8, Zenon
<1>11. Opened(r, IF z THEN Append(o, l + 1) ELSE o) /\ Len(r) = l + 1 /\ (l >= 1 => r[1] = s[1])
  BY <1>3, <1>9, <1>10
<1> QED BY ONLY <1>11 DEF r, g, l

PartIs(X, q, a, b) ==
  LET r == SubSeq(q, a, b) IN
  /\ r \in Seq(X) /\ Len(r) = b - (a - 1)
  /\ \A i \in 1 .. (b - (a - 1)) : r[i] = q[(a - 1) + i]

(* The members of a part of a list.                                        *)
LEMMA PartOf ==
  ASSUME NEW X, NEW q \in Seq(X), NEW a \in 1 .. (Len(q) + 1), NEW b \in (a - 1) .. Len(q)
  PROVE  PartIs(X, q, a, b)
<1> DEFINE n == Len(q)
           r == SubSeq(q, a, b)
<1>1. n \in Nat /\ \A i \in 1 .. n : q[i] \in X
  OBVIOUS
<1> HIDE DEF n
<1>2. a \in Int /\ b \in Int /\ a >= 1 /\ b >= a - 1 /\ b <= n
  BY <1>1 DEF n
<1>3. \A i \in a .. b : q[i] \in X
  BY <1>1, <1>2
<1>4. /\ r \in Seq(X) /\ Len(r) = (IF a <= b THEN b - a + 1 ELSE 0)
      /\ \A i \in 1 .. (b - a + 1) : r[i] = q[a + i - 1]
  BY <1>2, <1>3, SubSeqProperties
<1> HIDE DEF r
<1>5. (IF a <= b THEN b - a + 1 ELSE 0) = b - (a - 1) /\ b - a + 1 = b - (a - 1)
  BY <1>2
<1>6. \A i \in 1 .. (b - (a - 1)) : a + i - 1 = (a - 1) + i
  BY <1>2
<1>7. /\ r \in Seq(X) /\ Len(r) = b - (a - 1)
      /\ \A i \in 1 .. (b - (a - 1)) : r[i] = q[(a - 1) + i]
  BY <1>4, <1>5, <1>6
<1> QED BY ONLY <1>7 DEF PartIs, r

(* The members of a list but the last.                                     *)
LEMMA FrontIs ==
  ASSUME NEW X, NEW q \in Seq(X), Len(q) >= 1
  PROVE  /\ Front(q) \in Seq(X) /\ Len(Front(q)) = Len(q) - 1
         /\ \A i \in 1 .. (Len(q) - 1) : Front(q)[i] = q[i]
<1> DEFINE n == Len(q)
<1>1. n \in Nat /\ n >= 1
  OBVIOUS
<1> HIDE DEF n
<1>2. 1 \in 1 .. (n + 1) /\ n - 1 \in (1 - 1) .. n
  BY <1>1
<1>3. PartIs(X, q, 1, n - 1)
  BY <1>2, PartOf DEF n
<1>4. /\ SubSeq(q, 1, n - 1) \in Seq(X) /\ Len(SubSeq(q, 1, n - 1)) = (n - 1) - (1 - 1)
      /\ \A i \in 1 .. ((n - 1) - (1 - 1)) : SubSeq(q, 1, n - 1)[i] = q[(1 - 1) + i]
  BY ONLY <1>3 DEF PartIs
<1>5. (n - 1) - (1 - 1) = n - 1 /\ \A i \in 1 .. (n - 1) : (1 - 1) + i = i
  BY <1>1
<1>6. /\ SubSeq(q, 1, n - 1) \in Seq(X) /\ Len(SubSeq(q, 1, n - 1)) = n - 1
      /\ \A i \in 1 .. (n - 1) : SubSeq(q, 1, n - 1)[i] = q[i]
  BY <1>4, <1>5
<1> QED BY ONLY <1>6 DEF Front, n

(* The innermost object being parsed.                                      *)
LastOpen(s, o) ==
  LET p == Last(o) IN
  /\ p \in 1 .. Len(s) /\ Len(s[p]) = 1 /\ s[p][1].slots = 0 /\ (p > 1 => s[p][1].braces)
  /\ Len(o) \in Nat /\ Len(o) >= 1
  /\ Len(o) = 1 => p = 1
  /\ Len(o) > 1 => p > 1

(* The innermost open object.                                              *)
LEMMA TheLastOpen ==
  ASSUME NEW s, Groups(s), NEW o, Opened(s, o)
  PROVE  LastOpen(s, o)
<1> DEFINE m == Len(o)
<1>1. /\ o \in Seq(1 .. Len(s)) /\ m >= 1 /\ o[1] = 1 /\ m \in Nat
      /\ \A j, k \in 1 .. m : j < k => o[j] < o[k]
      /\ \A k \in 1 .. m : o[k] \in 1 .. Len(s)
      /\ \A k \in 1 .. m : Len(s[o[k]]) = 1 /\ s[o[k]][1].slots = 0 /\ (o[k] > 1 => s[o[k]][1].braces)
  BY DEF Opened
<1>2. Last(o) = o[m]
  BY DEF Last
<1> HIDE DEF m
<1>3. m \in 1 .. m /\ 1 \in 1 .. m
  BY <1>1
<1>4. m > 1 => o[1] < o[m]
  BY <1>1, <1>3
<1>5. /\ o[m] \in 1 .. Len(s) /\ Len(s[o[m]]) = 1 /\ s[o[m]][1].slots = 0 /\ (o[m] > 1 => s[o[m]][1].braces)
      /\ m = 1 => o[m] = 1
  BY <1>1, <1>3
<1> QED BY <1>1, <1>2, <1>4, <1>5 DEF LastOpen, m

(* Closing it leaves those around it open.                                 *)
LEMMA OpenedClose ==
  ASSUME NEW s, Groups(s), NEW o, Opened(s, o), Len(o) > 1,
         NEW r, Groups(r), Len(r) = Last(o), \A k \in 1 .. (Last(o) - 1) : r[k] = s[k]
  PROVE  Opened(r, Front(o))
<1> DEFINE m == Len(o)
           f == Front(o)
           p == Last(o)
<1>1. /\ o \in Seq(1 .. Len(s)) /\ m > 1 /\ o[1] = 1 /\ m \in Nat
      /\ \A j, k \in 1 .. m : j < k => o[j] < o[k]
      /\ \A k \in 1 .. m : o[k] \in 1 .. Len(s) /\ o[k] \in Nat /\ o[k] >= 1
      /\ \A k \in 1 .. m : Len(s[o[k]]) = 1 /\ s[o[k]][1].slots = 0 /\ (o[k] > 1 => s[o[k]][1].braces)
  BY DEF Opened
<1>2. p = o[m]
  BY DEF Last
<1>3. f \in Seq(1 .. Len(s)) /\ Len(f) = m - 1 /\ \A i \in 1 .. (m - 1) : f[i] = o[i]
  <2>1. Len(o) >= 1
    BY <1>1
  <2> QED BY <1>1, <2>1, FrontIs
<1> HIDE DEF m, f, p
<1>4. ASSUME NEW k \in 1 .. (m - 1)
      PROVE  /\ f[k] = o[k] /\ o[k] \in 1 .. (p - 1) /\ o[k] \in 1 .. p /\ o[k] \in Nat /\ k \in 1 .. m
             /\ r[o[k]] = s[o[k]]
  <2>1. k \in 1 .. m /\ m \in 1 .. m /\ k < m
    BY <1>1
  <2>2. o[k] < o[m] /\ o[k] \in Nat /\ o[k] >= 1 /\ o[m] \in Nat
    BY <1>1, <2>1
  <2>3. o[k] \in 1 .. (p - 1) /\ o[k] \in 1 .. p
    BY <1>2, <2>2
  <2> QED BY <1>3, <2>1, <2>2, <2>3 DEF p
<1>5. f \in Seq(1 .. Len(r))
  <2>1. \A k \in 1 .. Len(f) : f[k] \in 1 .. Len(r)
    BY <1>3, <1>4 DEF p
  <2> QED BY <1>3, <2>1, InSeq
<1>6. Len(f) >= 1 /\ f[1] = 1
  <2>1. 1 \in 1 .. (m - 1) /\ m - 1 >= 1
    BY <1>1
  <2> QED BY <1>1, <1>3, <2>1
<1>7. \A j, k \in 1 .. Len(f) : j < k => f[j] < f[k]
  BY <1>1, <1>3, <1>4
<1>8. \A k \in 1 .. Len(f) :
        Len(r[f[k]]) = 1 /\ r[f[k]][1].slots = 0 /\ (f[k] > 1 => r[f[k]][1].braces)
  <2>1. ASSUME NEW k \in 1 .. (m - 1)
        PROVE  Len(r[f[k]]) = 1 /\ r[f[k]][1].slots = 0 /\ (f[k] > 1 => r[f[k]][1].braces)
    <3>1. k \in 1 .. m /\ f[k] = o[k] /\ r[f[k]] = s[o[k]]
      BY <1>4
    <3>2. Len(s[o[k]]) = 1 /\ s[o[k]][1].slots = 0 /\ (o[k] > 1 => s[o[k]][1].braces)
      BY <1>1, <3>1
    <3> QED BY <3>1, <3>2, Zenon
  <2> QED BY <1>3, <2>1
<1>9. Opened(r, f)
  BY <1>5, <1>6, <1>7, <1>8 DEF Opened
<1> QED BY <1>9 DEF f

-----------------------------------------------------------------------------
(* The tokens left.                                                        *)
TokenOf(q, i) == IF i <= Len(q) THEN q[i] ELSE "end"

(* A token looked at is one of the text, or its end.                       *)
LEMMA TokenIs ==
  ASSUME NEW q \in Seq(Tokens), NEW i \in 1 .. 2
  PROVE  /\ i <= Len(q) => TokenOf(q, i) = q[i] /\ q[i] \in Tokens /\ TokenOf(q, i) # "end"
         /\ ~(i <= Len(q)) => TokenOf(q, i) = "end"
         /\ TokenOf(q, i) # "end" => i <= Len(q)
<1>1. i <= Len(q) => i \in 1 .. Len(q)
  OBVIOUS
<1>2. i <= Len(q) => q[i] \in Tokens
  BY <1>1
<1>3. "end" \notin Tokens
  BY TokensDiffer DEF Tokens, Braces
<1> QED BY <1>2, <1>3 DEF TokenOf

(* A balanced text has no token the tokenizer fails on.                    *)
LEMMA BalancedTokens ==
  ASSUME NEW q, NEW n, NEW m, Balanced(q, n, m)
  PROVE  /\ q \in Seq(Words \cup Braces) /\ q \in Seq(Tokens)
         /\ \A i \in 1 .. Len(q) : q[i] \in Words \cup Braces /\ q[i] # "bad"
<1>1. q \in Seq(Words \cup Braces)
  BY DEF Balanced
<1>2. \A i \in 1 .. Len(q) : q[i] \in Words \cup Braces
  BY <1>1, ElementOfSeq
<1>3. Words \cup Braces \subseteq Tokens
  BY DEF Tokens
<1>4. q \in Seq(Tokens)
  BY <1>1, <1>3, SeqMonotonic
<1>5. "bad" \notin Words \cup Braces
  BY TokensDiffer DEF Braces
<1> QED BY <1>1, <1>2, <1>4, <1>5

(* The tokens after one is taken,                                          *)
LEMMA TokensAfter ==
  ASSUME NEW q \in Seq(Tokens), Len(q) >= 1
  PROVE  /\ SubSeq(q, 1 + 1, Len(q)) \in Seq(Tokens) /\ Tail(q) \in Seq(Tokens)
         /\ SubSeq(q, 1 + 1, Len(q)) = SubSeq(q, 2, Len(q)) /\ Tail(q) = SubSeq(q, 2, Len(q))
         /\ Len(SubSeq(q, 2, Len(q))) = Len(q) - 1 /\ Len(q) \in Nat
         /\ \A i \in 1 .. (Len(q) - 1) : SubSeq(q, 2, Len(q))[i] = q[1 + i]
<1>1. RestOf(Tokens, q)
  BY OfRest
<1>2. /\ SubSeq(q, 2, Len(q)) \in Seq(Tokens) /\ Len(SubSeq(q, 2, Len(q))) = Len(q) - 1
      /\ \A i \in 1 .. (Len(q) - 1) : SubSeq(q, 2, Len(q))[i] = q[1 + i]
  BY ONLY <1>1 DEF RestOf
<1>3. q # <<>> /\ Len(q) \in Nat
  BY EmptySeq
<1>4. Tail(q) = SubSeq(q, 2, Len(q))
  BY <1>3, TailIsSubSeq
<1>5. 1 + 1 = 2
  OBVIOUS
<1> QED BY <1>2, <1>3, <1>4, <1>5, Zenon

(* and after two.                                                          *)
LEMMA TokensTwice ==
  ASSUME NEW q \in Seq(Tokens), Len(q) >= 2
  PROVE  LET r == SubSeq(q, 2, Len(q)) IN
         /\ SubSeq(q, 2 + 1, Len(q)) = SubSeq(r, 2, Len(r))
         /\ SubSeq(q, 2 + 1, Len(q)) \in Seq(Tokens)
         /\ r \in Seq(Tokens) /\ Len(r) >= 1 /\ r[1] = q[2]
<1> DEFINE r == SubSeq(q, 2, Len(q))
           v == SubSeq(r, 2, Len(r))
           u == SubSeq(q, 3, Len(q))
           n == Len(q)
<1>1. r \in Seq(Tokens) /\ Len(r) = n - 1 /\ n \in Nat /\ n >= 2
      /\ \A i \in 1 .. (n - 1) : r[i] = q[1 + i]
  <2>1. Len(q) >= 1
    OBVIOUS
  <2> QED BY <2>1, TokensAfter
<1> HIDE DEF r
<1>2. Len(r) >= 1 /\ r[1] = q[2]
  <2>1. 1 \in 1 .. (n - 1) /\ 1 + 1 = 2 /\ n - 1 >= 1
    <3> HIDE DEF n
    <3> QED BY <1>1
  <2> QED BY <1>1, <2>1
<1>3. v \in Seq(Tokens) /\ Len(v) = (n - 1) - 1 /\ \A i \in 1 .. ((n - 1) - 1) : v[i] = r[1 + i]
  <2>1. v \in Seq(Tokens) /\ Len(v) = Len(r) - 1 /\ \A i \in 1 .. (Len(r) - 1) : v[i] = r[1 + i]
    <3> HIDE DEF v, n
    <3>1. SubSeq(r, 2, Len(r)) \in Seq(Tokens) /\ Len(SubSeq(r, 2, Len(r))) = Len(r) - 1
          /\ \A i \in 1 .. (Len(r) - 1) : SubSeq(r, 2, Len(r))[i] = r[1 + i]
      <4>1. RestOf(Tokens, r)
        BY <1>1, <1>2, OfRest
      <4> QED BY ONLY <4>1 DEF RestOf
    <3> QED BY <3>1 DEF v
  <2> HIDE DEF v, n
  <2> QED BY <1>1, <2>1
<1>4. u \in Seq(Tokens) /\ Len(u) = n - (3 - 1) /\ \A i \in 1 .. (n - (3 - 1)) : u[i] = q[(3 - 1) + i]
  <2>1. 3 \in 1 .. (n + 1) /\ n \in (3 - 1) .. n
    <3> HIDE DEF n
    <3> QED BY <1>1
  <2>2. PartIs(Tokens, q, 3, n)
    BY <2>1, PartOf
  <2> QED BY ONLY <2>2 DEF PartIs, u, n
<1> HIDE DEF u, v, n
<1>5. Len(u) = Len(v) /\ \A i \in 1 .. Len(u) : u[i] = v[i]
  <2>1. n - (3 - 1) = (n - 1) - 1
    BY <1>1
  <2>2. ASSUME NEW i \in 1 .. (n - (3 - 1)) PROVE u[i] = v[i]
    <3>1. i \in 1 .. ((n - 1) - 1) /\ 1 + i \in 1 .. (n - 1) /\ 1 + (1 + i) = (3 - 1) + i
      BY <1>1
    <3>2. u[i] = q[(3 - 1) + i] /\ v[i] = r[1 + i] /\ r[1 + i] = q[1 + (1 + i)]
      BY <1>1, <1>3, <1>4, <3>1
    <3> QED BY <3>1, <3>2, Zenon
  <2> QED BY <1>3, <1>4, <2>1, <2>2
<1>6. u = v
  BY <1>3, <1>4, <1>5, SeqEqual
<1>7. 2 + 1 = 3
  OBVIOUS
<1>8. SubSeq(q, 2 + 1, Len(q)) = u
  BY <1>7 DEF u
<1>9. /\ SubSeq(q, 2 + 1, Len(q)) = v /\ SubSeq(q, 2 + 1, Len(q)) \in Seq(Tokens)
      /\ r \in Seq(Tokens) /\ Len(r) >= 1 /\ r[1] = q[2]
  BY <1>1, <1>2, <1>3, <1>6, <1>8, Zenon
<1> QED BY ONLY <1>9 DEF r, v

(* A token changes the nesting by an integer.                              *)
LEMMA NestInt ==
  ASSUME NEW x
  PROVE  Nest(x) \in Int
BY DEF Nest

OpenBrace(x) == x = "{"
CloseBrace(x) == x = "}"

(* What is balanced is left balanced: as many objects are open as before,  *)
(* one more after a brace that opens, one less after one that closes.      *)
LEMMA Taken ==
  ASSUME NEW r, NEW q, NEW o, TokensLeft(r, q, o), Len(o) \in Nat, Len(o) >= 1, Len(q) >= 1,
         NEW u, Len(u) = Len(o) + Nest(q[1])
  PROVE  TokensLeft(r, SubSeq(q, 2, Len(q)), u)
<1>1. q \in Seq(Tokens) /\ (r # "client" => Balanced(q, Len(o) - 1, 0))
  BY DEF TokensLeft
<1>2. SubSeq(q, 2, Len(q)) \in Seq(Tokens)
  BY <1>1, TokensAfter
<1>3. ASSUME r # "client" PROVE Balanced(SubSeq(q, 2, Len(q)), Len(u) - 1, 0)
  <2>1. Balanced(q, Len(o) - 1, 0)
    BY <1>1, <1>3
  <2> DEFINE n == Len(o) - 1
             x == Nest(q[1])
             m == Len(u)
  <2>2. n \in Nat /\ n = Len(o) - 1
    OBVIOUS
  <2>3. n + x \in Nat /\ Balanced(SubSeq(q, 2, Len(q)), n + x, 0)
    <3> HIDE DEF n
    <3> QED BY <2>1, <2>2, BalancedRest
  <2>4. x \in Int
    BY NestInt
  <2>5. m = Len(o) + x
    OBVIOUS
  <2> HIDE DEF n, x, m
  <2>6. n + x = m - 1
    BY <2>2, <2>4, <2>5
  <2>7. Balanced(SubSeq(q, 2, Len(q)), m - 1, 0)
    BY <2>3, <2>6, Zenon
  <2> QED BY <2>7 DEF m
<1> QED BY <1>2, <1>3, Zenon DEF TokensLeft

(* The token looked at is the first of those left.                         *)
LEMMA FirstToken ==
  ASSUME NEW r, NEW q, NEW o, TokensLeft(r, q, o), TokenOf(q, 1) # "end"
  PROVE  /\ q \in Seq(Tokens) /\ Len(q) \in Nat /\ Len(q) >= 1
         /\ TokenOf(q, 1) = q[1]
         /\ Tail(q) = SubSeq(q, 2, Len(q)) /\ SubSeq(q, 1 + 1, Len(q)) = SubSeq(q, 2, Len(q))
<1>1. q \in Seq(Tokens)
  BY DEF TokensLeft
<1>2. 1 \in 1 .. 2
  OBVIOUS
<1>3. 1 <= Len(q) /\ TokenOf(q, 1) = q[1] /\ Len(q) \in Nat
  BY <1>1, <1>2, TokenIs
<1>4. Len(q) >= 1
  BY <1>3
<1> QED BY <1>1, <1>3, <1>4, TokensAfter

(* A command's text closes what is open after a word is taken,             *)
LEMMA WordTaken ==
  ASSUME NEW r, NEW q, NEW o, TokensLeft(r, q, o), Len(o) \in Nat, Len(o) >= 1, TokenOf(q, 1) \in Words
  PROVE  TokensLeft(r, SubSeq(q, 1 + 1, Len(q)), o) /\ q[1] \in Words
<1>1. TokenOf(q, 1) # "end"
  BY TokensDiffer
<1>2. q[1] \in Words /\ Len(q) >= 1 /\ SubSeq(q, 1 + 1, Len(q)) = SubSeq(q, 2, Len(q))
  BY <1>1, FirstToken
<1>3. Len(o) = Len(o) + Nest(q[1])
  <2>1. Nest(q[1]) = 0
    BY <1>2, NestIs
  <2> QED BY <2>1
<1>4. TokensLeft(r, SubSeq(q, 2, Len(q)), o)
  BY <1>2, <1>3, Taken
<1> QED BY <1>2, <1>4, Zenon

(* an opening brace,                                                       *)
LEMMA BraceTaken ==
  ASSUME NEW r, NEW q, NEW o, TokensLeft(r, q, o), Len(o) \in Nat, Len(o) >= 1, OpenBrace(TokenOf(q, 1)),
         NEW u, Len(u) = Len(o) + 1
  PROVE  TokensLeft(r, SubSeq(q, 1 + 1, Len(q)), u)
<1>1. TokenOf(q, 1) # "end"
  BY TokensDiffer DEF OpenBrace
<1>2. OpenBrace(q[1]) /\ Len(q) >= 1 /\ SubSeq(q, 1 + 1, Len(q)) = SubSeq(q, 2, Len(q))
  BY <1>1, FirstToken
<1>3. Len(u) = Len(o) + Nest(q[1])
  <2>1. Nest(q[1]) = 1
    BY <1>2, NestIs, Zenon DEF OpenBrace
  <2> QED BY <2>1
<1>4. TokensLeft(r, SubSeq(q, 2, Len(q)), u)
  BY <1>2, <1>3, Taken
<1> QED BY <1>2, <1>4, Zenon

(* a word and an opening brace,                                            *)
LEMMA ObjectTaken ==
  ASSUME NEW r, NEW q, NEW o, TokensLeft(r, q, o), Len(o) \in Nat, Len(o) >= 1,
         TokenOf(q, 1) \in Words, OpenBrace(TokenOf(q, 2)), NEW u, Len(u) = Len(o) + 1
  PROVE  TokensLeft(r, SubSeq(q, 2 + 1, Len(q)), u) /\ q[1] \in Words
<1> DEFINE v == SubSeq(q, 2, Len(q))
<1>1. TokensLeft(r, SubSeq(q, 1 + 1, Len(q)), o) /\ q[1] \in Words
  BY WordTaken
<1>2. q \in Seq(Tokens) /\ 2 \in 1 .. 2 /\ TokenOf(q, 2) # "end"
  <2>1. 2 \in 1 .. 2
    OBVIOUS
  <2>2. TokenOf(q, 2) # "end"
    BY TokensDiffer DEF OpenBrace
  <2>3. q \in Seq(Tokens)
    BY Zenon DEF TokensLeft
  <2> QED BY <2>1, <2>2, <2>3
<1>3. 2 <= Len(q) /\ OpenBrace(q[2])
  BY <1>2, TokenIs
<1>4. Len(q) >= 2 /\ Len(q) \in Nat
  BY <1>2, <1>3
<1>5. /\ SubSeq(q, 2 + 1, Len(q)) = SubSeq(v, 2, Len(v))
      /\ Len(v) >= 1 /\ v[1] = q[2] /\ v \in Seq(Tokens)
  BY <1>2, <1>4, TokensTwice
<1>6. SubSeq(q, 1 + 1, Len(q)) = v
  <2>1. 1 + 1 = 2
    OBVIOUS
  <2> QED BY <2>1, Zenon
<1> HIDE DEF v
<1>7. OpenBrace(TokenOf(v, 1))
  <2>1. 1 <= Len(v)
    BY <1>5
  <2> QED BY <1>3, <1>5, <2>1, Zenon DEF TokenOf
<1>8. TokensLeft(r, v, o)
  BY <1>1, <1>6, Zenon
<1>9. TokensLeft(r, SubSeq(v, 1 + 1, Len(v)), u)
  BY <1>7, <1>8, BraceTaken
<1>10. SubSeq(v, 1 + 1, Len(v)) = SubSeq(v, 2, Len(v))
  <2>1. 1 + 1 = 2
    OBVIOUS
  <2> QED BY <2>1, Zenon
<1> QED BY <1>1, <1>5, <1>9, <1>10, Zenon

(* or a closing one.                                                       *)
LEMMA CloseTaken ==
  ASSUME NEW r, NEW q, NEW o, TokensLeft(r, q, o), Len(o) \in Nat, Len(o) > 1, CloseBrace(TokenOf(q, 1)),
         NEW u, Len(u) = Len(o) - 1
  PROVE  TokensLeft(r, Tail(q), u)
<1>1. TokenOf(q, 1) # "end"
  BY TokensDiffer DEF CloseBrace
<1>2. CloseBrace(q[1]) /\ Len(q) >= 1 /\ Tail(q) = SubSeq(q, 2, Len(q))
  BY <1>1, FirstToken
<1>3. Len(u) = Len(o) + Nest(q[1]) /\ Len(o) >= 1
  <2>1. Nest(q[1]) = -1
    BY <1>2, NestIs, Zenon DEF CloseBrace
  <2> QED BY <2>1
<1>4. TokensLeft(r, SubSeq(q, 2, Len(q)), u)
  BY <1>2, <1>3, Taken
<1> QED BY <1>2, <1>4, Zenon

(* A command's text is not found wrong.                                    *)
LEMMA CommandParses ==
  ASSUME NEW r, r # "client", NEW q, NEW o, TokensLeft(r, q, o), Len(o) \in Nat, Len(o) >= 1
  PROVE  /\ CloseBrace(TokenOf(q, 1)) => Len(o) # 1
         /\ TokenOf(q, 1) = "end" => Len(o) = 1
         /\ TokenOf(q, 1) # "bad" /\ TokenOf(q, 2) # "bad"
<1> DEFINE n == Len(o) - 1
<1>1. Balanced(q, n, 0) /\ q \in Seq(Tokens)
  BY Zenon DEF TokensLeft
<1>2. n \in Nat
  OBVIOUS
<1>3. ASSUME CloseBrace(TokenOf(q, 1)) PROVE n # 0
  <2>1. TokenOf(q, 1) # "end"
    BY <1>3, TokensDiffer DEF CloseBrace
  <2>2. q[1] = "}" /\ Len(q) >= 1
    BY <1>3, <2>1, FirstToken DEF CloseBrace
  <2>3. n + Nest(q[1]) \in Nat
    <3> HIDE DEF n
    <3> QED BY <1>1, <1>2, <2>2, BalancedRest
  <2>4. Nest(q[1]) = -1
    BY <2>2, NestIs, Zenon
  <2> HIDE DEF n
  <2> QED BY <1>2, <2>3, <2>4
<1>4. ASSUME TokenOf(q, 1) = "end" PROVE n = 0
  <2>1. 1 \in 1 .. 2
    OBVIOUS
  <2>2. ~(1 <= Len(q))
    BY <1>1, <1>4, <2>1, TokenIs
  <2>3. Len(q) = 0
    BY <1>1, <2>2
  <2> HIDE DEF n
  <2> QED BY <1>1, <2>3, BalancedEnd
<1>5. ASSUME NEW i \in 1 .. 2 PROVE TokenOf(q, i) # "bad"
  <2>1. CASE i <= Len(q)
    <3>1. i \in 1 .. Len(q)
      BY <1>1, <2>1
    <3>2. q[i] # "bad"
      BY <1>1, <3>1, BalancedTokens
    <3> QED BY <2>1, <3>2 DEF TokenOf
  <2>2. CASE ~(i <= Len(q))
    BY <2>2, TokensDiffer DEF TokenOf
  <2> QED BY <2>1, <2>2
<1>6. 1 \in 1 .. 2 /\ 2 \in 1 .. 2
  OBVIOUS
<1>7. n # 0 => Len(o) # 1
  OBVIOUS
<1>8. n = 0 => Len(o) = 1
  OBVIOUS
<1> HIDE DEF n
<1> QED BY <1>3, <1>4, <1>5, <1>6, <1>7, <1>8

-----------------------------------------------------------------------------
(* Commands and their flags.                                               *)
CommandsAre(s) ==
  /\ s \in Seq(CommandFields) /\ Len(s) \in Nat /\ DOMAIN s = 1 .. Len(s)
  /\ \A i \in 1 .. Len(s) : s[i] \in CommandFields /\ CommandIs(s[i]) /\ s[i].lastInGroup \in BOOLEAN
  /\ Flags(s) = {i \in 1 .. Len(s) : s[i].lastInGroup}
  /\ IsFiniteSet(Flags(s)) /\ Cardinality(Flags(s)) \in Nat

(* A set of positions is finite.                                           *)
LEMMA SmallSet ==
  ASSUME NEW n \in Nat, NEW S, S \subseteq 1 .. n
  PROVE  IsFiniteSet(S) /\ Cardinality(S) \in Nat
<1>1. IsFiniteSet(1 .. n)
  <2>1. 1 \in Int /\ n \in Int
    OBVIOUS
  <2> QED BY <2>1, FS_Interval
<1>2. S \in SUBSET (1 .. n)
  OBVIOUS
<1>3. IsFiniteSet(S)
  BY <1>1, <1>2, FS_Subset
<1> QED BY <1>3, FS_CardinalityType

(* The commands of a list and its flagged positions.                       *)
LEMMA TheCommands ==
  ASSUME NEW s, CommandList(s)
  PROVE  CommandsAre(s)
<1>1. s \in Seq(CommandFields) /\ \A i \in 1 .. Len(s) : CommandIs(s[i])
  BY DEF CommandList
<1>2. Len(s) \in Nat /\ DOMAIN s = 1 .. Len(s)
  BY <1>1, LenProperties
<1>3. \A i \in 1 .. Len(s) : s[i] \in CommandFields
  BY <1>1, ElementOfSeq
<1>4. \A c \in CommandFields : c.lastInGroup \in BOOLEAN
  BY DEF CommandFields
<1>5. Flags(s) = {i \in 1 .. Len(s) : s[i].lastInGroup}
  BY <1>2 DEF Flags
<1>6. IsFiniteSet(Flags(s)) /\ Cardinality(Flags(s)) \in Nat
  <2>1. Flags(s) \subseteq 1 .. Len(s)
    BY <1>5
  <2> QED BY <1>2, <2>1, SmallSet
<1> QED BY <1>1, <1>2, <1>3, <1>4, <1>5, <1>6 DEF CommandsAre

(* A sequence is what comes first and what comes after it.                 *)
SplitInto(X, q, n) ==
  LET A == SubSeq(q, 1, n)
      B == SubSeq(q, n + 1, Len(q))
  IN  /\ A \in Seq(X) /\ Len(A) = n /\ \A i \in 1 .. n : A[i] = q[i]
      /\ B \in Seq(X) /\ Len(B) = Len(q) - n /\ \A i \in 1 .. (Len(q) - n) : B[i] = q[n + i]
      /\ q = A \o B

(* A list cut in two.                                                      *)
LEMMA SplitSeq ==
  ASSUME NEW X, NEW q \in Seq(X), NEW n \in 0 .. Len(q)
  PROVE  SplitInto(X, q, n)
<1> DEFINE A == SubSeq(q, 1, n)
           B == SubSeq(q, n + 1, Len(q))
           l == Len(q)
<1>1. l \in Nat /\ n \in Nat /\ n <= l
  OBVIOUS
<1>2. PartIs(X, q, 1, n) /\ PartIs(X, q, n + 1, l)
  <2>1. 1 \in 1 .. (Len(q) + 1) /\ n \in (1 - 1) .. Len(q)
        /\ n + 1 \in 1 .. (Len(q) + 1) /\ Len(q) \in ((n + 1) - 1) .. Len(q)
    BY <1>1
  <2>2. PartIs(X, q, 1, n)
    BY <2>1, PartOf
  <2>3. PartIs(X, q, n + 1, Len(q))
    BY <2>1, PartOf
  <2> QED BY <2>2, <2>3
<1>3. A \in Seq(X) /\ Len(A) = n - (1 - 1) /\ \A i \in 1 .. (n - (1 - 1)) : A[i] = q[(1 - 1) + i]
  BY ONLY <1>2 DEF PartIs, A
<1>4. B \in Seq(X) /\ Len(B) = l - ((n + 1) - 1) /\ \A i \in 1 .. (l - ((n + 1) - 1)) : B[i] = q[((n + 1) - 1) + i]
  BY ONLY <1>2 DEF PartIs, B, l
<1> HIDE DEF A, B, l
<1>5. Len(A) = n /\ \A i \in 1 .. n : A[i] = q[i]
  <2>1. n - (1 - 1) = n /\ \A i \in 1 .. n : (1 - 1) + i = i
    BY <1>1
  <2> QED BY <1>3, <2>1
<1>6. Len(B) = l - n /\ \A i \in 1 .. (l - n) : B[i] = q[n + i]
  <2>1. l - ((n + 1) - 1) = l - n /\ (n + 1) - 1 = n
    BY <1>1
  <2> QED BY <1>4, <2>1
<1>7. q = A \o B
  <2>1. /\ A \o B \in Seq(X) /\ Len(A \o B) = Len(A) + Len(B)
        /\ \A k \in 1 .. Len(A) : (A \o B)[k] = A[k]
        /\ \A k \in 1 .. Len(B) : (A \o B)[Len(A) + k] = B[k]
    <3>1. ThingsJoined(X, A, B)
      BY <1>3, <1>4, JoinedThings
    <3> QED BY ONLY <3>1 DEF ThingsJoined
  <2> DEFINE w == A \o B
  <2> HIDE DEF w
  <2>2. w \in Seq(X) /\ Len(w) = n + (l - n) /\ (\A k \in 1 .. n : w[k] = A[k])
        /\ \A k \in 1 .. (l - n) : w[n + k] = B[k]
    BY <1>5, <1>6, <2>1 DEF w
  <2>3. ASSUME NEW i \in 1 .. l PROVE q[i] = w[i]
    <3>1. CASE i <= n
      <4>1. i \in 1 .. n
        BY <1>1, <3>1
      <4> QED BY <1>5, <2>2, <4>1
    <3>2. CASE ~(i <= n)
      <4>1. i - n \in 1 .. (l - n) /\ n + (i - n) = i
        BY <1>1, <3>2
      <4>2. w[n + (i - n)] = B[i - n] /\ B[i - n] = q[n + (i - n)]
        BY <1>6, <2>2, <4>1
      <4> QED BY <4>1, <4>2, Zenon
    <3> QED BY <3>1, <3>2
  <2>4. Len(w) = l
    BY <1>1, <2>2
  <2>5. q = w
    BY <2>2, <2>3, <2>4, SeqEqual DEF l
  <2> QED BY <2>5 DEF w
<1>8. /\ A \in Seq(X) /\ Len(A) = n /\ \A i \in 1 .. n : A[i] = q[i]
      /\ B \in Seq(X) /\ Len(B) = Len(q) - n /\ \A i \in 1 .. (Len(q) - n) : B[i] = q[n + i]
      /\ q = A \o B
  BY <1>3, <1>4, <1>5, <1>6, <1>7 DEF l
<1> QED BY ONLY <1>8 DEF SplitInto, A, B

(* The flags of two lists of commands, one after the other.                *)
FlagsJoined(a, b) ==
  /\ CommandList(a \o b) /\ Len(a \o b) = Len(a) + Len(b)
  /\ \A i \in 1 .. Len(a) : (a \o b)[i] = a[i]
  /\ \A i \in 1 .. Len(b) : (a \o b)[Len(a) + i] = b[i]
  /\ Cardinality(Flags(a \o b)) = Cardinality(Flags(a)) + Cardinality(Flags(b))
  /\ FlagsUpTo(a \o b, Len(a)) = Flags(a)

(* The flagged positions of two lists joined.                              *)
LEMMA JoinedFlags ==
  ASSUME NEW a, CommandList(a), NEW b, CommandList(b)
  PROVE  FlagsJoined(a, b)
<1> DEFINE u == a \o b
           m == Len(a)
           n == Len(b)
           S == {m + k : k \in Flags(b)}
<1>1. CommandsAre(a) /\ CommandsAre(b)
  BY TheCommands
<1>2. /\ a \in Seq(CommandFields) /\ m \in Nat
      /\ \A i \in 1 .. m : CommandIs(a[i])
      /\ Flags(a) = {i \in 1 .. m : a[i].lastInGroup}
      /\ IsFiniteSet(Flags(a)) /\ Cardinality(Flags(a)) \in Nat
  BY ONLY <1>1 DEF CommandsAre
<1>3. /\ b \in Seq(CommandFields) /\ n \in Nat
      /\ \A i \in 1 .. n : CommandIs(b[i])
      /\ Flags(b) = {i \in 1 .. n : b[i].lastInGroup}
      /\ IsFiniteSet(Flags(b)) /\ Cardinality(Flags(b)) \in Nat
  BY ONLY <1>1 DEF CommandsAre
<1>4. /\ u \in Seq(CommandFields) /\ Len(u) = m + n
      /\ \A k \in 1 .. m : u[k] = a[k]
      /\ \A k \in 1 .. n : u[m + k] = b[k]
  <2>1. ThingsJoined(CommandFields, a, b)
    BY <1>2, <1>3, JoinedThings
  <2> QED BY ONLY <2>1 DEF ThingsJoined
<1> HIDE DEF u, m, n
<1>5. \A k \in 1 .. (m + n) : k \in 1 .. m \/ (k - m \in 1 .. n /\ m + (k - m) = k)
  BY <1>2, <1>3
<1>6. CommandList(u)
  <2>1. \A k \in 1 .. (m + n) : CommandIs(u[k])
    BY <1>2, <1>3, <1>4, <1>5
  <2> QED BY <1>4, <2>1 DEF CommandList
<1>7. Flags(u) = {i \in 1 .. (m + n) : u[i].lastInGroup}
  <2>1. CommandsAre(u)
    BY <1>6, TheCommands
  <2>2. Flags(u) = {i \in 1 .. Len(u) : u[i].lastInGroup}
    BY ONLY <2>1 DEF CommandsAre
  <2> QED BY <1>4, <2>2
<1>8. \A k \in 1 .. n : m + k \in 1 .. (m + n) /\ ~(m + k \in 1 .. m)
  BY <1>2, <1>3
<1>9. \A k \in 1 .. m : k \in 1 .. (m + n) /\ k <= m
  BY <1>2, <1>3
<1>10. Flags(u) = Flags(a) \cup S
  <2>1. ASSUME NEW i \in Flags(u) PROVE i \in Flags(a) \cup S
    <3>1. i \in 1 .. (m + n) /\ u[i].lastInGroup
      BY <1>7, <2>1
    <3>2. CASE i \in 1 .. m
      BY <1>2, <1>4, <3>1, <3>2
    <3>3. CASE i - m \in 1 .. n /\ m + (i - m) = i
      <4>1. i - m \in Flags(b)
        BY <1>3, <1>4, <3>1, <3>3
      <4> QED BY <3>3, <4>1
    <3> QED BY <1>5, <3>1, <3>2, <3>3
  <2>2. ASSUME NEW i \in Flags(a) PROVE i \in Flags(u)
    BY <1>2, <1>4, <1>7, <1>9, <2>2
  <2>3. ASSUME NEW k \in Flags(b) PROVE m + k \in Flags(u)
    BY <1>3, <1>4, <1>7, <1>8, <2>3
  <2> QED BY <2>1, <2>2, <2>3
<1>11. Flags(a) \cap S = {}
  BY <1>2, <1>3, <1>8
<1>12. IsFiniteSet(S) /\ Cardinality(S) = Cardinality(Flags(b))
  <2>1. Flags(b) \subseteq Int /\ m \in Int
    BY <1>2, <1>3
  <2> QED BY <1>3, <2>1, ShiftedSet
<1> HIDE DEF S
<1>13. Cardinality(Flags(u)) = Cardinality(Flags(a)) + Cardinality(Flags(b))
  <2>1. Cardinality(Flags(a) \cup S) = Cardinality(Flags(a)) + Cardinality(S) - Cardinality(Flags(a) \cap S)
    BY <1>2, <1>12, FS_Union
  <2>2. Cardinality(Flags(a) \cap S) = 0
    BY <1>11, FS_EmptySet
  <2> QED BY <1>2, <1>3, <1>10, <1>12, <2>1, <2>2
<1>14. FlagsUpTo(u, m) = Flags(a)
  <2>1. \A i \in 1 .. (m + n) : i <= m <=> i \in 1 .. m
    BY <1>2, <1>3
  <2>2. ASSUME NEW i \in FlagsUpTo(u, m) PROVE i \in Flags(a)
    BY <1>2, <1>4, <1>7, <2>1, <2>2 DEF FlagsUpTo
  <2>3. ASSUME NEW i \in Flags(a) PROVE i \in FlagsUpTo(u, m)
    BY <1>2, <1>4, <1>7, <1>9, <2>3 DEF FlagsUpTo
  <2> QED BY <2>2, <2>3
<1> QED BY ONLY <1>4, <1>6, <1>13, <1>14 DEF FlagsJoined, u, m, n

(* A list of commands is what comes first and what comes after it.         *)
CommandsSplit(h, n) ==
  LET A == SubSeq(h, 1, n)
      B == SubSeq(h, n + 1, Len(h))
  IN  /\ CommandList(A) /\ Len(A) = n /\ \A i \in 1 .. n : A[i] = h[i]
      /\ CommandList(B) /\ Len(B) = Len(h) - n /\ \A i \in 1 .. (Len(h) - n) : B[i] = h[n + i]
      /\ Cardinality(Flags(h)) = Cardinality(Flags(A)) + Cardinality(Flags(B))
      /\ FlagsUpTo(h, n) = Flags(A)
      /\ Cardinality(Flags(h)) \in Nat /\ Cardinality(Flags(A)) \in Nat /\ Cardinality(Flags(B)) \in Nat

(* The commands before and after a cut and their flags.                    *)
LEMMA SplitCommands ==
  ASSUME NEW h, CommandList(h), NEW n \in 0 .. Len(h)
  PROVE  CommandsSplit(h, n)
<1> DEFINE A == SubSeq(h, 1, n)
           B == SubSeq(h, n + 1, Len(h))
           l == Len(h)
<1>1. CommandsAre(h)
  BY TheCommands
<1>2. h \in Seq(CommandFields) /\ l \in Nat /\ \A i \in 1 .. l : CommandIs(h[i])
  BY ONLY <1>1 DEF CommandsAre
<1>3. SplitInto(CommandFields, h, n)
  BY <1>2, SplitSeq
<1>4. /\ A \in Seq(CommandFields) /\ Len(A) = n /\ \A i \in 1 .. n : A[i] = h[i]
      /\ B \in Seq(CommandFields) /\ Len(B) = l - n /\ \A i \in 1 .. (l - n) : B[i] = h[n + i]
      /\ h = A \o B
  BY ONLY <1>3 DEF SplitInto
<1> HIDE DEF A, B
<1>5. (\A i \in 1 .. n : i \in 1 .. l) /\ \A i \in 1 .. (l - n) : n + i \in 1 .. l
  BY <1>2
<1>6. CommandList(A) /\ CommandList(B)
  BY <1>2, <1>4, <1>5 DEF CommandList
<1>7. FlagsJoined(A, B)
  BY <1>6, JoinedFlags
<1>8. /\ Cardinality(Flags(A \o B)) = Cardinality(Flags(A)) + Cardinality(Flags(B))
      /\ FlagsUpTo(A \o B, Len(A)) = Flags(A)
  BY ONLY <1>7 DEF FlagsJoined
<1>9. /\ Cardinality(Flags(h)) = Cardinality(Flags(A)) + Cardinality(Flags(B))
      /\ FlagsUpTo(h, n) = Flags(A)
  BY <1>4, <1>8, Zenon
<1>10. Cardinality(Flags(h)) \in Nat /\ Cardinality(Flags(A)) \in Nat /\ Cardinality(Flags(B)) \in Nat
  <2>1. CommandsAre(A) /\ CommandsAre(B) /\ CommandsAre(h)
    BY <1>6, TheCommands
  <2> QED BY ONLY <2>1 DEF CommandsAre
<1> QED BY ONLY <1>4, <1>6, <1>9, <1>10 DEF CommandsSplit, A, B, l

(* The reverse of an edit joins the group.                                 *)
LEMMA GroupGrows ==
  ASSUME NEW g, GroupIs(g), NEW c, CommandIs(c), c.lastInGroup = FALSE
  PROVE  GroupIs(Append(g, c)) /\ Len(Append(g, c)) = Len(g) + 1 /\ Len(g) \in Nat
<1> DEFINE u == Append(g, c)
           n == Len(g)
<1>1. CommandsAre(g) /\ Flags(g) = {}
  BY TheCommands DEF GroupIs
<1>2. g \in Seq(CommandFields) /\ n \in Nat /\ (\A i \in 1 .. n : CommandIs(g[i]))
      /\ {i \in 1 .. n : g[i].lastInGroup} = {}
  BY <1>1 DEF CommandsAre
<1>3. c \in CommandFields
  BY DEF CommandIs
<1>4. u \in Seq(CommandFields) /\ Len(u) = n + 1 /\ u[n + 1] = c /\ \A i \in 1 .. n : u[i] = g[i]
  BY <1>2, <1>3, AppendedThing
<1> HIDE DEF u, n
<1>5. \A i \in 1 .. (n + 1) : i = n + 1 \/ i \in 1 .. n
  BY <1>2
<1>6. CommandList(u)
  <2>1. \A i \in 1 .. (n + 1) : CommandIs(u[i])
    BY <1>2, <1>4, <1>5
  <2> QED BY <1>4, <2>1 DEF CommandList
<1>7. Flags(u) = {}
  <2>1. CommandsAre(u)
    BY <1>6, TheCommands
  <2>2. Flags(u) = {i \in 1 .. Len(u) : u[i].lastInGroup}
    BY ONLY <2>1 DEF CommandsAre
  <2>3. \A i \in 1 .. (n + 1) : ~u[i].lastInGroup
    BY <1>2, <1>4, <1>5
  <2> QED BY <1>4, <2>2, <2>3
<1> QED BY <1>2, <1>4, <1>6, <1>7 DEF GroupIs, u, n

(* A group gets its flag.                                                  *)
FlaggedIs(g) ==
  /\ CommandList(Flagged(g)) /\ Len(Flagged(g)) = Len(g) /\ Len(g) \in Nat
  /\ Flagged(g)[1].lastInGroup = TRUE
  /\ \A i \in 2 .. Len(g) : Flagged(g)[i].lastInGroup = FALSE
  /\ Flags(Flagged(g)) = {1}

(* A group when it is pushed: one command of it is flagged.                *)
LEMMA TheFlagged ==
  ASSUME NEW g, GroupIs(g), Len(g) >= 1
  PROVE  FlaggedIs(g)
<1> DEFINE c == [g[1] EXCEPT !.lastInGroup = TRUE]
           u == [g EXCEPT ![1] = c]
           n == Len(g)
<1>1. CommandsAre(g) /\ Flags(g) = {}
  BY TheCommands DEF GroupIs
<1>2. g \in Seq(CommandFields) /\ n \in Nat
      /\ (\A i \in 1 .. n : g[i] \in CommandFields /\ CommandIs(g[i]) /\ g[i].lastInGroup \in BOOLEAN)
      /\ {i \in 1 .. n : g[i].lastInGroup} = {}
  BY <1>1 DEF CommandsAre
<1>3. 1 \in 1 .. n
  BY <1>2
<1>4. c \in CommandFields /\ c.lastInGroup = TRUE /\ c.type = g[1].type /\ c.text = g[1].text
  BY <1>2, <1>3 DEF CommandFields
<1>5. CommandIs(c)
  BY <1>2, <1>3, <1>4 DEF CommandIs
<1> HIDE DEF c
<1>6. u \in Seq(CommandFields) /\ Len(u) = n /\ \A j \in 1 .. n : u[j] = IF j = 1 THEN c ELSE g[j]
  BY <1>2, <1>3, <1>4, ExceptSeq
<1> HIDE DEF u, n
<1>7. CommandList(u)
  BY <1>2, <1>5, <1>6 DEF CommandList
<1>8. \A j \in 2 .. n : j \in 1 .. n /\ j # 1
  BY <1>2
<1>9. u[1].lastInGroup = TRUE /\ \A i \in 2 .. n : u[i].lastInGroup = FALSE
  <2>1. u[1] = c
    BY <1>3, <1>6
  <2>2. ASSUME NEW i \in 2 .. n PROVE u[i].lastInGroup = FALSE
    <3>1. u[i] = g[i] /\ i \in 1 .. n
      BY <1>6, <1>8
    <3> QED BY <1>2, <3>1
  <2> QED BY <1>4, <2>1, <2>2
<1>10. Flags(u) = {1}
  <2>1. CommandsAre(u)
    BY <1>7, TheCommands
  <2>2. Flags(u) = {i \in 1 .. Len(u) : u[i].lastInGroup}
    BY ONLY <2>1 DEF CommandsAre
  <2>3. \A i \in 1 .. n : i = 1 \/ i \in 2 .. n
    BY <1>2
  <2> QED BY <1>3, <1>6, <1>9, <2>2, <2>3
<1>11. Flagged(g) = u
  BY DEF Flagged, u, c
<1> QED BY <1>2, <1>6, <1>7, <1>9, <1>10, <1>11 DEF FlaggedIs, n

(* The history keeps at least two groups.                                  *)
LEMMA MemoryAtLeast == MAX_COMMAND_MEMORY \in Nat /\ MAX_COMMAND_MEMORY >= 2
<1>1. MAX_COMMAND_MEMORY \in Nat \ {0, 1}
  BY ConstantsAssumption
<1> QED BY <1>1

RemainingOf(h, n, k) == k - Cardinality(Flags(SubSeq(h, n + 1, Len(h))))

(* The number of groups left to undo, found by counting the flags of the   *)
(* commands before the redo index, is within the memory.                   *)
LEMMA RemainingIs ==
  ASSUME NEW h, NEW n, NEW k, HistoryIs(h, n, k)
  PROVE  /\ RemainingOf(h, n, k) = Cardinality(FlagsUpTo(h, n))
         /\ RemainingOf(h, n, k) \in 0 .. MAX_COMMAND_MEMORY
         /\ FlagsUpTo(h, n) = Flags(SubSeq(h, 1, n))
<1>1. CommandList(h) /\ n \in 0 .. Len(h) /\ k = Cardinality(Flags(h)) /\ k <= MAX_COMMAND_MEMORY
  BY DEF HistoryIs
<1>2. CommandsSplit(h, n)
  BY <1>1, SplitCommands
<1> DEFINE a == Cardinality(Flags(SubSeq(h, 1, n)))
           b == Cardinality(Flags(SubSeq(h, n + 1, Len(h))))
<1>3. /\ Cardinality(Flags(h)) = a + b /\ FlagsUpTo(h, n) = Flags(SubSeq(h, 1, n))
      /\ a \in Nat /\ b \in Nat
  BY ONLY <1>2 DEF CommandsSplit
<1>4. RemainingOf(h, n, k) = k - b
  BY DEF RemainingOf
<1>5. Cardinality(FlagsUpTo(h, n)) = a
  BY <1>3, Zenon
<1>6. MAX_COMMAND_MEMORY \in Nat
  BY ConstantsAssumption
<1> HIDE DEF a, b
<1> QED BY <1>1, <1>3, <1>4, <1>5, <1>6

(* The first group is dropped: the second begins at the next flag.         *)
LEMMA FirstDropped ==
  ASSUME NEW s, CommandList(s), Len(s) >= 1, s[1].lastInGroup, Cardinality(Flags(s)) >= 2
  PROVE  LET r == SubSeq(s, Min(Flags(s) \ {1}), Len(s)) IN
         /\ CommandList(r) /\ Len(r) >= 1 /\ r[1].lastInGroup
         /\ Cardinality(Flags(r)) = Cardinality(Flags(s)) - 1
<1> DEFINE T == Flags(s) \ {1}
           l == Len(s)
           m == Min(T)
           r == SubSeq(s, m, l)
<1>1. CommandsAre(s)
  BY TheCommands
<1>2. l \in Nat /\ Flags(s) = {i \in 1 .. l : s[i].lastInGroup} /\ IsFiniteSet(Flags(s)) /\ Cardinality(Flags(s)) \in Nat
  BY ONLY <1>1 DEF CommandsAre
<1>3. 1 \in Flags(s)
  BY <1>2
<1>4. IsFiniteSet(T) /\ Cardinality(T) = Cardinality(Flags(s)) - 1
  BY <1>2, <1>3, FS_RemoveElement
<1>5. T # {}
  <2>1. Cardinality(T) # 0
    BY <1>2, <1>4
  <2> HIDE DEF T
  <2> QED BY <1>4, <2>1, FS_EmptySet
<1>6. T \subseteq Nat
  BY <1>2
<1> HIDE DEF T
<1>7. m \in T /\ \A y \in T : m <= y
  <2>1. \E x \in T : \A y \in T : x <= y
    BY <1>5, <1>6, LeastNat
  <2> QED BY <2>1 DEF Min
<1> HIDE DEF m, l
<1>8. m \in 2 .. l /\ s[m].lastInGroup
  BY <1>2, <1>7 DEF T
<1>9. m - 1 \in 0 .. l /\ (m - 1) + 1 = m /\ l - (m - 1) >= 1 /\ 1 \in 1 .. (l - (m - 1)) /\ m - 1 >= 1
  BY <1>2, <1>8
<1> DEFINE A == SubSeq(s, 1, m - 1)
           B == SubSeq(s, (m - 1) + 1, Len(s))
<1>10. CommandsSplit(s, m - 1)
  BY <1>9, SplitCommands DEF l
<1>11. /\ CommandList(B) /\ Len(B) = Len(s) - (m - 1) /\ \A i \in 1 .. (Len(s) - (m - 1)) : B[i] = s[(m - 1) + i]
       /\ Cardinality(Flags(s)) = Cardinality(Flags(A)) + Cardinality(Flags(B))
       /\ FlagsUpTo(s, m - 1) = Flags(A)
       /\ Cardinality(Flags(A)) \in Nat /\ Cardinality(Flags(B)) \in Nat
  BY ONLY <1>10 DEF CommandsSplit
<1>12. B = r
  BY <1>9 DEF l
<1> HIDE DEF A, B, r
<1>13. FlagsUpTo(s, m - 1) = {1}
  <2>1. ASSUME NEW i \in FlagsUpTo(s, m - 1) PROVE i = 1
    <3>1. i \in Flags(s) /\ i <= m - 1 /\ i \in Nat /\ m \in Nat
      BY <1>2, <1>8, <2>1 DEF FlagsUpTo
    <3>2. i \notin T
      BY <1>7, <3>1
    <3> QED BY <3>1, <3>2 DEF T
  <2>2. 1 \in FlagsUpTo(s, m - 1)
    BY <1>3, <1>9 DEF FlagsUpTo
  <2> QED BY <2>1, <2>2
<1>14. Cardinality(Flags(A)) = 1
  BY <1>11, <1>13, FS_Singleton
<1>15. Cardinality(Flags(r)) = Cardinality(Flags(s)) - 1
  BY <1>11, <1>12, <1>14
<1>16. Len(r) >= 1 /\ r[1] = s[m]
  BY <1>9, <1>11, <1>12 DEF l
<1> QED BY <1>8, <1>11, <1>12, <1>15, <1>16 DEF r, m, T, l

Pushed(h, n, k, g) ==
  LET kept == SubSeq(h, 1, n)
      full == RemainingOf(h, n, k) = MAX_COMMAND_MEMORY
      rest == IF full THEN SubSeq(kept, Min(Flags(kept) \ {1}), Len(kept)) ELSE kept
  IN  rest \o Flagged(g)

PushedCount(h, n, k) ==
  RemainingOf(h, n, k) + (IF RemainingOf(h, n, k) = MAX_COMMAND_MEMORY THEN 0 ELSE 1)

(* A group pushed on the history drops the oldest group when the memory is *)
(* full and the groups undone, and leaves as many flags as groups counted  *)
(* (PushGroupCommand, EntityParser.cpp 412-443).                           *)
LEMMA GroupPushed ==
  ASSUME NEW h, NEW n, NEW k, HistoryIs(h, n, k), NEW g, GroupIs(g), Len(g) >= 1
  PROVE  /\ HistoryIs(Pushed(h, n, k, g), Len(Pushed(h, n, k, g)), PushedCount(h, n, k))
         /\ Cardinality(FlagsUpTo(Pushed(h, n, k, g), Len(Pushed(h, n, k, g)))) = PushedCount(h, n, k)
<1> DEFINE kept == SubSeq(h, 1, n)
           q == RemainingOf(h, n, k)
           rest == IF q = MAX_COMMAND_MEMORY THEN SubSeq(kept, Min(Flags(kept) \ {1}), Len(kept)) ELSE kept
           f == Flagged(g)
           u == rest \o f
           c == q + (IF q = MAX_COMMAND_MEMORY THEN 0 ELSE 1)
<1>1. CommandList(h) /\ n \in 0 .. Len(h) /\ (n > 0 => h[1].lastInGroup)
  BY DEF HistoryIs
<1>2. /\ q \in 0 .. MAX_COMMAND_MEMORY /\ q = Cardinality(Flags(kept))
      /\ MAX_COMMAND_MEMORY \in Nat /\ MAX_COMMAND_MEMORY >= 2
  <2>1. MAX_COMMAND_MEMORY \in Nat /\ MAX_COMMAND_MEMORY >= 2
    BY MemoryAtLeast
  <2>2. q \in 0 .. MAX_COMMAND_MEMORY /\ q = Cardinality(FlagsUpTo(h, n)) /\ FlagsUpTo(h, n) = Flags(kept)
    BY RemainingIs
  <2> HIDE DEF q
  <2> QED BY <2>1, <2>2
<1>3. CommandList(kept) /\ Len(kept) = n /\ \A i \in 1 .. n : kept[i] = h[i]
  <2>1. CommandsSplit(h, n)
    BY <1>1, SplitCommands
  <2> QED BY ONLY <2>1 DEF CommandsSplit
<1> HIDE DEF kept, q
<1>4. Len(kept) >= 1 => kept[1].lastInGroup
  <2>1. n \in Nat
    BY <1>1 DEF CommandList
  <2> QED BY <1>1, <1>3, <2>1
<1>5. /\ CommandList(rest) /\ (Len(rest) >= 1 => rest[1].lastInGroup)
      /\ Cardinality(Flags(rest)) + 1 = c
  <2>1. CASE q = MAX_COMMAND_MEMORY
    <3>1. Cardinality(Flags(kept)) >= 2
      BY <1>2, <2>1
    <3>2. Len(kept) >= 1
      <4>1. Len(kept) \in Nat /\ Flags(kept) \subseteq 1 .. Len(kept)
        <5>1. CommandsAre(kept)
          BY <1>3, TheCommands
        <5>2. Len(kept) \in Nat /\ Flags(kept) = {i \in 1 .. Len(kept) : kept[i].lastInGroup}
          BY ONLY <5>1 DEF CommandsAre
        <5> QED BY <5>2
      <4>2. ASSUME Len(kept) = 0 PROVE FALSE
        <5>1. Flags(kept) = {}
          BY <4>1, <4>2
        <5>2. Cardinality(Flags(kept)) = 0
          BY <5>1, FS_EmptySet
        <5> QED BY <3>1, <5>2
      <4> QED BY <4>1, <4>2
    <3> DEFINE r == SubSeq(kept, Min(Flags(kept) \ {1}), Len(kept))
    <3>3. CommandList(r) /\ Len(r) >= 1 /\ r[1].lastInGroup /\ Cardinality(Flags(r)) = Cardinality(Flags(kept)) - 1
      BY <1>3, <1>4, <3>1, <3>2, FirstDropped
    <3>4. rest = r
      BY <2>1
    <3> HIDE DEF r, rest
    <3> QED BY <1>2, <2>1, <3>3, <3>4
  <2>2. CASE q # MAX_COMMAND_MEMORY
    <3>1. rest = kept
      BY <2>2
    <3> HIDE DEF rest
    <3> QED BY <1>2, <1>3, <1>4, <2>2, <3>1
  <2> QED BY <2>1, <2>2
<1>6. FlaggedIs(g)
  BY TheFlagged
<1>7. CommandList(f) /\ Len(f) >= 1 /\ f[1].lastInGroup /\ Cardinality(Flags(f)) = 1
  <2>1. CommandList(f) /\ Len(f) = Len(g) /\ f[1].lastInGroup = TRUE /\ Flags(f) = {1}
    BY ONLY <1>6 DEF FlaggedIs
  <2>2. Cardinality(Flags(f)) = 1
    BY <2>1, FS_Singleton
  <2> QED BY <2>1, <2>2
<1> HIDE DEF rest, f, c
<1>8. FlagsJoined(rest, f)
  BY <1>5, <1>7, JoinedFlags
<1>9. /\ CommandList(u) /\ Len(u) = Len(rest) + Len(f)
      /\ \A i \in 1 .. Len(rest) : u[i] = rest[i]
      /\ \A i \in 1 .. Len(f) : u[Len(rest) + i] = f[i]
      /\ Cardinality(Flags(u)) = Cardinality(Flags(rest)) + Cardinality(Flags(f))
  BY ONLY <1>8 DEF FlagsJoined
<1>10. CommandsAre(u) /\ CommandsAre(rest) /\ CommandsAre(f)
  BY <1>5, <1>7, <1>9, TheCommands
<1> HIDE DEF u
<1>11. Len(u) \in Nat /\ Len(rest) \in Nat /\ Len(f) \in Nat /\ Flags(u) = {i \in 1 .. Len(u) : u[i].lastInGroup}
       /\ Cardinality(Flags(rest)) \in Nat
  BY ONLY <1>10 DEF CommandsAre
<1>12. c = Cardinality(Flags(u))
  BY <1>5, <1>7, <1>9
<1>13. c <= MAX_COMMAND_MEMORY
  BY <1>2 DEF c
<1>14. u[1].lastInGroup
  <2>1. CASE Len(rest) >= 1
    <3>1. 1 \in 1 .. Len(rest)
      BY <1>11, <2>1
    <3> QED BY <1>5, <1>9, <2>1, <3>1
  <2>2. CASE Len(rest) = 0
    <3>1. 1 \in 1 .. Len(f) /\ Len(rest) + 1 = 1
      BY <1>7, <1>11, <2>2
    <3>2. u[Len(rest) + 1] = f[1]
      BY <1>9, <3>1
    <3> QED BY <1>7, <3>1, <3>2
  <2> QED BY <1>11, <2>1, <2>2
<1>15. FlagsUpTo(u, Len(u)) = Flags(u)
  BY <1>11 DEF FlagsUpTo
<1>16. Len(u) \in 0 .. Len(u) /\ ~(Len(u) < Len(u))
  BY <1>11
<1>17. HistoryIs(u, Len(u), c)
  BY <1>9, <1>12, <1>13, <1>14, <1>16 DEF HistoryIs
<1>18. HistoryIs(u, Len(u), c) /\ Cardinality(FlagsUpTo(u, Len(u))) = c
  BY <1>12, <1>15, <1>17
<1> QED BY ONLY <1>18 DEF Pushed, PushedCount, u, c, rest, f, kept, q

OverwrittenIn(h, from, g) ==
  [i \in DOMAIN h |-> IF i - from \in DOMAIN g THEN g[i - from] ELSE h[i]]

(* A group in the place of a group: its flag in the place of the other's.  *)
OverwriteIs(h, from, g, c) ==
  LET u == OverwrittenIn(h, from, g)
      m == from + Len(g)
  IN  /\ CommandList(u) /\ Len(u) = Len(h)
      /\ \A i \in 1 .. Len(h) : i <= from \/ i > m => u[i] = h[i]
      /\ u[from + c].lastInGroup
      /\ Cardinality(Flags(u)) = Cardinality(Flags(h))
      /\ FlagsUpTo(u, from) = FlagsUpTo(h, from)
      /\ Cardinality(FlagsUpTo(h, m)) = Cardinality(FlagsUpTo(h, from)) + 1
      /\ Cardinality(FlagsUpTo(u, m)) = Cardinality(FlagsUpTo(h, from)) + 1
      /\ Cardinality(FlagsUpTo(h, from)) \in Nat

(* Commands overwritten by as many with one flag: the flags outside stay.  *)
LEMMA Overwrite ==
  ASSUME NEW h, CommandList(h), NEW g, CommandList(g), NEW from \in Nat, from + Len(g) <= Len(h),
         NEW a \in (from + 1) .. (from + Len(g)), h[a].lastInGroup,
         \A j \in (from + 1) .. (from + Len(g)) : j # a => ~h[j].lastInGroup,
         NEW c \in 1 .. Len(g), Flags(g) = {c}
  PROVE  OverwriteIs(h, from, g, c)
<1> DEFINE u == OverwrittenIn(h, from, g)
           l == Len(h)
           q == Len(g)
           m == from + q
           z == from + c
<1>1. CommandsAre(h) /\ CommandsAre(g)
  BY TheCommands
<1>2. /\ l \in Nat /\ DOMAIN h = 1 .. l /\ Flags(h) = {i \in 1 .. l : h[i].lastInGroup}
      /\ \A i \in 1 .. l : h[i] \in CommandFields /\ CommandIs(h[i])
      /\ IsFiniteSet(Flags(h)) /\ Cardinality(Flags(h)) \in Nat
  BY ONLY <1>1 DEF CommandsAre
<1>3. /\ q \in Nat /\ DOMAIN g = 1 .. q /\ Flags(g) = {i \in 1 .. q : g[i].lastInGroup}
      /\ \A i \in 1 .. q : g[i] \in CommandFields /\ CommandIs(g[i])
  BY ONLY <1>1 DEF CommandsAre
<1>4. \A i \in 1 .. q : g[i].lastInGroup <=> i = c
  BY <1>3
<1> HIDE DEF l, q
<1>5. /\ m \in Nat /\ m <= l /\ z \in Nat /\ z \in (from + 1) .. m /\ z \in 1 .. l /\ a \in 1 .. l
      /\ a \in (from + 1) .. m /\ a \in Nat
  BY <1>2, <1>3 DEF l, q
<1>6. u = [i \in 1 .. l |-> IF i - from \in 1 .. q THEN g[i - from] ELSE h[i]]
  BY <1>2, <1>3 DEF OverwrittenIn
<1>7. ASSUME NEW i \in 1 .. l
      PROVE  /\ i \in (from + 1) .. m => u[i] = g[i - from] /\ i - from \in 1 .. q
             /\ i <= from \/ i > m => u[i] = h[i]
             /\ i \in (from + 1) .. m \/ i <= from \/ i > m
             /\ u[i] \in CommandFields /\ CommandIs(u[i])
  <2> HIDE DEF u
  <2>1. i \in (from + 1) .. m => i - from \in 1 .. q
    BY <1>2, <1>3
  <2>2. i <= from \/ i > m => ~(i - from \in 1 .. q)
    BY <1>2, <1>3
  <2>3. i \in (from + 1) .. m \/ i <= from \/ i > m
    BY <1>2, <1>3
  <2>4. u[i] = IF i - from \in 1 .. q THEN g[i - from] ELSE h[i]
    BY <1>6
  <2> HIDE DEF m
  <2> QED BY <1>2, <1>3, <2>1, <2>2, <2>3, <2>4
<1>8. u \in Seq(CommandFields) /\ Len(u) = l
  <2>1. u \in [1 .. l -> CommandFields]
    BY <1>6, <1>7
  <2> HIDE DEF u
  <2> QED BY <1>2, <2>1
<1> HIDE DEF u
<1>9. CommandList(u)
  BY <1>7, <1>8 DEF CommandList
<1>10. Flags(u) = {i \in 1 .. l : u[i].lastInGroup}
  <2>1. CommandsAre(u)
    BY <1>9, TheCommands
  <2>2. Flags(u) = {i \in 1 .. Len(u) : u[i].lastInGroup}
    BY ONLY <2>1 DEF CommandsAre
  <2> QED BY <1>8, <2>2
<1> DEFINE L == FlagsUpTo(h, from)
           K == {i \in Flags(h) : i > m}
<1>11. L = {i \in 1 .. l : h[i].lastInGroup /\ i <= from} /\ K = {i \in 1 .. l : h[i].lastInGroup /\ i > m}
  BY <1>2 DEF FlagsUpTo
<1> HIDE DEF m, z, L, K
<1>12. \A i \in 1 .. l : ~(i <= from /\ i > m) /\ (i <= from => i <= m)
                        /\ (i \in (from + 1) .. m => ~(i <= from) /\ ~(i > m) /\ i <= m)
  BY <1>3, <1>5 DEF m
<1>13. ASSUME NEW i \in 1 .. l
       PROVE  /\ h[i].lastInGroup <=> i \in L \/ i \in K \/ i = a
              /\ u[i].lastInGroup <=> i \in L \/ i \in K \/ i = z
  <2>1. CASE i \in (from + 1) .. m
    <3>1. i \notin L /\ i \notin K
      BY <1>11, <1>12, <2>1
    <3>2. h[i].lastInGroup <=> i = a
      BY <2>1 DEF m, q
    <3>3. u[i] = g[i - from] /\ i - from \in 1 .. q
      BY <1>7, <2>1
    <3>4. i - from = c <=> i = z
      BY <1>2, <1>3, <1>5 DEF z
    <3>5. u[i].lastInGroup <=> i = z
      BY <1>4, <3>3, <3>4
    <3> QED BY <3>1, <3>2, <3>5
  <2>2. CASE i <= from \/ i > m
    <3>1. u[i] = h[i]
      BY <1>7, <2>2
    <3>2. i # a /\ i # z
      BY <1>5, <1>12, <2>2
    <3>3. h[i].lastInGroup <=> i \in L \/ i \in K
      BY <1>11, <2>2
    <3> QED BY <3>1, <3>2, <3>3
  <2> QED BY <1>7, <2>1, <2>2
<1>14. L \subseteq 1 .. l /\ K \subseteq 1 .. l /\ L \cap K = {} /\ a \notin L \cup K /\ z \notin L \cup K
       /\ (\A i \in L : i <= from /\ i <= m) /\ \A i \in K : ~(i <= m)
  <2>1. \A i \in K : i > m /\ i \in Nat
    BY <1>2, <1>11
  <2>2. \A i \in K : ~(i <= m)
    BY <1>5, <2>1
  <2> QED BY <1>5, <1>11, <1>12, <2>2
<1>15. Flags(h) = (L \cup K) \cup {a} /\ Flags(u) = (L \cup K) \cup {z}
  BY <1>2, <1>5, <1>10, <1>13, <1>14
<1>16. IsFiniteSet(L) /\ IsFiniteSet(L \cup K) /\ Cardinality(L) \in Nat
  <2>1. L \cup K \subseteq 1 .. l
    BY <1>14
  <2> QED BY <1>2, <1>14, <2>1, SmallSet
<1>17. Cardinality(Flags(u)) = Cardinality(Flags(h))
  <2>1. /\ Cardinality((L \cup K) \cup {a}) = Cardinality(L \cup K) + 1
        /\ Cardinality((L \cup K) \cup {z}) = Cardinality(L \cup K) + 1
    BY <1>14, <1>16, FS_AddElement
  <2> QED BY <1>15, <2>1
<1>18. FlagsUpTo(u, from) = L
  <2>1. ASSUME NEW i \in FlagsUpTo(u, from) PROVE i \in L
    <3>1. i \in 1 .. l /\ u[i].lastInGroup /\ i <= from
      BY <1>10, <2>1 DEF FlagsUpTo
    <3>2. i # z /\ i \notin K
      BY <1>5, <1>11, <1>12, <3>1
    <3> QED BY <1>13, <3>1, <3>2
  <2>2. ASSUME NEW i \in L PROVE i \in FlagsUpTo(u, from)
    BY <1>14, <1>15, <2>2 DEF FlagsUpTo
  <2> QED BY <2>1, <2>2
<1>19. FlagsUpTo(h, m) = L \cup {a}
  <2>1. ASSUME NEW i \in FlagsUpTo(h, m) PROVE i \in L \cup {a}
    BY <1>14, <1>15, <2>1 DEF FlagsUpTo
  <2>2. a <= m
    BY <1>5, <1>12
  <2>3. ASSUME NEW i \in L \cup {a} PROVE i \in FlagsUpTo(h, m)
    BY <1>14, <1>15, <2>2, <2>3 DEF FlagsUpTo
  <2> QED BY <2>1, <2>3
<1>20. FlagsUpTo(u, m) = L \cup {z}
  <2>1. ASSUME NEW i \in FlagsUpTo(u, m) PROVE i \in L \cup {z}
    BY <1>14, <1>15, <2>1 DEF FlagsUpTo
  <2>2. z <= m
    BY <1>5, <1>12
  <2>3. ASSUME NEW i \in L \cup {z} PROVE i \in FlagsUpTo(u, m)
    BY <1>14, <1>15, <2>2, <2>3 DEF FlagsUpTo
  <2> QED BY <2>1, <2>3
<1>21. Cardinality(FlagsUpTo(h, m)) = Cardinality(L) + 1 /\ Cardinality(FlagsUpTo(u, m)) = Cardinality(L) + 1
  <2>1. Cardinality(L \cup {a}) = Cardinality(L) + 1 /\ Cardinality(L \cup {z}) = Cardinality(L) + 1
    BY <1>14, <1>16, FS_AddElement
  <2> QED BY <1>19, <1>20, <2>1
<1>22. u[z].lastInGroup
  BY <1>5, <1>13
<1>23. \A i \in 1 .. l : i <= from \/ i > m => u[i] = h[i]
  BY <1>7
<1> QED BY ONLY <1>8, <1>9, <1>16, <1>17, <1>18, <1>21, <1>22, <1>23 DEF OverwriteIs, u, l, m, q, z, L

ReversedIs(s) ==
  /\ CommandList(Reverse(s)) /\ Len(Reverse(s)) = Len(s) /\ Len(s) \in Nat
  /\ Flags(s) = {1} => Flags(Reverse(s)) = {Len(s)}

(* The commands of a list reversed.                                        *)
LEMMA TheReversed ==
  ASSUME NEW s, CommandList(s)
  PROVE  ReversedIs(s)
<1> DEFINE l == Len(s)
           r == [i \in 1 .. l |-> s[(l - i) + 1]]
<1>1. CommandsAre(s)
  BY TheCommands
<1>2. /\ l \in Nat /\ Flags(s) = {i \in 1 .. l : s[i].lastInGroup}
      /\ \A i \in 1 .. l : s[i] \in CommandFields /\ CommandIs(s[i])
  BY ONLY <1>1 DEF CommandsAre
<1> HIDE DEF l
<1>3. \A i \in 1 .. l : (l - i) + 1 \in 1 .. l /\ ((l - i) + 1 = 1 <=> i = l)
  BY <1>2
<1>4. r \in [1 .. l -> CommandFields] /\ \A i \in 1 .. l : r[i] = s[(l - i) + 1]
  BY <1>2, <1>3
<1> HIDE DEF r
<1>5. r \in Seq(CommandFields) /\ Len(r) = l
  BY <1>2, <1>4
<1>6. CommandList(r)
  BY <1>2, <1>3, <1>4, <1>5 DEF CommandList
<1>7. Flags(r) = {i \in 1 .. l : r[i].lastInGroup}
  <2>1. CommandsAre(r)
    BY <1>6, TheCommands
  <2>2. Flags(r) = {i \in 1 .. Len(r) : r[i].lastInGroup}
    BY ONLY <2>1 DEF CommandsAre
  <2> QED BY <1>5, <2>2
<1>8. ASSUME Flags(s) = {1} PROVE Flags(r) = {l}
  <2>1. 1 \in 1 .. l /\ \A i \in 1 .. l : s[i].lastInGroup <=> i = 1
    BY <1>2, <1>8
  <2>2. \A i \in 1 .. l : r[i].lastInGroup <=> i = l
    BY <1>3, <1>4, <2>1
  <2>3. l \in 1 .. l
    BY <1>2, <2>1
  <2> QED BY <1>7, <2>2, <2>3
<1>9. Reverse(s) = r
  BY DEF Reverse, r, l
<1> QED BY <1>2, <1>5, <1>6, <1>8, <1>9 DEF ReversedIs, l

(* An undone group is overwritten in reverse, and its flag is then behind  *)
(* the redo index (Undo, EntityParser.cpp 479-496).                        *)
LEMMA UndoFinished ==
  ASSUME NEW h, NEW n, NEW k, HistoryIs(h, n, k), NEW g, GroupIs(g), NEW i \in 1 .. n,
         h[i].lastInGroup, Len(g) = (n - i) + 1, \A j \in (i + 1) .. n : ~h[j].lastInGroup
  PROVE  LET u == OverwrittenIn(h, i - 1, Reverse(Flagged(g))) IN
         /\ HistoryIs(u, i - 1, k)
         /\ Cardinality(FlagsUpTo(h, n)) = Cardinality(FlagsUpTo(u, i - 1)) + 1
         /\ Cardinality(FlagsUpTo(u, i - 1)) \in Nat
<1> DEFINE f == Reverse(Flagged(g))
           u == OverwrittenIn(h, i - 1, f)
           l == Len(h)
<1>1. /\ CommandList(h) /\ n \in 0 .. l /\ k = Cardinality(Flags(h)) /\ k <= MAX_COMMAND_MEMORY
      /\ (n > 0 => h[1].lastInGroup) /\ (n < l => h[l].lastInGroup)
  BY DEF HistoryIs
<1>2. l \in Nat /\ n \in Nat /\ n <= l /\ i \in Nat /\ i >= 1 /\ i <= n
  <2>1. l \in Nat
    <3>1. CommandsAre(h)
      BY <1>1, TheCommands
    <3> QED BY ONLY <3>1 DEF CommandsAre
  <2> QED BY <1>1, <2>1
<1> HIDE DEF l
<1>3. Len(g) >= 1
  BY <1>2
<1>4. FlaggedIs(g)
  BY <1>3, TheFlagged
<1>5. CommandList(Flagged(g)) /\ Len(Flagged(g)) = Len(g) /\ Flags(Flagged(g)) = {1}
  BY ONLY <1>4 DEF FlaggedIs
<1>6. ReversedIs(Flagged(g))
  BY <1>5, TheReversed
<1>7. CommandList(f) /\ Len(f) = (n - i) + 1 /\ Flags(f) = {(n - i) + 1}
  BY <1>5, <1>6 DEF ReversedIs
<1> HIDE DEF f
<1>8. /\ i - 1 \in Nat /\ (i - 1) + Len(f) = n /\ i \in ((i - 1) + 1) .. ((i - 1) + Len(f))
      /\ (n - i) + 1 \in 1 .. Len(f) /\ (i - 1) + ((n - i) + 1) = n
  BY <1>2, <1>7
<1>9. \A j \in ((i - 1) + 1) .. ((i - 1) + Len(f)) : j # i => ~h[j].lastInGroup
  <2>1. \A j \in ((i - 1) + 1) .. n : j # i => j \in (i + 1) .. n
    BY <1>2
  <2> QED BY <1>8, <2>1
<1>10. OverwriteIs(h, i - 1, f, (n - i) + 1)
  <2> DEFINE e == i - 1
             c == (n - i) + 1
  <2>1. e \in Nat /\ e + Len(f) <= Len(h) /\ i \in (e + 1) .. (e + Len(f)) /\ c \in 1 .. Len(f) /\ Flags(f) = {c}
        /\ \A j \in (e + 1) .. (e + Len(f)) : j # i => ~h[j].lastInGroup
    BY <1>2, <1>7, <1>8, <1>9 DEF l
  <2> HIDE DEF e, c
  <2>2. OverwriteIs(h, e, f, c)
    BY <1>1, <1>7, <2>1, Overwrite
  <2> QED BY <2>2 DEF e, c
<1>11. /\ CommandList(u) /\ Len(u) = l
       /\ \A j \in 1 .. l : j <= i - 1 \/ j > (i - 1) + Len(f) => u[j] = h[j]
       /\ u[(i - 1) + ((n - i) + 1)].lastInGroup
       /\ Cardinality(Flags(u)) = Cardinality(Flags(h))
       /\ FlagsUpTo(u, i - 1) = FlagsUpTo(h, i - 1)
       /\ Cardinality(FlagsUpTo(h, (i - 1) + Len(f))) = Cardinality(FlagsUpTo(h, i - 1)) + 1
       /\ Cardinality(FlagsUpTo(h, i - 1)) \in Nat
  BY ONLY <1>10 DEF OverwriteIs, u, l
<1> HIDE DEF u
<1>12. u[n].lastInGroup /\ (\A j \in 1 .. l : j <= i - 1 \/ j > n => u[j] = h[j])
       /\ Cardinality(FlagsUpTo(h, n)) = Cardinality(FlagsUpTo(u, i - 1)) + 1
       /\ Cardinality(FlagsUpTo(u, i - 1)) \in Nat
  BY <1>8, <1>11
<1>13. i - 1 > 0 => u[1].lastInGroup
  <2>1. ASSUME i - 1 > 0 PROVE 1 \in 1 .. l /\ 1 <= i - 1 /\ n > 0
    BY <1>2, <2>1
  <2> QED BY <1>1, <1>12, <2>1
<1>14. u[l].lastInGroup
  <2>1. CASE n = l
    BY <1>12, <2>1
  <2>2. CASE n < l
    <3>1. l \in 1 .. l /\ l > n
      BY <1>2, <2>2
    <3> QED BY <1>1, <1>12, <2>2, <3>1
  <2> QED BY <1>2, <2>1, <2>2
<1>15. i - 1 \in 0 .. l
  BY <1>2
<1>16. HistoryIs(u, i - 1, k)
  BY <1>1, <1>11, <1>13, <1>14, <1>15 DEF HistoryIs
<1> QED BY ONLY <1>12, <1>16 DEF u, f

(* A redone group is overwritten again and its flag is then before the     *)
(* redo index.                                                             *)
LEMMA RedoFinished ==
  ASSUME NEW h, NEW n, NEW k, HistoryIs(h, n, k), NEW g, GroupIs(g), NEW i \in (n + 1) .. Len(h),
         h[i].lastInGroup, Len(g) = i - n, \A j \in (n + 1) .. (i - 1) : ~h[j].lastInGroup
  PROVE  LET u == OverwrittenIn(h, n, Flagged(g)) IN
         /\ HistoryIs(u, n + Len(g), k)
         /\ Cardinality(FlagsUpTo(u, n + Len(g))) = Cardinality(FlagsUpTo(h, n)) + 1
         /\ Cardinality(FlagsUpTo(h, n)) \in Nat
<1> DEFINE f == Flagged(g)
           u == OverwrittenIn(h, n, f)
           l == Len(h)
<1>1. /\ CommandList(h) /\ n \in 0 .. l /\ k = Cardinality(Flags(h)) /\ k <= MAX_COMMAND_MEMORY
      /\ (n > 0 => h[1].lastInGroup) /\ (n < l => h[l].lastInGroup)
  BY DEF HistoryIs
<1>2. l \in Nat /\ n \in Nat /\ n <= l /\ i \in Nat /\ i >= n + 1 /\ i <= l
  <2>1. l \in Nat
    <3>1. CommandsAre(h)
      BY <1>1, TheCommands
    <3> QED BY ONLY <3>1 DEF CommandsAre
  <2> QED BY <1>1, <2>1
<1> HIDE DEF l
<1>3. Len(g) >= 1
  BY <1>2
<1>4. FlaggedIs(g)
  BY <1>3, TheFlagged
<1>5. CommandList(f) /\ Len(f) = i - n /\ Flags(f) = {1}
  BY <1>4 DEF FlaggedIs
<1> HIDE DEF f
<1>6. /\ n + Len(f) = i /\ i \in (n + 1) .. (n + Len(f)) /\ 1 \in 1 .. Len(f)
  BY <1>2, <1>5
<1>7. \A j \in (n + 1) .. (n + Len(f)) : j # i => ~h[j].lastInGroup
  <2>1. \A j \in (n + 1) .. i : j # i => j \in (n + 1) .. (i - 1)
    BY <1>2
  <2> QED BY <1>6, <2>1
<1>8. OverwriteIs(h, n, f, 1)
  <2>1. n \in Nat /\ n + Len(f) <= Len(h)
    BY <1>2, <1>6 DEF l
  <2> QED BY <1>1, <1>5, <1>6, <1>7, <2>1, Overwrite
<1>9. /\ CommandList(u) /\ Len(u) = l
      /\ \A j \in 1 .. l : j <= n \/ j > n + Len(f) => u[j] = h[j]
      /\ u[n + 1].lastInGroup
      /\ Cardinality(Flags(u)) = Cardinality(Flags(h))
      /\ Cardinality(FlagsUpTo(u, n + Len(f))) = Cardinality(FlagsUpTo(h, n)) + 1
      /\ Cardinality(FlagsUpTo(h, n)) \in Nat
  BY ONLY <1>8 DEF OverwriteIs, u, l
<1> HIDE DEF u
<1>10. u[1].lastInGroup
  <2>1. CASE n = 0
    <3>1. n + 1 = 1
      BY <2>1
    <3> QED BY <1>9, <3>1
  <2>2. CASE n > 0
    <3>1. 1 \in 1 .. l /\ 1 <= n
      BY <1>2, <2>2
    <3> QED BY <1>1, <1>9, <2>2, <3>1
  <2> QED BY <1>2, <2>1, <2>2
<1>11. i < l => u[l].lastInGroup
  <2>1. ASSUME i < l PROVE l \in 1 .. l /\ l > n + Len(f) /\ n < l
    BY <1>2, <1>6, <2>1
  <2> QED BY <1>1, <1>9, <2>1
<1>12. HistoryIs(u, i, k)
  <2>1. i \in 0 .. l
    BY <1>2
  <2> QED BY <1>1, <1>9, <1>10, <1>11, <2>1 DEF HistoryIs
<1>13. n + Len(g) = i
  BY <1>2
<1>14. /\ HistoryIs(u, n + Len(g), k)
       /\ Cardinality(FlagsUpTo(u, n + Len(g))) = Cardinality(FlagsUpTo(h, n)) + 1
       /\ Cardinality(FlagsUpTo(h, n)) \in Nat
  BY <1>6, <1>9, <1>12, <1>13
<1> QED BY ONLY <1>14 DEF u, f

-----------------------------------------------------------------------------
(* The steps of the parser keep the invariant.                             *)

KeptByParse ==
  UNCHANGED <<running, index, reverseGroup, history, redoIndex, commandCount,
              edits, below, before, base, past>>

(* What a step of the parser leaves alone stays as it was.                 *)
LEMMA ParseFrame ==
  ASSUME ParserInv, KeptByParse, pc # "undefined", pc # "executed", pc' # "executed"
  PROVE  HistoryInv' /\ GroupInv' /\ RunInv' /\ PastInv' /\ BoundsInv'
<1>1. HistoryInv /\ GroupInv /\ RunInv /\ PastInv /\ BoundsInv
  BY Zenon DEF ParserInv
<1>2. HistoryInv' /\ GroupInv' /\ PastInv' /\ BoundsInv'
  BY <1>1 DEF HistoryInv, GroupInv, PastInv, BoundsInv, KeptByParse
<1>3. RunInv'
  BY <1>1 DEF RunInv, KeptByParse, RunIs
<1>4. QED
  BY <1>2, <1>3, Zenon

(* A step that leaves the tree keeps what is known of it.                  *)
LEMMA KeptTree ==
  ASSUME TreeInv, UNCHANGED <<tree, below>>
  PROVE  TreeInv'
BY DEF TreeInv

(* What the invariant says while a text is parsed.                         *)
LEMMA WhileParsing ==
  ASSUME ParserInv, pc \in Parsing
  PROVE  /\ TreeIs(tree, below) /\ IsTree(tree) /\ Groups(tempChildren)
         /\ HeldIs(held, tree, tempChildren, below)
         /\ Len(tempChildren) >= 1 /\ CharsOf(tempChildren[1][1].word) = 0
         /\ PlaceIs(edit, tree, below)
         /\ pc = "parsed" => Len(tempChildren) = 1
         /\ pc = "parse" => Opened(tempChildren, open) /\ TokensLeft(running, tokens, open)
         /\ ControlIs(pc, running)
BY DEF ParserInv, TreeInv, TreeIs, HeldInv, ParseInv, ParseIs, TokensInv, TokensAre, ControlInv

(* The parts of the invariant together.                                    *)
LEMMA AllKept ==
  ASSUME TreeInv', HeldInv', ParseInv', TokensInv', ControlInv',
         HistoryInv', GroupInv', RunInv', PastInv', BoundsInv'
  PROVE  ParserInv'
BY Zenon DEF ParserInv

(* A node is made of the next tokens.                                      *)
LEMMA PushKeeps ==
  ASSUME ParserInv, pc = "parse", NEW w \in Named, NEW z \in BOOLEAN, NEW n, pushNode(w, z, n),
         TokensLeft(running, SubSeq(tokens, n + 1, Len(tokens)),
                    IF z THEN Append(open, Len(tempChildren) + 1) ELSE open)
  PROVE  ParserInv'
<1>0. pc \in Parsing
  BY DEF Parsing
<1>1. /\ IsTree(tree) /\ Groups(tempChildren) /\ HeldIs(held, tree, tempChildren, below)
      /\ Len(tempChildren) >= 1 /\ CharsOf(tempChildren[1][1].word) = 0
      /\ PlaceIs(edit, tree, below) /\ Opened(tempChildren, open) /\ ControlIs(pc, running)
  BY <1>0, WhileParsing
<1>2. /\ tempChildren' = Append(tempChildren, <<Line(w, z)>>)
      /\ held' = [held EXCEPT !.nodes = @ + 1, !.chars = @ + CharsOf(w)]
      /\ tokens' = SubSeq(tokens, n + 1, Len(tokens))
      /\ open' = (IF z THEN Append(open, Len(tempChildren) + 1) ELSE open)
      /\ tree' = tree /\ pc' = pc /\ edit' = edit /\ KeptByParse /\ below' = below /\ running' = running
  BY DEF pushNode, loop, log, ghosts, KeptByParse
<1>3. HistoryInv' /\ GroupInv' /\ RunInv' /\ PastInv' /\ BoundsInv'
  <2>1. pc # "undefined" /\ pc # "executed" /\ pc' # "executed"
    BY <1>2
  <2>2. QED
    BY <2>1, <1>2, ParseFrame, Zenon
<1>4. TreeInv'
  BY <1>2, KeptTree, Zenon DEF ParserInv
<1>5. /\ Groups(Append(tempChildren, <<Line(w, z)>>))
      /\ HeldIs([held EXCEPT !.nodes = @ + 1, !.chars = @ + CharsOf(w)], tree,
                Append(tempChildren, <<Line(w, z)>>), below)
  BY <1>1, HeldPush
<1>6. HeldInv'
  BY <1>5, <1>2, Zenon DEF HeldInv
<1>7. ParseInv'
  <2>1. /\ Opened(Append(tempChildren, <<Line(w, z)>>), IF z THEN Append(open, Len(tempChildren) + 1) ELSE open)
        /\ Len(Append(tempChildren, <<Line(w, z)>>)) = Len(tempChildren) + 1
        /\ Append(tempChildren, <<Line(w, z)>>)[1] = tempChildren[1]
    BY <1>1, OpenedPush
  <2>2. Opened(tempChildren', open') /\ Len(tempChildren') = Len(tempChildren) + 1
        /\ tempChildren'[1] = tempChildren[1] /\ Groups(tempChildren')
    BY <2>1, <1>2, <1>5, Zenon
  <2>3. Len(tempChildren) \in Nat
    BY <1>1 DEF Groups
  <2>4. Len(tempChildren') >= 1
    BY <2>2, <2>3, <1>1
  <2>5. CharsOf(tempChildren'[1][1].word) = 0 /\ PlaceIs(edit', tree', below')
    BY <2>2, <1>1, <1>2, Zenon
  <2>6. pc' = "parse"
    BY <1>2
  <2> HIDE DEF PlaceIs, Opened, Groups
  <2>7. QED
    BY <2>2, <2>4, <2>5, <2>6, <1>0 DEF ParseInv, ParseIs, Parsing
<1>8. TokensInv'
  BY <1>2, Zenon DEF TokensInv, TokensAre
<1>9. ControlInv'
  BY <1>1, <1>2, Zenon DEF ControlInv
<1>10. QED
  BY <1>3, <1>4, <1>6, <1>7, <1>8, <1>9, AllKept, Zenon

(* Pushing a value, an object or a nameless object keeps the invariant.    *)
LEMMA PushingKeeps ==
  ASSUME ParserInv, PushValue \/ PushObject \/ PushNameless
  PROVE  ParserInv'
<1>0. pc = "parse" /\ pc \in Parsing
  BY DEF PushValue, PushObject, PushNameless, Parsing
<1>1. TokensLeft(running, tokens, open) /\ Groups(tempChildren) /\ Opened(tempChildren, open)
  BY <1>0, WhileParsing
<1>2. Len(open) \in Nat /\ Len(open) >= 1
  BY <1>1, TheLastOpen DEF LastOpen
<1>3. Len(Append(open, Len(tempChildren) + 1)) = Len(open) + 1
  BY <1>1 DEF Opened
<1>4. \A i : Token(i) = TokenOf(tokens, i)
  BY DEF Token, TokenOf
<1>5. CASE PushValue
  <2>1. TokenOf(tokens, 1) \in Words /\ pushNode(tokens[1], FALSE, 1)
    BY <1>5, <1>4 DEF PushValue
  <2>2. TokensLeft(running, SubSeq(tokens, 1 + 1, Len(tokens)), open) /\ tokens[1] \in Words
    BY <2>1, <1>1, <1>2, WordTaken
  <2>3. tokens[1] \in Named
    BY <2>2 DEF Named
  <2>4. QED
    BY <2>1, <2>2, <2>3, <1>0, PushKeeps
<1>6. CASE PushObject
  <2>1. TokenOf(tokens, 1) \in Words /\ OpenBrace(TokenOf(tokens, 2)) /\ pushNode(tokens[1], TRUE, 2)
    BY <1>6, <1>4 DEF PushObject, OpenBrace
  <2>2. TokensLeft(running, SubSeq(tokens, 2 + 1, Len(tokens)), Append(open, Len(tempChildren) + 1)) /\ tokens[1] \in Words
    BY <2>1, <1>1, <1>2, <1>3, ObjectTaken
  <2>3. tokens[1] \in Named
    BY <2>2 DEF Named
  <2>4. QED
    BY <2>1, <2>2, <2>3, <1>0, PushKeeps
<1>7. CASE PushNameless
  <2>1. OpenBrace(TokenOf(tokens, 1)) /\ pushNode("", TRUE, 1)
    BY <1>7, <1>4 DEF PushNameless, OpenBrace
  <2>2. TokensLeft(running, SubSeq(tokens, 1 + 1, Len(tokens)), Append(open, Len(tempChildren) + 1))
    BY <2>1, <1>1, <1>2, <1>3, BraceTaken
  <2>3. "" \in Named
    BY DEF Named
  <2>4. QED
    BY <2>1, <2>2, <2>3, <1>0, PushKeeps
<1>8. QED
  BY <1>5, <1>6, <1>7

(* The innermost object gets its children.                                 *)
ClosedIs(b) ==
  LET p == Last(open) IN
  /\ tempChildren' = Closes(tempChildren, p) /\ open' = Front(open)
  /\ LastOpen(tempChildren, open)
  /\ Groups(tempChildren') /\ Len(tempChildren') = p
  /\ \A k \in 1 .. (p - 1) : tempChildren'[k] = tempChildren[k]
  /\ CharsOf(tempChildren'[1][1].word) = 0
  /\ HeldIs(held', tree, tempChildren', b)

(* What setNodeChildren leaves.                                            *)
LEMMA ClosingIs ==
  ASSUME ParserInv, pc = "parse", setNodeChildren
  PROVE  ClosedIs(below)
<1>0. pc \in Parsing
  BY DEF Parsing
<1>1. /\ IsTree(tree) /\ Groups(tempChildren) /\ HeldIs(held, tree, tempChildren, below)
      /\ CharsOf(tempChildren[1][1].word) = 0 /\ Opened(tempChildren, open)
  BY <1>0, WhileParsing
<1> DEFINE p == Last(open)
<1>2. LastOpen(tempChildren, open)
  BY <1>1, TheLastOpen
<1>3. /\ p \in 1 .. Len(tempChildren) /\ Len(tempChildren[p]) = 1 /\ tempChildren[p][1].slots = 0
      /\ (p > 1 => tempChildren[p][1].braces)
  BY <1>2 DEF LastOpen
<1>4. /\ tempChildren' = Closes(tempChildren, p) /\ open' = Front(open)
      /\ held' = [held EXCEPT !.slots = @ + OptimalMaxChildCount(Len(tempChildren) - p)]
  BY Zenon DEF setNodeChildren, Closes
<1> HIDE DEF p
<1>5. /\ Groups(Closes(tempChildren, p)) /\ Len(Closes(tempChildren, p)) = p
      /\ \A k \in 1 .. (p - 1) : Closes(tempChildren, p)[k] = tempChildren[k]
      /\ Closes(tempChildren, p)[p][1].word = tempChildren[p][1].word
  BY <1>1, <1>3, NodeClosed
<1>6. HeldIs(held', tree, tempChildren', below)
  <2>1. HeldIs([held EXCEPT !.slots = @ + OptimalMaxChildCount(Len(tempChildren) - p)], tree,
               Closes(tempChildren, p), below)
    BY <1>1, <1>3, HeldClose
  <2>2. QED
    BY <2>1, <1>4, Zenon
<1>7. Closes(tempChildren, p)[1][1].word = tempChildren[1][1].word
  <2>1. CASE p = 1
    BY <2>1, <1>5
  <2>2. CASE p > 1
    <3>1. 1 \in 1 .. (p - 1)
      BY <2>2, <1>3
    <3>2. Closes(tempChildren, p)[1] = tempChildren[1]
      BY <3>1, <1>5
    <3>3. QED
      BY <3>2, Zenon
  <2>3. QED
    BY <2>1, <2>2, <1>3
<1>8. /\ Groups(tempChildren') /\ Len(tempChildren') = p
      /\ \A k \in 1 .. (p - 1) : tempChildren'[k] = tempChildren[k]
      /\ CharsOf(tempChildren'[1][1].word) = 0
  BY <1>4, <1>5, <1>7, <1>1, Zenon
<1>9. QED
  BY <1>2, <1>4, <1>6, <1>8, Zenon DEF ClosedIs, p

(* What a step that closes an object keeps.                                *)
LEMMA ClosingFrame ==
  ASSUME ParserInv, pc = "parse", setNodeChildren, UNCHANGED <<tree, edit, loop, reverseGroup, log, ghosts>>,
         pc' \in Parsing
  PROVE  /\ TreeInv' /\ HeldInv' /\ HistoryInv' /\ GroupInv' /\ RunInv' /\ PastInv' /\ BoundsInv'
         /\ ClosedIs(below) /\ PlaceIs(edit', tree', below') /\ running' = running
<1>1. ClosedIs(below)
  BY ClosingIs
<1>2. KeptByParse /\ tree' = tree /\ below' = below /\ edit' = edit /\ running' = running
  BY DEF loop, log, ghosts, KeptByParse
<1>3. HistoryInv' /\ GroupInv' /\ RunInv' /\ PastInv' /\ BoundsInv'
  <2>1. pc # "undefined" /\ pc # "executed" /\ pc' # "executed"
    BY DEF Parsing
  <2>2. QED
    BY <2>1, <1>2, ParseFrame, Zenon
<1>4. TreeInv'
  BY <1>2, KeptTree, Zenon DEF ParserInv
<1>5. HeldInv'
  BY <1>1, <1>2, Zenon DEF HeldInv, ClosedIs
<1>6. PlaceIs(edit', tree', below')
  <2>1. pc \in Parsing
    BY DEF Parsing
  <2>2. PlaceIs(edit, tree, below)
    BY <2>1, WhileParsing
  <2>3. QED
    BY <2>2, <1>2, Zenon
<1>7. QED
  BY <1>1, <1>2, <1>3, <1>4, <1>5, <1>6, Zenon

(* Closing an object keeps the invariant.                                  *)
LEMMA CloseObjectKeeps ==
  ASSUME ParserInv, CloseObject
  PROVE  ParserInv'
<1>0. pc = "parse" /\ pc' = "parse" /\ setNodeChildren /\ UNCHANGED <<tree, edit, loop, reverseGroup, log, ghosts>>
      /\ tokens' = Tail(tokens) /\ Len(open) > 1 /\ CloseBrace(TokenOf(tokens, 1))
  BY DEF CloseObject, Closing, Token, TokenOf, CloseBrace
<1>1. pc \in Parsing /\ pc' \in Parsing
  BY <1>0 DEF Parsing
<1>2. /\ TreeInv' /\ HeldInv' /\ HistoryInv' /\ GroupInv' /\ RunInv' /\ PastInv' /\ BoundsInv'
      /\ ClosedIs(below) /\ PlaceIs(edit', tree', below') /\ running' = running
  BY <1>0, <1>1, ClosingFrame
<1>3. /\ Groups(tempChildren) /\ Opened(tempChildren, open) /\ TokensLeft(running, tokens, open)
      /\ ControlIs(pc, running)
  BY <1>0, <1>1, WhileParsing
<1>4. /\ open' = Front(open) /\ LastOpen(tempChildren, open)
      /\ Groups(tempChildren') /\ Len(tempChildren') = Last(open)
      /\ \A k \in 1 .. (Last(open) - 1) : tempChildren'[k] = tempChildren[k]
      /\ CharsOf(tempChildren'[1][1].word) = 0
  BY <1>2, Zenon DEF ClosedIs
<1>5. Opened(tempChildren', Front(open))
  BY <1>0, <1>3, <1>4, OpenedClose
<1>6. Len(Front(open)) = Len(open) - 1 /\ Len(open) \in Nat
  <2>1. open \in Seq(1 .. Len(tempChildren)) /\ Len(open) \in Nat
    BY <1>3 DEF Opened
  <2>2. QED
    BY <2>1, <1>0, FrontIs
<1>7. TokensLeft(running, Tail(tokens), Front(open))
  BY <1>0, <1>3, <1>6, CloseTaken
<1>8. TokensInv'
  BY <1>7, <1>4, <1>2, <1>0, Zenon DEF TokensInv, TokensAre
<1>9. ParseInv'
  <2>1. Last(open) >= 1
    BY <1>4 DEF LastOpen
  <2> HIDE DEF PlaceIs, Opened, Groups
  <2>2. QED
    BY <2>1, <1>0, <1>1, <1>2, <1>4, <1>5 DEF ParseInv, ParseIs
<1>10. ControlInv'
  BY <1>0, <1>2, <1>3, Zenon DEF ControlInv
<1>11. QED
  BY <1>2, <1>8, <1>9, <1>10, AllKept, Zenon

(* The parse ends, well or not.                                            *)
LEMMA CloseLastKeeps ==
  ASSUME ParserInv, CloseRoot \/ Mismatch
  PROVE  ParserInv'
<1>0. pc = "parse" /\ setNodeChildren /\ UNCHANGED <<tree, edit, loop, reverseGroup, log, ghosts>>
      /\ tokens' = tokens
  BY DEF CloseRoot, Mismatch, Closing
<1>1. pc \in Parsing /\ pc' \in Parsing /\ pc' # "parse"
  BY <1>0 DEF Parsing, CloseRoot, Mismatch
<1>2. /\ TreeInv' /\ HeldInv' /\ HistoryInv' /\ GroupInv' /\ RunInv' /\ PastInv' /\ BoundsInv'
      /\ ClosedIs(below) /\ PlaceIs(edit', tree', below') /\ running' = running
  BY <1>0, <1>1, ClosingFrame
<1>3. /\ TokensLeft(running, tokens, open) /\ ControlIs(pc, running)
  BY <1>0, <1>1, WhileParsing
<1>4. /\ LastOpen(tempChildren, open)
      /\ Groups(tempChildren') /\ Len(tempChildren') = Last(open)
      /\ CharsOf(tempChildren'[1][1].word) = 0
  BY <1>2, Zenon DEF ClosedIs
<1>5. pc' = "parsed" => Len(open) = 1
  BY <1>0 DEF CloseRoot, Mismatch
<1>6. Len(open) \in Nat /\ Len(open) >= 1 /\ Last(open) >= 1 /\ (Len(open) = 1 => Last(open) = 1)
  BY <1>4 DEF LastOpen
<1>7. ParseInv'
  <2> HIDE DEF PlaceIs, Opened, Groups
  <2>1. QED
    BY <1>1, <1>2, <1>4, <1>5, <1>6 DEF ParseInv, ParseIs
<1>8. TokensInv'
  BY <1>1, Zenon DEF TokensInv, TokensAre
<1>9. ControlInv'
  <2>1. pc' = "failed" => running = "client"
    <3>1. CloseBrace(TokenOf(tokens, 1)) /\ Len(open) = 1 => running = "client"
      <4>1. TokensLeft(running, tokens, open) /\ Len(open) \in Nat /\ Len(open) >= 1
        BY <1>3, <1>6
      <4>2. SUFFICES ASSUME running # "client"
                     PROVE  ~(CloseBrace(TokenOf(tokens, 1)) /\ Len(open) = 1)
        OBVIOUS
      <4>3. CloseBrace(TokenOf(tokens, 1)) => Len(open) # 1
        BY ONLY <4>1, <4>2, CommandParses
      <4>4. QED
        BY <4>3
    <3>5. TokenOf(tokens, 1) = "end" /\ Len(open) # 1 => running = "client"
      <4>1. TokensLeft(running, tokens, open) /\ Len(open) \in Nat /\ Len(open) >= 1
        BY <1>3, <1>6
      <4>2. SUFFICES ASSUME running # "client"
                     PROVE  ~(TokenOf(tokens, 1) = "end" /\ Len(open) # 1)
        OBVIOUS
      <4>3. TokenOf(tokens, 1) = "end" => Len(open) = 1
        BY ONLY <4>1, <4>2, CommandParses
      <4>4. QED
        BY <4>3
    <3>2. pc' = "failed" => Closing /\ ((Token(1) = "}") = (Len(open) = 1))
      BY DEF CloseRoot, Mismatch
    <3>3. pc' = "failed" => TokenOf(tokens, 1) \in {"}", "end"} /\ ((TokenOf(tokens, 1) = "}") = (Len(open) = 1))
      BY <3>2 DEF Closing, Token, TokenOf
    <3>4. QED
      BY <3>1, <3>3, <3>5 DEF CloseBrace
  <2>2. pc' \in {"failed", "parsed"}
    BY DEF CloseRoot, Mismatch
  <2>3. running' = running
    BY <1>2
  <2>4. QED
    BY <2>1, <2>2, <2>3, <1>3 DEF ControlInv, ControlIs
<1>10. QED
  BY <1>2, <1>7, <1>8, <1>9, AllKept, Zenon

(* So does a token that ends the parse: the end of the text or an error.   *)
LEMMA BadTokenKeeps ==
  ASSUME ParserInv, BadToken
  PROVE  ParserInv'
<1>0. /\ pc = "parse" /\ pc' = "failed" /\ UNCHANGED <<tree, held, parsing, loop, reverseGroup, log, ghosts>>
      /\ TokenOf(tokens, 1) = "bad" \/ TokenOf(tokens, 2) = "bad"
  BY DEF BadToken, Token, TokenOf
<1>1. pc \in Parsing /\ pc' \in Parsing
  BY <1>0 DEF Parsing
<1>2. /\ tree' = tree /\ held' = held /\ tempChildren' = tempChildren /\ open' = open /\ edit' = edit
      /\ below' = below /\ running' = running /\ KeptByParse
  BY <1>0 DEF parsing, loop, log, ghosts, KeptByParse
<1>3. HistoryInv' /\ GroupInv' /\ RunInv' /\ PastInv' /\ BoundsInv'
  <2>1. pc # "undefined" /\ pc # "executed" /\ pc' # "executed"
    BY <1>0
  <2>2. QED
    BY <2>1, <1>2, ParseFrame, Zenon
<1>4. TreeInv'
  BY <1>2, KeptTree, Zenon DEF ParserInv
<1>5. HeldInv'
  BY <1>2, Zenon DEF HeldInv, ParserInv
<1>6. /\ Groups(tempChildren) /\ Opened(tempChildren, open) /\ TokensLeft(running, tokens, open)
      /\ ControlIs(pc, running) /\ PlaceIs(edit, tree, below)
      /\ Len(tempChildren) >= 1 /\ CharsOf(tempChildren[1][1].word) = 0
  BY <1>0, <1>1, WhileParsing
<1>7. ParseInv'
  <2>1. Groups(tempChildren') /\ PlaceIs(edit', tree', below')
      /\ Len(tempChildren') >= 1 /\ CharsOf(tempChildren'[1][1].word) = 0
    BY <1>6, <1>2, Zenon
  <2> HIDE DEF PlaceIs, Opened, Groups
  <2>2. QED
    BY <2>1, <1>0, <1>1 DEF ParseInv, ParseIs
<1>8. TokensInv'
  BY <1>0 DEF TokensInv, TokensAre
<1>9. ControlInv'
  <2>1. Len(open) \in Nat /\ Len(open) >= 1
    BY <1>6, TheLastOpen DEF LastOpen
  <2>2. running = "client"
    BY <2>1, <1>0, <1>6, CommandParses
  <2>3. QED
    BY <2>2, <1>0, <1>2, <1>6 DEF ControlInv, ControlIs
<1>10. QED
  BY <1>3, <1>4, <1>5, <1>7, <1>8, <1>9, AllKept, Zenon

(* Rolling back a failed parse keeps the invariant.                        *)
LEMMA RollbackKeeps ==
  ASSUME ParserInv, Rollback
  PROVE  ParserInv'
<1>0. pc = "failed" /\ pc \in Parsing
  BY DEF Rollback, Parsing
<1>1. /\ TreeIs(tree, below) /\ IsTree(tree) /\ Groups(tempChildren)
      /\ HeldIs(held, tree, tempChildren, below)
      /\ Len(tempChildren) >= 1 /\ CharsOf(tempChildren[1][1].word) = 0 /\ ControlIs(pc, running)
  BY <1>0, WhileParsing
<1>2. running = "client"
  BY <1>0, <1>1 DEF ControlIs
<1>3. /\ tempChildren' = <<>> /\ pc' = "idle"
      /\ held' = [Less(held, Freed(Tail(tempChildren[1]) \o FlattenSeq(Tail(tempChildren))))
                    EXCEPT !.slots = @ - tempChildren[1][1].slots]
      /\ UNCHANGED <<tree, loop, reverseGroup, log, ghosts>>
  BY <1>2, Zenon DEF Rollback, Return
<1>4. KeptByParse /\ tree' = tree /\ below' = below /\ running' = running
  BY <1>3 DEF loop, log, ghosts, KeptByParse
<1>5. HistoryInv' /\ GroupInv' /\ RunInv' /\ PastInv' /\ BoundsInv'
  <2>1. pc # "undefined" /\ pc # "executed" /\ pc' # "executed"
    BY <1>0, <1>3
  <2>2. QED
    BY <2>1, <1>4, ParseFrame, Zenon
<1>6. TreeInv'
  BY <1>4, KeptTree, Zenon DEF ParserInv
<1>7. HeldInv'
  <2>1. HeldIs([Less(held, Freed(Tail(tempChildren[1]) \o FlattenSeq(Tail(tempChildren))))
                  EXCEPT !.slots = @ - tempChildren[1][1].slots], tree, <<>>, below)
    BY <1>1, HeldRollback
  <2>2. QED
    BY <2>1, <1>3, <1>4, Zenon DEF HeldInv
<1>8. ParseInv'
  <2>1. Groups(tempChildren') /\ Len(tempChildren') = 0
    BY <1>3, NoGroups, Zenon
  <2> HIDE DEF Groups
  <2>2. QED
    BY <2>1, <1>3 DEF ParseInv, ParseIs, Parsing
<1>9. TokensInv'
  BY <1>3 DEF TokensInv, TokensAre
<1>10. ControlInv'
  BY <1>2, <1>3, <1>4 DEF ControlInv, ControlIs
<1>11. QED
  BY <1>5, <1>6, <1>7, <1>8, <1>9, <1>10, AllKept, Zenon

(* The commands that edits leave.                                          *)
LEMMA TreeCommand ==
  ASSUME NEW q, Balanced(q, 0, 0), NEW i \in Nat, NEW n \in Nat
  PROVE  CommandIs(Command("EDIT_TREE", q, i, n)) /\ Command("EDIT_TREE", q, i, n).lastInGroup = FALSE
<1>1. q \in Seq(Words \cup Braces)
  BY BalancedTokens
<1>2. q \in Seq(Named \cup Braces)
  <2>1. \A k \in 1 .. Len(q) : q[k] \in Words \cup Braces
    BY <1>1
  <2>2. Words \cup Braces \subseteq Named \cup Braces
    BY DEF Named
  <2>3. \A k \in 1 .. Len(q) : q[k] \in Named \cup Braces
    BY <2>1, <2>2
  <2>4. QED
    BY ONLY <1>1, <2>3, InSeq
<1> DEFINE c == Command("EDIT_TREE", q, i, n)
<1>3. c \in CommandFields /\ c.lastInGroup = FALSE /\ c.type = "EDIT_TREE" /\ c.text = q
  BY <1>2 DEF Command, CommandFields
<1> HIDE DEF c
<1>4. CommandIs(c)
  BY <1>3 DEF CommandIs
<1>5. QED
  BY <1>3, <1>4 DEF c

(* The reverse of a name's edit is a command.                              *)
LEMMA TextCommand ==
  ASSUME NEW w \in Named
  PROVE  CommandIs(Command("EDIT_TEXT", <<w>>, 0, 0)) /\ Command("EDIT_TEXT", <<w>>, 0, 0).lastInGroup = FALSE
<1> DEFINE c == Command("EDIT_TEXT", <<w>>, 0, 0)
<1>1. <<w>> \in Seq(Named \cup Braces)
  OBVIOUS
<1>2. c \in CommandFields /\ c.lastInGroup = FALSE /\ c.type = "EDIT_TEXT" /\ c.text = <<w>>
  BY <1>1 DEF Command, CommandFields
<1> HIDE DEF c
<1>3. Len(c.text) = 1 /\ c.text[1] = w
  BY <1>2
<1>4. CommandIs(c)
  BY <1>2, <1>3 DEF CommandIs
<1>5. QED
  BY <1>2, <1>4 DEF c

(* So is the reverse of a position edit.                                   *)
LEMMA PositionCommand ==
  ASSUME NEW i \in Nat, NEW n \in Nat, i # n
  PROVE  /\ CommandIs(Command("EDIT_POSITION", <<>>, i, n))
         /\ Command("EDIT_POSITION", <<>>, i, n).lastInGroup = FALSE
<1> DEFINE c == Command("EDIT_POSITION", <<>>, i, n)
<1>1. <<>> \in Seq(Named \cup Braces)
  OBVIOUS
<1>2. /\ c \in CommandFields /\ c.lastInGroup = FALSE /\ c.type = "EDIT_POSITION"
      /\ c.insertionIndex = i /\ c.removalCount = n
  BY <1>1 DEF Command, CommandFields
<1> HIDE DEF c
<1>3. CommandIs(c)
  BY <1>2 DEF CommandIs
<1>4. QED
  BY <1>2, <1>3 DEF c

(* What an edit does to the group, and to whoever runs it.                 *)
LEMMA RunGrown ==
  ASSUME NEW c, c # "executed", NEW r, NEW i, NEW g, NEW h, NEW n, RunIs(c, r, i, g, h, n),
         NEW u, Len(u) = Len(g) + 1, Len(g) \in Nat, n \in 0 .. Len(h), Len(h) \in Nat,
         NEW d, d = "executed" \/ r = "client"
  PROVE  RunIs(d, r, i, u, h, n)
<1>1. r = "undo" => /\ i \in 1 .. n /\ Len(u) = n - i + 1
                    /\ \A j \in (i + 1) .. n : ~h[j].lastInGroup
  BY DEF RunIs
<1>2. r = "redo" => /\ i \in (n + 1) .. Len(h) /\ Len(u) = i - (n + 1) + 1
                    /\ \A j \in (n + 1) .. (i - 1) : ~h[j].lastInGroup
  BY DEF RunIs
<1>3. r = "cancel" => i \in 1 .. Len(u)
  BY DEF RunIs
<1>4. QED
  BY <1>1, <1>2, <1>3 DEF RunIs

(* A step that adds a reverse command to the group keeps what is known of  *)
(* the history and of the calls running.                                   *)
LEMMA EditFrame ==
  ASSUME ParserInv, pc # "executed", pc # "undefined",
         NEW c, CommandIs(c), c.lastInGroup = FALSE, reverseGroup' = Append(reverseGroup, c),
         UNCHANGED <<running, index, history, redoIndex, commandCount>>,
         pc' = "executed" \/ running = "client"
  PROVE  HistoryInv' /\ GroupInv' /\ RunInv'
<1>1. HistoryInv /\ GroupInv /\ RunInv
  BY Zenon DEF ParserInv
<1>2. HistoryInv'
  BY <1>1 DEF HistoryInv
<1>3. GroupIs(Append(reverseGroup, c)) /\ Len(Append(reverseGroup, c)) = Len(reverseGroup) + 1 /\ Len(reverseGroup) \in Nat
  BY <1>1, GroupGrows DEF GroupInv
<1>4. GroupInv'
  BY <1>3, Zenon DEF GroupInv
<1>5. redoIndex \in 0 .. Len(history) /\ Len(history) \in Nat
  BY <1>1 DEF HistoryInv, HistoryIs, CommandList
<1>6. RunIs(pc, running, index, reverseGroup, history, redoIndex)
  BY <1>1 DEF RunInv
<1>7. Len(reverseGroup') = Len(reverseGroup) + 1
  BY <1>3, Zenon
<1>8. RunIs(pc', running, index, reverseGroup', history, redoIndex)
  BY <1>3, <1>5, <1>6, <1>7, RunGrown
<1>9. RunInv'
  BY <1>8, Zenon DEF RunInv
<1>10. QED
  BY <1>2, <1>4, <1>9

(* The edit of a tree, once its text is parsed.                            *)
LEMMA EditTreeIs ==
  ASSUME ParserInv, EditTree
  PROVE  LET p == edit.parent
             g == tempChildren[1]
             v == TreeEdited(tree, p, edit.index, edit.count, g)
             c == ReverseOfTree(Children(tree, p, edit.index, edit.count), ChildCount(g, 1))
         IN  /\ tree' = v
             /\ reverseGroup' = Append(reverseGroup, c)
             /\ TreeIs(v, below) /\ HeldIs(held', v, <<>>, below)
             /\ CommandIs(c) /\ c.lastInGroup = FALSE
<1>0. pc = "parsed" /\ pc \in Parsing
  BY DEF EditTree, Parsing
<1> DEFINE p == edit.parent
           i == edit.index
           n == edit.count
           g == tempChildren[1]
           v == TreeEdited(tree, p, i, n, g)
           R == Children(tree, p, i, n)
           c == ReverseOfTree(R, ChildCount(g, 1))
<1>1. /\ TreeIs(tree, below) /\ IsTree(tree) /\ Groups(tempChildren) /\ Len(tempChildren) = 1
      /\ HeldIs(held, tree, tempChildren, below) /\ CharsOf(tempChildren[1][1].word) = 0
      /\ PlaceIs(edit, tree, below)
  BY <1>0, WhileParsing
<1>2. /\ Holds(tree, p) /\ i \in Nat /\ n \in Nat /\ i + n <= ChildCount(tree, p)
      /\ ~below => p = 1
  BY <1>1 DEF PlaceIs
<1>3. /\ reverseGroup' = Append(reverseGroup, c)
      /\ tree' = [Replaced(tree, p, i, n, Deeper(Tail(g), tree[p].depth))
                    EXCEPT ![p].slots = NewSlots(ChildCount(tree, p) + ChildCount(g, 1) - n, tree[p].slots)]
      /\ held' = [Less(held, Freed(R)) EXCEPT !.slots =
                    @ + NewSlots(ChildCount(tree, p) + ChildCount(g, 1) - n, tree[p].slots) - tree[p].slots - g[1].slots]
  BY Zenon DEF EditTree
<1>4. tree' = v
  BY <1>3, Zenon DEF TreeEdited, SlotsAfter
<1>5. held' = [Less(held, Freed(R)) EXCEPT !.slots = @ + SlotsAfter(tree, p, n, g) - tree[p].slots - g[1].slots]
  BY <1>3, Zenon DEF SlotsAfter
<1>6. c = Command("EDIT_TREE", generateText(R), i, ChildCount(g, 1))
  BY Zenon DEF ReverseOfTree
<1> HIDE DEF p, i, n
<1>7. /\ TreeIs(TreeEdited(tree, p, i, n, tempChildren[1]), below)
      /\ Forest(Children(tree, p, i, n), tree[p].depth + 1) /\ tree[p].depth \in Nat
      /\ ChildCount(tempChildren[1], 1) \in Nat
      /\ HeldIs([Less(held, Freed(Children(tree, p, i, n)))
                   EXCEPT !.slots = @ + SlotsAfter(tree, p, n, tempChildren[1]) - tree[p].slots - tempChildren[1][1].slots],
                TreeEdited(tree, p, i, n, tempChildren[1]), <<>>, below)
  BY <1>1, <1>2, HeldEdit
<1>8. TreeIs(v, below) /\ HeldIs(held', v, <<>>, below)
  BY <1>5, <1>7, Zenon
<1>9. CommandIs(c) /\ c.lastInGroup = FALSE
  <2>1. tree[p].depth + 1 \in Nat
    BY <1>7
  <2>2. Balanced(generateText(R), 0, 0)
    BY <2>1, <1>7, TextBalanced, Zenon
  <2>3. /\ CommandIs(Command("EDIT_TREE", generateText(R), i, ChildCount(g, 1)))
        /\ Command("EDIT_TREE", generateText(R), i, ChildCount(g, 1)).lastInGroup = FALSE
    BY <2>2, <1>7, <1>2, TreeCommand
  <2>4. QED
    BY <2>3, <1>6, Zenon
<1>10. QED
  BY <1>3, <1>4, <1>8, <1>9, Zenon DEF p, i, n

(* Splicing the parsed nodes in keeps the invariant.                       *)
LEMMA EditTreeKeeps ==
  ASSUME ParserInv, EditTree
  PROVE  ParserInv'
<1> DEFINE p == edit.parent
           g == tempChildren[1]
           v == TreeEdited(tree, p, edit.index, edit.count, g)
           c == ReverseOfTree(Children(tree, p, edit.index, edit.count), ChildCount(g, 1))
<1>0. pc = "parsed" /\ pc \in Parsing
  BY DEF EditTree, Parsing
<1>1. /\ tree' = v /\ reverseGroup' = Append(reverseGroup, c)
      /\ TreeIs(v, below) /\ HeldIs(held', v, <<>>, below)
      /\ CommandIs(c) /\ c.lastInGroup = FALSE
  BY EditTreeIs, Zenon
<1> HIDE DEF v, c
<1>2. ControlIs(pc, running)
  BY <1>0, WhileParsing
<1>3. /\ tempChildren' = <<>> /\ pc' = Return
      /\ UNCHANGED <<tokens, open, loop, log, edits, below, before, base, past, future>>
  BY Zenon DEF EditTree
<1>4. /\ pc' = IF running = "client" THEN "idle" ELSE "executed"
  BY <1>3, Zenon DEF Return
<1>5. UNCHANGED <<running, index, history, redoIndex, commandCount, edits, below, before, base, past>>
  BY <1>3 DEF loop, log
<1>6. HistoryInv' /\ GroupInv' /\ RunInv'
  <2>1. pc # "executed" /\ pc # "undefined"
    BY <1>0
  <2>2. pc' = "executed" \/ running = "client"
    BY <1>4
  <2>3. QED
    BY <2>1, <2>2, <1>1, <1>5, EditFrame
<1>7. PastInv' /\ BoundsInv'
  BY <1>5 DEF ParserInv, PastInv, BoundsInv
<1>8. TreeInv' /\ HeldInv'
  BY <1>1, <1>3, <1>5, Zenon DEF TreeInv, HeldInv
<1>9. ParseInv'
  <2>1. Groups(tempChildren') /\ Len(tempChildren') = 0
    BY <1>3, NoGroups, Zenon
  <2> HIDE DEF Groups
  <2>2. QED
    BY <2>1, <1>4 DEF ParseInv, ParseIs, Parsing
<1>10. TokensInv'
  BY <1>4 DEF TokensInv, TokensAre
<1>11. ControlInv'
  BY <1>2, <1>4, <1>5 DEF ControlInv, ControlIs
<1>12. QED
  BY <1>6, <1>7, <1>8, <1>9, <1>10, <1>11, AllKept, Zenon

-----------------------------------------------------------------------------
(* What is open when a parse begins: the root of the new lines.            *)
OpenAtStart == <<1>>

(* A text is about to be parsed.                                           *)
LEMMA StartKeeps ==
  ASSUME ParserInv, pc \notin Parsing, NEW text, NEW p, NEW i, NEW n, initiateParse(text, p, i, n),
         UNCHANGED <<tree, held, running>>, below => below', below' \in BOOLEAN,
         PlaceIs([parent |-> p, index |-> i, count |-> n], tree, below'),
         TokensLeft(running, text, OpenAtStart)
  PROVE  TreeInv' /\ HeldInv' /\ ParseInv' /\ TokensInv' /\ ControlInv'
<1>1. /\ edit' = [parent |-> p, index |-> i, count |-> n] /\ tokens' = text
      /\ tempChildren' = Started /\ open' = <<1>> /\ pc' = "parse"
  BY Zenon DEF initiateParse, Started
<1>2. /\ TreeIs(tree, below) /\ IsTree(tree) /\ HeldIs(held, tree, tempChildren, below)
      /\ Groups(tempChildren) /\ Len(tempChildren) = 0 /\ ControlIs(pc, running)
  BY DEF ParserInv, TreeInv, TreeIs, HeldInv, ParseInv, ParseIs, ControlInv
<1>3. TreeInv'
  BY <1>2 DEF TreeInv, TreeIs
<1>4. HeldInv'
  <2>1. HeldIs(held, tree, Started, below)
    BY <1>2, HeldStart
  <2>2. HeldIs(held, tree, Started, below')
    <3>1. HeldIs(held, tree, Started, TRUE)
      BY <2>1, HeldSame
    <3>2. CASE below'
      BY <3>1, <3>2 DEF HeldIs
    <3>3. CASE ~below'
      BY <2>1, <3>3 DEF HeldIs
    <3>4. QED
      BY <3>2, <3>3
  <2>3. QED
    BY <2>2, <1>1, Zenon DEF HeldInv
<1>5. ParseInv'
  <2>1. /\ Groups(tempChildren') /\ Len(tempChildren') = 1 /\ CharsOf(tempChildren'[1][1].word) = 0
        /\ Opened(tempChildren', open') /\ PlaceIs(edit', tree', below')
    BY <1>1, StartedGroups, Zenon
  <2> HIDE DEF PlaceIs, Opened, Groups
  <2>2. QED
    BY <2>1, <1>1 DEF ParseInv, ParseIs, Parsing
<1>6. TokensInv'
  BY <1>1, Zenon DEF TokensInv, TokensAre, OpenAtStart
<1>7. ControlInv'
  BY <1>1, <1>2 DEF ControlInv, ControlIs
<1>8. QED
  BY <1>3, <1>4, <1>5, <1>6, <1>7

(* Counting an edit of a client.                                           *)
LEMMA CountedKeeps ==
  ASSUME ParserInv, NEW z \in BOOLEAN, Counted(z), UNCHANGED log
  PROVE  /\ HistoryInv' /\ PastInv' /\ BoundsInv'
         /\ below' \in BOOLEAN /\ (below => below') /\ (z => below')
<1>1. HistoryInv /\ PastInv /\ BoundsInv
  BY Zenon DEF ParserInv
<1>2. /\ below' = (below \/ z) /\ edits' = edits + 1
      /\ edits < IF below' THEN MaxEditsBelow ELSE MaxEdits
      /\ before' = (IF below' /\ ~below THEN base ELSE before)
      /\ base' = base /\ past' = past
      /\ history' = history /\ redoIndex' = redoIndex /\ commandCount' = commandCount
  BY DEF Counted, log
<1>3. below \in BOOLEAN /\ edits \in 0 .. MaxEdits
  BY <1>1 DEF BoundsInv
<1>4. below' \in BOOLEAN /\ (below => below') /\ (z => below')
  BY <1>2, <1>3
<1>5. BoundsInv'
  <2>1. MaxEdits \in Nat /\ MaxEditsBelow \in 0 .. MaxEdits
    BY ConstantsAssumption
  <2>2. QED
    BY <2>1, <1>2, <1>3, <1>4 DEF BoundsInv
<1>6. HistoryInv'
  BY <1>1, <1>2 DEF HistoryInv
<1>7. PastInv'
  <2>1. before' \in Documents /\ base' \in Documents
    BY <1>1, <1>2 DEF PastInv
  <2>2. past' \in Seq(Documents)
    BY <1>1, <1>2 DEF PastInv, PastIs
  <2>3. ~below' => Len(past') = Cardinality(FlagsUpTo(history', redoIndex'))
    BY <1>1, <1>2, <1>4 DEF PastInv, PastIs
  <2>4. QED
    BY <2>1, <2>2, <2>3 DEF PastInv, PastIs
<1>8. QED
  BY <1>4, <1>5, <1>6, <1>7

(* What is known while only the root's children are edited is at least     *)
(* what is known after.                                                    *)
LEMMA Weaker ==
  ASSUME NEW t, NEW h, NEW s, NEW b, NEW c, b => c
  PROVE  /\ TreeIs(t, b) => TreeIs(t, c)
         /\ HeldIs(h, t, s, b) => HeldIs(h, t, s, c)
BY Zenon DEF TreeIs, HeldIs

(* What the invariant says while nothing is parsed.                        *)
LEMMA WhileNotParsing ==
  ASSUME ParserInv, pc \notin Parsing
  PROVE  /\ TreeIs(tree, below) /\ IsTree(tree) /\ HeldIs(held, tree, tempChildren, below)
         /\ Groups(tempChildren) /\ Len(tempChildren) = 0 /\ ControlIs(pc, running)
BY DEF ParserInv, TreeInv, TreeIs, HeldInv, ParseInv, ParseIs, ControlInv

(* A step between parses keeps what is known of them.                      *)
LEMMA StillNotParsing ==
  ASSUME ParserInv, pc \notin Parsing, pc' \notin Parsing, tempChildren' = tempChildren
  PROVE  ParseInv' /\ TokensInv'
<1>1. Groups(tempChildren') /\ Len(tempChildren') = 0
  BY WhileNotParsing, Zenon
<1>2. pc' # "parse" /\ pc' # "parsed"
  BY DEF Parsing
<1> HIDE DEF Groups
<1>3. QED
  BY <1>1, <1>2 DEF ParseInv, ParseIs, TokensInv, TokensAre

(* The text of a node is replaced.                                         *)
LEMMA TextEdited ==
  ASSUME ParserInv, pc \notin Parsing, NEW p \in 1 .. Len(tree), NEW w \in Named, EditText(p, w)
  PROVE  /\ TreeIs(tree', below) /\ HeldIs(held', tree', tempChildren, below)
         /\ \E c : CommandIs(c) /\ c.lastInGroup = FALSE /\ reverseGroup' = Append(reverseGroup, c)
<1>1. /\ TreeIs(tree, below) /\ HeldIs(held, tree, tempChildren, below) /\ Groups(tempChildren)
  BY WhileNotParsing
<1>2. /\ reverseGroup' = Append(reverseGroup, Command("EDIT_TEXT", <<tree[p].word>>, 0, 0))
      /\ held' = [held EXCEPT !.chars = @ + CharsOf(w) - CharsOf(tree[p].word)]
      /\ tree' = [tree EXCEPT ![p].word = w]
  BY Zenon DEF EditText
<1>3. /\ TreeIs([tree EXCEPT ![p].word = w], below)
      /\ HeldIs([held EXCEPT !.chars = @ + CharsOf(w) - CharsOf(tree[p].word)],
                [tree EXCEPT ![p].word = w], tempChildren, below)
      /\ tree[p].word \in Named
  BY <1>1, HeldText
<1>4. /\ CommandIs(Command("EDIT_TEXT", <<tree[p].word>>, 0, 0))
      /\ Command("EDIT_TEXT", <<tree[p].word>>, 0, 0).lastInGroup = FALSE
  BY <1>3, TextCommand
<1>5. TreeIs(tree', below) /\ HeldIs(held', tree', tempChildren, below)
  BY <1>2, <1>3, Zenon
<1>6. QED
  BY <1>2, <1>4, <1>5, Zenon

(* A child changes its place.                                              *)
LEMMA PositionEditedIs ==
  ASSUME ParserInv, pc \notin Parsing, NEW p, Holds(tree, p),
         NEW i \in 0 .. (ChildCount(tree, p) - 1), NEW j \in 0 .. (ChildCount(tree, p) - 1), i # j,
         EditPosition(p, i, j), NEW b, below => b, ~b => p = 1
  PROVE  /\ TreeIs(tree', b) /\ HeldIs(held', tree', tempChildren, b)
         /\ \E c : CommandIs(c) /\ c.lastInGroup = FALSE /\ reverseGroup' = Append(reverseGroup, c)
<1>1. /\ TreeIs(tree, b) /\ HeldIs(held, tree, tempChildren, b) /\ Groups(tempChildren) /\ IsTree(tree)
  BY WhileNotParsing, Weaker
<1>2. /\ reverseGroup' = Append(reverseGroup, Command("EDIT_POSITION", <<>>, i, j))
      /\ tree' = PositionEdited(tree, p, i, j)
      /\ held' = held
  BY Zenon DEF EditPosition, PositionEdited
<1>3. Moved(tree, p, PositionEdited(tree, p, i, j))
  BY <1>1, PositionEditIs
<1>4. /\ TreeIs(PositionEdited(tree, p, i, j), b)
      /\ HeldIs(held, PositionEdited(tree, p, i, j), tempChildren, b)
  BY <1>1, <1>3, HeldMoved
<1>5. TreeIs(tree', b) /\ HeldIs(held', tree', tempChildren, b)
  BY <1>2, <1>4, Zenon
<1>6. /\ CommandIs(Command("EDIT_POSITION", <<>>, i, j))
      /\ Command("EDIT_POSITION", <<>>, i, j).lastInGroup = FALSE
  <2>1. i \in Nat /\ j \in Nat /\ i # j
    OBVIOUS
  <2>2. QED
    BY <2>1, PositionCommand
<1>7. QED
  BY <1>2, <1>5, <1>6, Zenon

(* A place in a tree, or in its objects.                                   *)
LEMMA PlacesOf ==
  ASSUME ParserInv, pc \notin Parsing
  PROVE  /\ DOMAIN tree = 1 .. Len(tree) /\ Len(tree) \in Nat /\ Len(tree) >= 1
         /\ \A p \in Objects : Holds(tree, p) /\ ChildCount(tree, p) \in Nat
         /\ Holds(tree, 1) /\ ChildCount(tree, 1) \in Nat
<1>1. IsTree(tree)
  BY WhileNotParsing
<1>2. tree \in Seq(Lines) /\ Len(tree) \in Nat /\ Len(tree) >= 1 /\ DOMAIN tree = 1 .. Len(tree)
  BY <1>1, TreeLines
<1>3. \A p \in Objects : Holds(tree, p)
  BY <1>2 DEF Objects, Holds, RootNode
<1>4. Holds(tree, 1)
  BY <1>2 DEF Holds
<1>5. \A p \in 1 .. Len(tree) : ChildCount(tree, p) \in Nat
  BY <1>2, ChildCountIs
<1>6. \A p \in Objects : p \in 1 .. Len(tree)
  BY <1>3 DEF Holds
<1>7. 1 \in 1 .. Len(tree)
  BY <1>2
<1>8. QED
  BY <1>2, <1>3, <1>4, <1>5, <1>6, <1>7

(* A client's edit of a list of children starts a parse and keeps the      *)
(* invariant,                                                              *)
LEMMA ClientEditsTreeKeeps ==
  ASSUME ParserInv, ClientEditsTree
  PROVE  ParserInv'
<1>0. pc = "idle" /\ pc \notin Parsing /\ UNCHANGED <<tree, held, loop, reverseGroup, log>>
  BY DEF ClientEditsTree, Parsing
<1>1. PICK p \in Objects, text \in Texts :
        \E i \in 0 .. ChildCount(tree, p) : \E n \in 0 .. (ChildCount(tree, p) - i) :
          /\ initiateParse(text, p, i, n)
          /\ Counted(p # RootNode)
  BY Zenon DEF ClientEditsTree
<1>2. PICK i \in 0 .. ChildCount(tree, p) : \E n \in 0 .. (ChildCount(tree, p) - i) :
          /\ initiateParse(text, p, i, n)
          /\ Counted(p # RootNode)
  BY <1>1
<1>3. PICK n \in 0 .. (ChildCount(tree, p) - i) :
          /\ initiateParse(text, p, i, n)
          /\ Counted(p # RootNode)
  BY <1>2
<1>4. running = "client"
  BY <1>0, WhileNotParsing DEF ControlIs
<1>5. Holds(tree, p) /\ ChildCount(tree, p) \in Nat
  BY <1>0, PlacesOf
<1>6. /\ HistoryInv' /\ PastInv' /\ BoundsInv'
      /\ below' \in BOOLEAN /\ (below => below') /\ (p # RootNode => below')
  <2>1. (p # RootNode) \in BOOLEAN
    OBVIOUS
  <2>2. UNCHANGED log
    BY <1>0
  <2>3. QED
    BY <1>3, <2>1, <2>2, CountedKeeps
<1>7. PlaceIs([parent |-> p, index |-> i, count |-> n], tree, below')
  <2>1. i \in Nat /\ n \in Nat /\ i + n <= ChildCount(tree, p)
    BY <1>5
  <2>2. ~below' => p = 1
    BY <1>6 DEF RootNode
  <2>3. QED
    BY <1>5, <2>1, <2>2 DEF PlaceIs
<1>8. TokensLeft(running, text, OpenAtStart)
  <2>1. text \in Seq(Words \cup {"{", "}", "bad"})
    BY ConstantsAssumption
  <2>2. Words \cup {"{", "}", "bad"} = Tokens
    BY DEF Tokens, Braces
  <2>3. QED
    BY <2>1, <2>2, <1>4 DEF TokensLeft
<1>9. TreeInv' /\ HeldInv' /\ ParseInv' /\ TokensInv' /\ ControlInv'
  <2>1. UNCHANGED <<tree, held, running>>
    BY <1>0 DEF loop
  <2>2. initiateParse(text, p, i, n)
    BY <1>3
  <2>3. QED
    BY <2>1, <2>2, <1>0, <1>6, <1>7, <1>8, StartKeeps
<1>10. GroupInv' /\ RunInv'
  <2>1. GroupInv' /\ running' = "client"
    BY <1>0, <1>4 DEF ParserInv, GroupInv, loop
  <2>2. RunInv'
    BY <2>1 DEF RunInv, RunIs
  <2>3. QED
    BY <2>1, <2>2
<1>11. QED
  BY <1>6, <1>9, <1>10, AllKept, Zenon

(* What follows an edit that is not parsed.                                *)
LEMMA EditedKeeps ==
  ASSUME ParserInv, pc \notin Parsing, pc # "executed", pc # "undefined",
         TreeIs(tree', below'), HeldIs(held', tree', tempChildren, below'),
         NEW c, CommandIs(c), c.lastInGroup = FALSE, reverseGroup' = Append(reverseGroup, c),
         UNCHANGED <<parsing, loop, log>>,
         (pc' = "executed" /\ running # "client") \/ (pc' = pc /\ running = "client"),
         PastInv', BoundsInv'
  PROVE  ParserInv'
<1>1. UNCHANGED <<running, index, history, redoIndex, commandCount>> /\ tempChildren' = tempChildren
  BY DEF loop, log, parsing
<1>2. HistoryInv' /\ GroupInv' /\ RunInv'
  BY <1>1, EditFrame
<1>3. TreeInv' /\ HeldInv'
  BY <1>1, Zenon DEF TreeInv, HeldInv
<1>4. pc' \notin Parsing
  BY DEF Parsing
<1>5. ParseInv' /\ TokensInv'
  BY <1>1, <1>4, StillNotParsing
<1>6. ControlInv'
  <2>1. ControlIs(pc, running)
    BY WhileNotParsing
  <2>2. QED
    BY <2>1, <1>1 DEF ControlInv, ControlIs
<1>7. QED
  BY <1>2, <1>3, <1>5, <1>6, AllKept, Zenon

(* a client's edit of a name keeps it,                                     *)
LEMMA ClientEditsTextKeeps ==
  ASSUME ParserInv, ClientEditsText
  PROVE  ParserInv'
<1>0. pc = "idle" /\ pc \notin Parsing /\ UNCHANGED <<pc, parsing, loop, log>> /\ Counted(TRUE)
  BY DEF ClientEditsText, Parsing
<1>1. PICK p \in DOMAIN tree \ {RootNode}, w \in Words : EditText(p, w)
  BY DEF ClientEditsText
<1>2. running = "client"
  BY <1>0, WhileNotParsing DEF ControlIs
<1>3. p \in 1 .. Len(tree) /\ w \in Named
  BY <1>0, PlacesOf DEF Named
<1>4. /\ TreeIs(tree', below) /\ HeldIs(held', tree', tempChildren, below)
      /\ \E c : CommandIs(c) /\ c.lastInGroup = FALSE /\ reverseGroup' = Append(reverseGroup, c)
  BY <1>0, <1>1, <1>3, TextEdited
<1>5. PICK c : CommandIs(c) /\ c.lastInGroup = FALSE /\ reverseGroup' = Append(reverseGroup, c)
  BY <1>4
<1>6. PastInv' /\ BoundsInv' /\ (below => below')
  <2>1. UNCHANGED log /\ TRUE \in BOOLEAN
    BY <1>0
  <2>2. QED
    BY <2>1, <1>0, CountedKeeps
<1>7. TreeIs(tree', below') /\ HeldIs(held', tree', tempChildren, below')
  BY <1>4, <1>6, Weaker
<1>8. QED
  BY <1>0, <1>2, <1>5, <1>6, <1>7, EditedKeeps

(* and a client's move of a child.                                         *)
LEMMA ClientEditsPositionKeeps ==
  ASSUME ParserInv, ClientEditsPosition
  PROVE  ParserInv'
<1>0. pc = "idle" /\ pc \notin Parsing /\ UNCHANGED <<pc, parsing, loop, log>>
  BY DEF ClientEditsPosition, Parsing
<1>1. PICK p \in Objects :
        /\ \E i, j \in 0 .. (ChildCount(tree, p) - 1) : i # j /\ EditPosition(p, i, j)
        /\ Counted(p # RootNode)
  BY DEF ClientEditsPosition
<1>2. PICK i \in 0 .. (ChildCount(tree, p) - 1), j \in 0 .. (ChildCount(tree, p) - 1) :
        i # j /\ EditPosition(p, i, j)
  BY <1>1
<1>3. running = "client"
  BY <1>0, WhileNotParsing DEF ControlIs
<1>4. Holds(tree, p)
  BY <1>0, PlacesOf
<1>5. PastInv' /\ BoundsInv' /\ (below => below') /\ (p # RootNode => below')
  <2>1. UNCHANGED log /\ (p # RootNode) \in BOOLEAN
    BY <1>0
  <2>2. QED
    BY <2>1, <1>1, CountedKeeps
<1>6. ~below' => p = 1
  BY <1>5 DEF RootNode
<1>7. below => below'
  BY <1>5
<1> DEFINE b == below'
<1>8. /\ TreeIs(tree', b) /\ HeldIs(held', tree', tempChildren, b)
      /\ \E c : CommandIs(c) /\ c.lastInGroup = FALSE /\ reverseGroup' = Append(reverseGroup, c)
  <2>1. (below => b) /\ (~b => p = 1)
    BY <1>6, <1>7
  <2> HIDE DEF b
  <2>2. QED
    BY <2>1, <1>0, <1>2, <1>4, PositionEditedIs
<1>9. PICK c : CommandIs(c) /\ c.lastInGroup = FALSE /\ reverseGroup' = Append(reverseGroup, c)
  BY <1>8
<1>10. QED
  BY <1>0, <1>3, <1>5, <1>8, <1>9, EditedKeeps

-----------------------------------------------------------------------------
(* The command that is executed is there.                                  *)
LEMMA CurrentCommand ==
  ASSUME ParserInv, pc \in {"execute", "executed"}
  PROVE  /\ index \in 1 .. Len(Commands) /\ CommandIs(Commands[index]) /\ Commands[index] \in CommandFields
         /\ running \in {"undo", "redo", "cancel"}
         /\ CommandsAre(history) /\ CommandsAre(reverseGroup)
         /\ redoIndex \in 0 .. Len(history)
         /\ RunIs(pc, running, index, reverseGroup, history, redoIndex)
<1>1. /\ CommandList(history) /\ CommandList(reverseGroup) /\ redoIndex \in 0 .. Len(history)
      /\ RunIs(pc, running, index, reverseGroup, history, redoIndex) /\ ControlIs(pc, running)
  BY DEF ParserInv, HistoryInv, HistoryIs, GroupInv, GroupIs, RunInv, ControlInv
<1>2. running \in {"undo", "redo", "cancel"}
  BY <1>1 DEF ControlIs
<1>3. CommandsAre(history) /\ CommandsAre(reverseGroup)
  BY <1>1, TheCommands
<1>4. Len(history) \in Nat
  BY <1>3 DEF CommandsAre
<1>5. running = "undo" => index \in 1 .. redoIndex
  BY <1>1 DEF RunIs
<1>6. running = "redo" => index \in (redoIndex + 1) .. Len(history)
  BY <1>1 DEF RunIs
<1>7. running = "cancel" => index \in 1 .. Len(reverseGroup)
  BY <1>1 DEF RunIs
<1>8. running # "cancel" => index \in 1 .. Len(history)
  BY <1>1, <1>2, <1>4, <1>5, <1>6
<1>9. index \in 1 .. Len(Commands) /\ CommandIs(Commands[index]) /\ Commands[index] \in CommandFields
  <2>1. CASE running = "cancel"
    <3>1. Commands = reverseGroup
      BY <2>1 DEF Commands
    <3>2. QED
      BY <3>1, <2>1, <1>7, <1>3 DEF CommandsAre
  <2>2. CASE running # "cancel"
    <3>1. Commands = history
      BY <2>2 DEF Commands
    <3>2. QED
      BY <3>1, <2>2, <1>8, <1>3 DEF CommandsAre
  <2>3. QED
    BY <2>1, <2>2
<1>10. QED
  BY <1>1, <1>2, <1>3, <1>9

(* A command that reads past the end of a list.                            *)
LEMMA UndefinedKeeps ==
  ASSUME ParserInv, pc \in {"execute", "executed"}, pc' = "undefined",
         UNCHANGED <<tree, held, parsing, running, reverseGroup, log, ghosts>>
  PROVE  ParserInv'
<1>1. /\ pc \notin Parsing /\ pc' \notin Parsing
  BY DEF Parsing
<1>2. tempChildren' = tempChildren /\ tree' = tree /\ held' = held /\ below' = below
  BY DEF parsing, ghosts
<1>3. ParseInv' /\ TokensInv'
  BY <1>1, <1>2, StillNotParsing
<1>4. HistoryInv' /\ GroupInv' /\ PastInv' /\ BoundsInv'
  BY DEF ParserInv, HistoryInv, GroupInv, PastInv, BoundsInv, log, ghosts
<1>5. TreeInv' /\ HeldInv'
  BY <1>2, Zenon DEF ParserInv, TreeInv, HeldInv
<1>6. RunInv'
  BY DEF RunInv
<1>7. ControlInv'
  BY DEF ParserInv, ControlInv, ControlIs
<1>8. QED
  BY <1>3, <1>4, <1>5, <1>6, <1>7, AllKept, Zenon

(* A command executed by undo, redo or cancel keeps the invariant: one     *)
(* that edits the tree,                                                    *)
LEMMA ExecuteTreeKeeps ==
  ASSUME ParserInv, ExecuteTree
  PROVE  ParserInv'
<1> DEFINE c == Commands[index]
<1>0. /\ pc = "execute" /\ pc \in {"execute", "executed"} /\ pc \notin Parsing /\ c.type = "EDIT_TREE"
      /\ UNCHANGED <<tree, held, loop, reverseGroup, log, ghosts>>
      /\ \/ /\ c.insertionIndex + c.removalCount <= ChildCount(tree, RootNode)
            /\ initiateParse(c.text, RootNode, c.insertionIndex, c.removalCount)
         \/ pc' = "undefined" /\ UNCHANGED parsing
  BY DEF ExecuteTree, Parsing
<1>1. CommandIs(c) /\ c \in CommandFields
  BY <1>0, CurrentCommand, Zenon
<1> HIDE DEF c
<1>2. c.insertionIndex \in Nat /\ c.removalCount \in Nat /\ Balanced(c.text, 0, 0)
  BY <1>0, <1>1 DEF CommandFields, CommandIs
<1>3. UNCHANGED <<tree, held, running, index, reverseGroup, history, redoIndex, commandCount,
                  edits, below, before, base, past>>
  BY <1>0 DEF loop, log, ghosts
<1>4. CASE initiateParse(c.text, RootNode, c.insertionIndex, c.removalCount)
           /\ c.insertionIndex + c.removalCount <= ChildCount(tree, RootNode)
  <2>1. Holds(tree, 1)
    BY <1>0, PlacesOf
  <2>2. below \in BOOLEAN /\ below' = below
    BY <1>3 DEF ParserInv, BoundsInv
  <2>3. PlaceIs([parent |-> RootNode, index |-> c.insertionIndex, count |-> c.removalCount], tree, below')
    BY <2>1, <1>2, <1>4 DEF PlaceIs, RootNode
  <2>4. TokensLeft(running, c.text, OpenAtStart)
    <3>1. c.text \in Seq(Tokens)
      BY <1>2, BalancedTokens
    <3>2. Len(<<1>>) - 1 = 0
      OBVIOUS
    <3>3. Balanced(c.text, Len(<<1>>) - 1, 0)
      BY <3>2, <1>2, Zenon
    <3>4. QED
      BY <3>1, <3>3, Zenon DEF TokensLeft, OpenAtStart
  <2>5. TreeInv' /\ HeldInv' /\ ParseInv' /\ TokensInv' /\ ControlInv'
    <3>1. UNCHANGED <<tree, held, running>> /\ (below => below') /\ below' \in BOOLEAN
      BY <1>3, <2>2
    <3>2. QED
      BY <3>1, <1>0, <1>4, <2>3, <2>4, StartKeeps
  <2>6. HistoryInv' /\ GroupInv' /\ RunInv' /\ PastInv' /\ BoundsInv'
    <3>1. pc' = "parse"
      BY <1>4 DEF initiateParse
    <3>2. KeptByParse
      BY <1>3 DEF KeptByParse
    <3>3. pc # "undefined" /\ pc # "executed" /\ pc' # "executed"
      BY <3>1, <1>0
    <3>4. QED
      BY <3>2, <3>3, ParseFrame, Zenon
  <2>7. QED
    BY <2>5, <2>6, AllKept, Zenon
<1>5. CASE pc' = "undefined" /\ UNCHANGED parsing
  <2>1. UNCHANGED <<tree, held, parsing, running, reverseGroup, log, ghosts>>
    BY <1>0, <1>5 DEF loop
  <2>2. QED
    BY <2>1, <1>0, <1>5, UndefinedKeeps
<1>6. QED
  BY <1>0, <1>4, <1>5

(* (such a step leaves the ghosts)                                         *)
LEMMA KeptPast ==
  ASSUME ParserInv, UNCHANGED <<log, ghosts>>
  PROVE  PastInv' /\ BoundsInv' /\ below' = below
BY DEF ParserInv, PastInv, BoundsInv, log, ghosts

(* one that edits a name                                                   *)
LEMMA ExecuteTextKeeps ==
  ASSUME ParserInv, ExecuteText
  PROVE  ParserInv'
<1> DEFINE c == Commands[index]
<1>0. /\ pc = "execute" /\ pc \in {"execute", "executed"} /\ pc \notin Parsing /\ c.type = "EDIT_TEXT"
      /\ UNCHANGED <<parsing, loop, log, ghosts>>
      /\ \/ EditText(RootNode, c.text[1]) /\ pc' = "executed"
         \/ pc' = "undefined" /\ UNCHANGED <<tree, held, reverseGroup>>
  BY DEF ExecuteText, Parsing
<1>1. CommandIs(c) /\ running \in {"undo", "redo", "cancel"}
  BY <1>0, CurrentCommand, Zenon
<1> HIDE DEF c
<1>2. c.text[1] \in Named
  BY <1>0, <1>1 DEF CommandIs
<1>3. PastInv' /\ BoundsInv' /\ below' = below
  BY <1>0, KeptPast
<1>4. CASE EditText(RootNode, c.text[1]) /\ pc' = "executed"
  <2>1. RootNode \in 1 .. Len(tree)
    BY <1>0, PlacesOf DEF RootNode
  <2>2. /\ TreeIs(tree', below) /\ HeldIs(held', tree', tempChildren, below)
        /\ \E x : CommandIs(x) /\ x.lastInGroup = FALSE /\ reverseGroup' = Append(reverseGroup, x)
    BY <2>1, <1>0, <1>2, <1>4, TextEdited
  <2>3. PICK x : CommandIs(x) /\ x.lastInGroup = FALSE /\ reverseGroup' = Append(reverseGroup, x)
    BY <2>2
  <2>4. TreeIs(tree', below') /\ HeldIs(held', tree', tempChildren, below')
    BY <2>2, <1>3, Zenon
  <2>5. running # "client" /\ pc # "executed" /\ pc # "undefined"
    BY <1>0, <1>1
  <2>6. ParserInv /\ pc \notin Parsing /\ UNCHANGED <<parsing, loop, log>>
        /\ ((pc' = "executed" /\ running # "client") \/ (pc' = pc /\ running = "client"))
    BY <2>5, <1>0, <1>4
  <2>7. QED
    BY ONLY <2>3, <2>4, <2>5, <2>6, <1>3, EditedKeeps
<1>5. CASE pc' = "undefined" /\ UNCHANGED <<tree, held, reverseGroup>>
  <2>1. UNCHANGED <<tree, held, parsing, running, reverseGroup, log, ghosts>>
    BY <1>0, <1>5 DEF loop
  <2>2. QED
    BY <2>1, <1>0, <1>5, UndefinedKeeps
<1>6. QED
  BY <1>0, <1>4, <1>5

(* and one that moves a child.                                             *)
LEMMA ExecutePositionKeeps ==
  ASSUME ParserInv, ExecutePosition
  PROVE  ParserInv'
<1> DEFINE c == Commands[index]
           places == 0 .. (ChildCount(tree, RootNode) - 1)
<1>0. /\ pc = "execute" /\ pc \in {"execute", "executed"} /\ pc \notin Parsing /\ c.type = "EDIT_POSITION"
      /\ UNCHANGED <<parsing, loop, log, ghosts>>
      /\ \/ /\ {c.insertionIndex, c.removalCount} \subseteq places
            /\ EditPosition(RootNode, c.removalCount, c.insertionIndex) /\ pc' = "executed"
         \/ pc' = "undefined" /\ UNCHANGED <<tree, held, reverseGroup>>
  BY DEF ExecutePosition, Parsing
<1>1. CommandIs(c) /\ running \in {"undo", "redo", "cancel"}
  BY <1>0, CurrentCommand, Zenon
<1> HIDE DEF c
<1>2. c.insertionIndex # c.removalCount
  BY <1>0, <1>1 DEF CommandIs
<1>3. PastInv' /\ BoundsInv' /\ below' = below
  BY <1>0, KeptPast
<1>4. CASE /\ {c.insertionIndex, c.removalCount} \subseteq places
           /\ EditPosition(RootNode, c.removalCount, c.insertionIndex) /\ pc' = "executed"
  <2>1. Holds(tree, RootNode)
    BY <1>0, PlacesOf DEF RootNode
  <2>2. /\ c.removalCount \in 0 .. (ChildCount(tree, RootNode) - 1)
        /\ c.insertionIndex \in 0 .. (ChildCount(tree, RootNode) - 1)
    BY <1>4
  <2> DEFINE i == c.removalCount
             j == c.insertionIndex
  <2>3. i \in 0 .. (ChildCount(tree, RootNode) - 1) /\ j \in 0 .. (ChildCount(tree, RootNode) - 1)
        /\ i # j /\ EditPosition(RootNode, i, j)
    BY <2>2, <1>2, <1>4
  <2>4. (below => below) /\ (~below => RootNode = 1)
    BY DEF RootNode
  <2> HIDE DEF i, j
  <2>5. /\ TreeIs(tree', below) /\ HeldIs(held', tree', tempChildren, below)
        /\ \E x : CommandIs(x) /\ x.lastInGroup = FALSE /\ reverseGroup' = Append(reverseGroup, x)
    BY <2>1, <2>3, <2>4, <1>0, PositionEditedIs
  <2>6. PICK x : CommandIs(x) /\ x.lastInGroup = FALSE /\ reverseGroup' = Append(reverseGroup, x)
    BY <2>5
  <2>7. TreeIs(tree', below') /\ HeldIs(held', tree', tempChildren, below')
    BY <2>5, <1>3, Zenon
  <2>8. running # "client" /\ pc # "executed" /\ pc # "undefined" /\ pc' = "executed"
    BY <1>0, <1>1, <1>4
  <2>9. ParserInv /\ pc \notin Parsing /\ UNCHANGED <<parsing, loop, log>>
        /\ ((pc' = "executed" /\ running # "client") \/ (pc' = pc /\ running = "client"))
    BY <2>8, <1>0, <1>4
  <2>10. QED
    BY ONLY <2>6, <2>7, <2>8, <2>9, <1>3, EditedKeeps
<1>5. CASE pc' = "undefined" /\ UNCHANGED <<tree, held, reverseGroup>>
  <2>1. UNCHANGED <<tree, held, parsing, running, reverseGroup, log, ghosts>>
    BY <1>0, <1>5 DEF loop
  <2>2. QED
    BY <2>1, <1>0, <1>5, UndefinedKeeps
<1>6. QED
  BY <1>0, <1>4, <1>5

(* The text of a tree is a list of tokens.                                 *)
LEMMA TextIsDocument ==
  ASSUME NEW t \in Seq(Lines)
  PROVE  Text(t) \in Documents
<1> DEFINE D == [word : Named, braces : BOOLEAN, depth : Nat]
           d(i) == [word |-> t[i].word, braces |-> t[i].braces, depth |-> t[i].depth]
<1>1. Len(t) \in Nat /\ DOMAIN t = 1 .. Len(t)
  OBVIOUS
<1>2. \A i \in 1 .. Len(t) : d(i) \in D
  <2>1. TAKE i \in 1 .. Len(t)
  <2>2. t[i].word \in Named /\ t[i].braces \in BOOLEAN /\ t[i].depth \in Nat
    BY LinesOf
  <2>3. QED
    BY <2>2
<1>3. Text(t) = [i \in 1 .. Len(t) |-> d(i)]
  BY <1>1, Zenon DEF Text
<1> HIDE DEF D, d
<1>4. [i \in 1 .. Len(t) |-> d(i)] \in Seq(D)
  BY <1>1, <1>2
<1>5. QED
  BY <1>3, <1>4, Zenon DEF Documents, D

(* What a step of a client, or of undo, redo and cancel, leaves alone      *)
(* when it edits nothing.                                                  *)
LEMMA NothingEdited ==
  ASSUME ParserInv, pc \notin Parsing, pc' \notin Parsing, UNCHANGED <<tree, held, parsing, edits, below>>
  PROVE  TreeInv' /\ HeldInv' /\ ParseInv' /\ TokensInv' /\ BoundsInv' /\ Text(tree) \in Documents
<1>1. tempChildren' = tempChildren
  BY DEF parsing
<1>2. ParseInv' /\ TokensInv'
  BY <1>1, StillNotParsing
<1>3. TreeInv' /\ HeldInv' /\ BoundsInv'
  BY <1>1, Zenon DEF ParserInv, TreeInv, HeldInv, BoundsInv
<1>4. Text(tree) \in Documents
  <2>1. IsTree(tree)
    BY WhileNotParsing
  <2>2. tree \in Seq(Lines)
    BY <2>1 DEF IsTree
  <2>3. QED
    BY <2>2, TextIsDocument
<1>5. QED
  BY <1>2, <1>3, <1>4

(* The cleared history.                                                    *)
LEMMA NoHistory ==
  /\ HistoryIs(<<>>, 0, 0) /\ Cardinality(FlagsUpTo(<<>>, 0)) = 0
  /\ <<>> \in Seq(Documents) /\ Len(<<>>) = 0 /\ GroupIs(<<>>)
<1>1. CommandList(<<>>) /\ Len(<<>>) = 0 /\ <<>> \in Seq(Documents)
  BY DEF CommandList
<1>2. Flags(<<>>) = {} /\ FlagsUpTo(<<>>, 0) = {} /\ Cardinality({}) = 0
  BY FS_EmptySet DEF Flags, FlagsUpTo
<1>3. Cardinality(Flags(<<>>)) = 0 /\ Cardinality(FlagsUpTo(<<>>, 0)) = 0 /\ GroupIs(<<>>)
  BY <1>1, <1>2, Zenon DEF GroupIs
<1> DEFINE e == <<>>
<1>4. CommandList(e) /\ Len(e) = 0 /\ Cardinality(Flags(e)) = 0
  BY <1>1, <1>3
<1> HIDE DEF e
<1>5. HistoryIs(e, 0, 0)
  BY <1>4, MemoryAtLeast DEF HistoryIs
<1>6. QED
  BY <1>1, <1>3, <1>5, Zenon DEF e

(* Clearing the history keeps the invariant.                               *)
LEMMA ClearHistoryKeeps ==
  ASSUME ParserInv, ClearHistory
  PROVE  ParserInv'
<1>0. /\ pc = "idle" /\ pc' = "idle" /\ history' = <<>> /\ redoIndex' = 0 /\ commandCount' = 0
      /\ IF below THEN UNCHANGED <<past, future>> ELSE past' = <<>> /\ future' = <<>>
      /\ UNCHANGED <<tree, held, parsing, loop, reverseGroup, edits, below, before, base>>
  BY DEF ClearHistory
<1>1. TreeInv' /\ HeldInv' /\ ParseInv' /\ TokensInv' /\ BoundsInv'
  <2>1. pc \notin Parsing /\ pc' \notin Parsing
    BY <1>0 DEF Parsing
  <2>2. QED
    BY <2>1, <1>0, NothingEdited
<1>2. HistoryIs(<<>>, 0, 0) /\ Cardinality(FlagsUpTo(<<>>, 0)) = 0 /\ <<>> \in Seq(Documents) /\ Len(<<>>) = 0
  BY NoHistory
<1>3. HistoryInv'
  BY <1>2, <1>0, Zenon DEF HistoryInv
<1>4. PastInv'
  <2>1. PastIs(past, history, redoIndex, below) /\ base \in Documents /\ before \in Documents
    BY DEF ParserInv, PastInv
  <2>2. PastIs(past', <<>>, 0, below)
    <3>1. CASE below
      BY <3>1, <2>1, <1>0 DEF PastIs
    <3>2. CASE ~below
      <4>1. past' = <<>>
        BY <3>2, <1>0
      <4>2. past' \in Seq(Documents) /\ Len(past') = Cardinality(FlagsUpTo(<<>>, 0))
        BY <4>1, <1>2, Zenon
      <4>3. QED
        BY <4>2, Zenon DEF PastIs
    <3>3. QED
      BY <3>1, <3>2
  <2>3. QED
    BY <2>1, <2>2, <1>0, Zenon DEF PastInv
<1>5. GroupInv' /\ RunInv' /\ ControlInv'
  <2>1. GroupInv /\ ControlIs("idle", running)
    BY <1>0 DEF ParserInv, ControlInv
  <2>2. running' = running /\ running = "client"
    BY <2>1, <1>0 DEF loop, ControlIs
  <2>3. QED
    BY <2>1, <2>2, <1>0 DEF GroupInv, ControlInv, RunInv, RunIs, ControlIs
<1>6. QED
  BY <1>1, <1>3, <1>4, <1>5, AllKept, Zenon

(* Undo, redo and cancel are called.                                       *)
LEMMA CallKeeps ==
  ASSUME ParserInv, NEW r \in {"undo", "redo", "cancel"}, NEW i, Call(r, i),
         RunIs("execute", r, i, reverseGroup, history, redoIndex)
  PROVE  ParserInv'
<1>0. /\ pc = "idle" /\ pc' = "execute" /\ running' = r /\ index' = i
      /\ before' = (IF below THEN before ELSE Text(tree))
      /\ UNCHANGED <<tree, held, parsing, reverseGroup, log, edits, below, base, past, future>>
  BY DEF Call
<1>1. TreeInv' /\ HeldInv' /\ ParseInv' /\ TokensInv' /\ BoundsInv' /\ Text(tree) \in Documents
  <2>1. pc \notin Parsing /\ pc' \notin Parsing
    BY <1>0 DEF Parsing
  <2>2. QED
    BY <2>1, <1>0, NothingEdited
<1>2. history' = history /\ redoIndex' = redoIndex /\ commandCount' = commandCount
  BY <1>0 DEF log
<1>3. HistoryInv' /\ GroupInv' /\ PastInv'
  BY <1>0, <1>1, <1>2 DEF ParserInv, HistoryInv, GroupInv, PastInv
<1>4. RunInv'
  BY <1>0, <1>2, Zenon DEF RunInv
<1>5. ControlInv'
  BY <1>0 DEF ControlInv, ControlIs
<1>6. QED
  BY <1>1, <1>3, <1>4, <1>5, AllKept, Zenon

(* Starting to undo, to redo or to cancel keeps it.                        *)
LEMMA CallingKeeps ==
  ASSUME ParserInv, Undo \/ Redo \/ Cancel
  PROVE  ParserInv'
<1>1. redoIndex \in 0 .. Len(history) /\ Len(history) \in Nat /\ reverseGroup \in Seq(CommandFields)
  BY DEF ParserInv, HistoryInv, HistoryIs, GroupInv, GroupIs, CommandList
<1>2. Len(reverseGroup) \in Nat /\ (reverseGroup # <<>> => Len(reverseGroup) >= 1)
      /\ (reverseGroup = <<>> => Len(reverseGroup) = 0)
  BY <1>1
<1>3. CASE Undo
  <2>1. Call("undo", redoIndex) /\ Len(reverseGroup) = 0 /\ redoIndex > 0
    BY <1>2, <1>3 DEF Undo
  <2>2. RunIs("execute", "undo", redoIndex, reverseGroup, history, redoIndex)
    BY <1>1, <2>1 DEF RunIs
  <2>3. QED
    BY <2>1, <2>2, CallKeeps
<1>4. CASE Redo
  <2>1. Call("redo", redoIndex + 1) /\ Len(reverseGroup) = 0 /\ redoIndex < Len(history)
    BY <1>2, <1>4 DEF Redo
  <2>2. RunIs("execute", "redo", redoIndex + 1, reverseGroup, history, redoIndex)
    BY <1>1, <2>1 DEF RunIs
  <2>3. QED
    BY <2>1, <2>2, CallKeeps
<1>5. CASE Cancel
  <2>1. Call("cancel", Len(reverseGroup)) /\ Len(reverseGroup) >= 1
    BY <1>2, <1>5 DEF Cancel
  <2>2. RunIs("execute", "cancel", Len(reverseGroup), reverseGroup, history, redoIndex)
    BY <1>2, <2>1 DEF RunIs
  <2>3. QED
    BY <2>1, <2>2, CallKeeps
<1>6. QED
  BY <1>3, <1>4, <1>5

(* The loop goes on.                                                       *)
LEMMA ContinueKeeps ==
  ASSUME ParserInv, Continue
  PROVE  ParserInv'
<1> DEFINE next == IF running = "redo" THEN index + 1 ELSE index - 1
<1>0. /\ pc = "executed" /\ pc \in {"execute", "executed"} /\ ~LoopEnds /\ index' = next
      /\ pc' = (IF next \in DOMAIN Commands THEN "execute" ELSE "undefined")
      /\ UNCHANGED <<tree, held, parsing, running, reverseGroup, log, ghosts>>
  BY DEF Continue
<1>1. CASE next \notin DOMAIN Commands
  <2>1. pc' = "undefined"
    BY <1>0, <1>1
  <2>2. QED
    BY <2>1, <1>0, UndefinedKeeps
<1>2. CASE next \in DOMAIN Commands
  <2>1. pc' = "execute" /\ pc \notin Parsing /\ pc' \notin Parsing
    BY <1>0, <1>2 DEF Parsing
  <2>2. TreeInv' /\ HeldInv' /\ ParseInv' /\ TokensInv' /\ BoundsInv'
    <3>1. UNCHANGED <<tree, held, parsing, edits, below>>
      BY <1>0 DEF ghosts
    <3>2. QED
      BY <3>1, <2>1, NothingEdited
  <2>3. history' = history /\ redoIndex' = redoIndex /\ commandCount' = commandCount
        /\ past' = past /\ base' = base /\ before' = before /\ below' = below
    BY <1>0 DEF log, ghosts
  <2>4. HistoryInv' /\ GroupInv' /\ PastInv'
    BY <1>0, <2>3 DEF ParserInv, HistoryInv, GroupInv, PastInv
  <2>5. /\ running \in {"undo", "redo", "cancel"}
        /\ CommandsAre(history) /\ CommandsAre(reverseGroup) /\ redoIndex \in 0 .. Len(history)
        /\ RunIs(pc, running, index, reverseGroup, history, redoIndex)
    BY <1>0, CurrentCommand
  <2>6. RunIs("execute", running, next, reverseGroup, history, redoIndex)
    <3>1. Len(history) \in Nat /\ DOMAIN history = 1 .. Len(history)
          /\ Len(reverseGroup) \in Nat /\ DOMAIN reverseGroup = 1 .. Len(reverseGroup)
      BY <2>5 DEF CommandsAre
    <3>2. CASE running = "undo"
      <4>1. /\ index \in 1 .. redoIndex /\ Len(reverseGroup) = redoIndex - index + 1
            /\ \A j \in (index + 1) .. redoIndex : ~history[j].lastInGroup
        BY <3>2, <2>5, <1>0 DEF RunIs
      <4>2. ~history[index].lastInGroup /\ next = index - 1 /\ next \in 1 .. Len(history)
        BY <3>1, <3>2, <1>0, <1>2 DEF LoopEnds, Commands
      <4>3. next \in 1 .. redoIndex /\ Len(reverseGroup) = redoIndex - next + 0
        BY <4>1, <4>2, <2>5
      <4>4. \A j \in (next + 1) .. redoIndex : ~history[j].lastInGroup
        BY <4>1, <4>2, <2>5
      <4>5. QED
        BY <3>2, <4>3, <4>4 DEF RunIs
    <3>3. CASE running = "redo"
      <4>1. /\ index \in (redoIndex + 1) .. Len(history) /\ Len(reverseGroup) = index - (redoIndex + 1) + 1
            /\ \A j \in (redoIndex + 1) .. (index - 1) : ~history[j].lastInGroup
        BY <3>3, <2>5, <1>0 DEF RunIs
      <4>2. ~history[index].lastInGroup /\ next = index + 1 /\ next \in 1 .. Len(history)
        BY <3>1, <3>3, <1>0, <1>2 DEF LoopEnds, Commands
      <4>3. next \in (redoIndex + 1) .. Len(history) /\ Len(reverseGroup) = next - (redoIndex + 1) + 0
        BY <4>1, <4>2, <2>5
      <4>4. \A j \in (redoIndex + 1) .. (next - 1) : ~history[j].lastInGroup
        BY <4>1, <4>2, <2>5
      <4>5. QED
        BY <3>3, <4>3, <4>4 DEF RunIs
    <3>4. CASE running = "cancel"
      <4>1. next \in 1 .. Len(reverseGroup)
        BY <3>1, <3>4, <1>2 DEF Commands
      <4>2. QED
        BY <3>4, <4>1 DEF RunIs
    <3>5. QED
      BY <3>2, <3>3, <3>4, <2>5
  <2>7. RunInv'
    BY <2>6, <2>1, <2>3, <1>0, Zenon DEF RunInv
  <2>8. ControlInv'
    BY <2>1, <2>5, <1>0 DEF ControlInv, ControlIs
  <2>9. QED
    BY <2>2, <2>4, <2>7, <2>8, AllKept, Zenon
<1>3. QED
  BY <1>1, <1>2

(* The texts before the groups kept, at most as many as the memory has     *)
(* groups.                                                                 *)
LEMMA PastGrown ==
  ASSUME NEW q \in Seq(Documents), NEW d \in Documents
  PROVE  LET r == Append(IF Len(q) = MAX_COMMAND_MEMORY THEN Tail(q) ELSE q, d) IN
         /\ r \in Seq(Documents)
         /\ Len(r) = (IF Len(q) = MAX_COMMAND_MEMORY THEN MAX_COMMAND_MEMORY ELSE Len(q) + 1)
         /\ Append(q, d) \in Seq(Documents) /\ Len(Append(q, d)) = Len(q) + 1
<1>1. MAX_COMMAND_MEMORY \in Nat /\ MAX_COMMAND_MEMORY >= 2
  BY MemoryAtLeast
<1>2. Len(q) \in Nat
  OBVIOUS
<1>3. CASE Len(q) = MAX_COMMAND_MEMORY
  <2>1. Len(q) >= 1
    BY <1>1, <1>3
  <2>2. q # <<>>
    BY <2>1
  <2>3. Tail(q) \in Seq(Documents) /\ Len(Tail(q)) = Len(q) - 1
    BY <2>2
  <2>4. Append(Tail(q), d) \in Seq(Documents) /\ Len(Append(Tail(q), d)) = Len(Tail(q)) + 1
    BY <2>3
  <2>5. Len(Append(Tail(q), d)) = MAX_COMMAND_MEMORY
    BY <2>3, <2>4, <1>1, <1>3
  <2>6. QED
    BY <2>4, <2>5, <1>3
<1>4. CASE Len(q) # MAX_COMMAND_MEMORY
  BY <1>4
<1>5. QED
  BY <1>3, <1>4

(* Pushing the group on the history keeps the invariant.                   *)
LEMMA PushGroupCommandKeeps ==
  ASSUME ParserInv, PushGroupCommand
  PROVE  ParserInv'
<1> DEFINE h == history
           n == redoIndex
           k == commandCount
           g == reverseGroup
           u == Pushed(h, n, k, g)
           r == Append(IF Len(past) = MAX_COMMAND_MEMORY THEN Tail(past) ELSE past, base)
<1>0. /\ pc = "idle" /\ pc' = "idle" /\ g # <<>> /\ reverseGroup' = <<>>
      /\ base' = Text(tree)
      /\ (IF below THEN UNCHANGED <<past, future>> ELSE past' = r /\ future' = <<>>)
      /\ UNCHANGED <<tree, held, pc, parsing, loop, edits, below, before>>
  BY DEF PushGroupCommand, Remember
<1>1. /\ history' = u /\ redoIndex' = Len(history')
      /\ commandCount' = PushedCount(h, n, k)
  BY Zenon DEF PushGroupCommand, Remaining, RemainingOf, Pushed, PushedCount, CountWithPushed
<1>2. TreeInv' /\ HeldInv' /\ ParseInv' /\ TokensInv' /\ BoundsInv' /\ Text(tree) \in Documents
  <2>1. pc \notin Parsing /\ pc' \notin Parsing
    BY <1>0 DEF Parsing
  <2>2. QED
    BY <2>1, <1>0, NothingEdited
<1>3. HistoryIs(h, n, k) /\ GroupIs(g) /\ PastIs(past, h, n, below) /\ base \in Documents /\ before \in Documents
  BY DEF ParserInv, HistoryInv, GroupInv, PastInv
<1>4. Len(g) >= 1
  <2>1. g \in Seq(CommandFields)
    BY <1>3 DEF GroupIs, CommandList
  <2>2. QED
    BY <2>1, <1>0
<1> HIDE DEF u, r
<1>5. /\ HistoryIs(Pushed(h, n, k, g), Len(Pushed(h, n, k, g)), PushedCount(h, n, k))
      /\ Cardinality(FlagsUpTo(Pushed(h, n, k, g), Len(Pushed(h, n, k, g)))) = PushedCount(h, n, k)
  <2> HIDE DEF h, n, k, g
  <2>1. QED
    BY <1>3, <1>4, GroupPushed
<1>6. HistoryInv'
  BY <1>1, <1>5, Zenon DEF HistoryInv, u
<1>7. PastInv'
  <2>1. past \in Seq(Documents)
    BY <1>3 DEF PastIs
  <2>2. r \in Seq(Documents)
        /\ Len(r) = (IF Len(past) = MAX_COMMAND_MEMORY THEN MAX_COMMAND_MEMORY ELSE Len(past) + 1)
    BY <2>1, <1>3, PastGrown DEF r
  <2>3. ~below => Len(r) = PushedCount(h, n, k)
    <3>1. /\ RemainingOf(h, n, k) = Cardinality(FlagsUpTo(h, n))
          /\ RemainingOf(h, n, k) \in 0 .. MAX_COMMAND_MEMORY
      BY <1>3, RemainingIs
    <3>2. ~below => Len(past) = RemainingOf(h, n, k)
      BY <3>1, <1>3 DEF PastIs
    <3>3. MAX_COMMAND_MEMORY \in Nat
      BY MemoryAtLeast
    <3>4. QED
      BY <2>2, <3>1, <3>2, <3>3 DEF PushedCount
  <2>4. past' \in Seq(Documents) /\ (~below => past' = r)
    BY <1>0, <2>1, <2>2
  <2>5. PastIs(past', u, Len(u), below)
    BY <2>3, <2>4, <1>5, Zenon DEF PastIs, u
  <2>6. PastIs(past', history', redoIndex', below')
    BY <2>5, <1>0, <1>1, Zenon
  <2>7. base' \in Documents /\ before' \in Documents
    BY <1>0, <1>2, <1>3
  <2>8. QED
    BY <2>6, <2>7 DEF PastInv
<1>8. GroupInv'
  BY <1>0, NoHistory, Zenon DEF GroupInv
<1>9. RunInv' /\ ControlInv'
  <2>1. ControlIs("idle", running)
    BY <1>0 DEF ParserInv, ControlInv
  <2>2. running' = running /\ running = "client"
    BY <2>1, <1>0 DEF loop, ControlIs
  <2>3. QED
    BY <2>1, <2>2, <1>0 DEF ControlInv, RunInv, RunIs, ControlIs
<1>10. QED
  BY <1>2, <1>6, <1>7, <1>8, <1>9, AllKept, Zenon

(* Undo, redo and cancel return.                                           *)
LEMMA DoneKeeps ==
  ASSUME ParserInv, pc = "executed", pc' = "idle", Done, UNCHANGED <<tree, held, parsing, edits, below>>,
         HistoryInv', PastInv'
  PROVE  ParserInv'
<1>1. running' = "client" /\ reverseGroup' = <<>>
  BY DEF Done
<1>2. TreeInv' /\ HeldInv' /\ ParseInv' /\ TokensInv' /\ BoundsInv'
  <2>1. pc \notin Parsing /\ pc' \notin Parsing
    BY DEF Parsing
  <2>2. QED
    BY <2>1, NothingEdited
<1>3. GroupInv'
  BY <1>1, NoHistory, Zenon DEF GroupInv
<1>4. RunInv' /\ ControlInv'
  BY <1>1 DEF RunInv, RunIs, ControlInv, ControlIs
<1>5. QED
  BY <1>2, <1>3, <1>4, AllKept, Zenon

(* Ending a cancel keeps it,                                               *)
LEMMA FinishCancelKeeps ==
  ASSUME ParserInv, FinishCancel
  PROVE  ParserInv'
<1>1. /\ pc = "executed" /\ pc' = "idle" /\ Done /\ UNCHANGED <<tree, held, parsing, log, ghosts>>
  BY DEF FinishCancel
<1>2. UNCHANGED <<tree, held, parsing, edits, below>>
  BY <1>1 DEF ghosts
<1>3. HistoryInv' /\ PastInv'
  BY <1>1 DEF ParserInv, HistoryInv, PastInv, log, ghosts
<1>4. QED
  BY <1>1, <1>2, <1>3, DoneKeeps

(* ending an undo                                                          *)
LEMMA FinishUndoKeeps ==
  ASSUME ParserInv, FinishUndo
  PROVE  ParserInv'
<1> DEFINE h == history
           n == redoIndex
           k == commandCount
           g == reverseGroup
           i == index
           u == OverwrittenIn(h, i - 1, Reverse(Flagged(g)))
<1>0. /\ pc = "executed" /\ pc \in {"execute", "executed"} /\ pc \notin Parsing /\ pc' = "idle" /\ Done
      /\ running = "undo" /\ LoopEnds
      /\ base' = Text(tree) /\ redoIndex' = i - 1
      /\ (IF below THEN UNCHANGED <<past, future>> ELSE past' = Front(past) /\ future' = <<before>> \o future)
      /\ UNCHANGED <<tree, held, parsing, commandCount, edits, below, before>>
  BY DEF FinishUndo, Remember, Parsing
<1>1. history' = u
  BY Zenon DEF FinishUndo, Overwritten, OverwrittenIn
<1>2. /\ HistoryIs(h, n, k) /\ GroupIs(g) /\ PastIs(past, h, n, below) /\ before \in Documents
  BY DEF ParserInv, HistoryInv, GroupInv, PastInv
<1>3. RunIs(pc, running, i, g, h, n)
  BY <1>0, CurrentCommand
<1>4. /\ i \in 1 .. n /\ Len(g) = (n - i) + 1
      /\ \A j \in (i + 1) .. n : ~h[j].lastInGroup
  BY <1>0, <1>3 DEF RunIs
<1>5. h[i].lastInGroup
  BY <1>0 DEF LoopEnds
<1>6. Text(tree) \in Documents
  <2>1. IsTree(tree)
    BY <1>0, WhileNotParsing
  <2>2. tree \in Seq(Lines)
    BY <2>1 DEF IsTree
  <2>3. QED
    BY <2>2, TextIsDocument
<1>7. /\ HistoryIs(u, i - 1, k)
      /\ Cardinality(FlagsUpTo(h, n)) = Cardinality(FlagsUpTo(u, i - 1)) + 1
      /\ Cardinality(FlagsUpTo(u, i - 1)) \in Nat
  <2> HIDE DEF h, n, k, g, i
  <2>1. QED
    BY <1>2, <1>4, <1>5, UndoFinished
<1> HIDE DEF u
<1>8. HistoryInv'
  BY <1>0, <1>1, <1>7, Zenon DEF HistoryInv
<1>9. PastInv'
  <2>1. past \in Seq(Documents)
    BY <1>2 DEF PastIs
  <2>2. CASE below
    <3>1. PastIs(past, u, i - 1, below)
      BY <2>1, <2>2, Zenon DEF PastIs
    <3>2. past' = past
      BY <2>2, <1>0
    <3>3. PastIs(past', history', redoIndex', below')
      BY <3>1, <3>2, <1>0, <1>1, Zenon
    <3>4. QED
      BY <3>3, <1>0, <1>2, <1>6 DEF PastInv
  <2>3. CASE ~below
    <3>1. Len(past) = Cardinality(FlagsUpTo(h, n))
      BY <2>3, <1>2 DEF PastIs
    <3> DEFINE a == Cardinality(FlagsUpTo(h, n))
               b == Cardinality(FlagsUpTo(u, i - 1))
    <3>2. a = b + 1 /\ b \in Nat /\ Len(past) = a
      BY <3>1, <1>7
    <3> HIDE DEF a, b
    <3>3. Len(past) >= 1 /\ Len(past) - 1 = b
      BY <3>2
    <3>4. Front(past) \in Seq(Documents) /\ Len(Front(past)) = Len(past) - 1
      BY <2>1, <3>3, FrontIs
    <3>5. Front(past) \in Seq(Documents) /\ Len(Front(past)) = Cardinality(FlagsUpTo(u, i - 1))
      BY <3>3, <3>4, Zenon DEF b
    <3>6. PastIs(Front(past), u, i - 1, below)
      BY <3>5, Zenon DEF PastIs
    <3>7. past' = Front(past)
      BY <2>3, <1>0
    <3>8. PastIs(past', history', redoIndex', below')
      BY <3>6, <3>7, <1>0, <1>1, Zenon
    <3>9. QED
      BY <3>8, <1>0, <1>2, <1>6 DEF PastInv
  <2>4. QED
    BY <2>2, <2>3
<1>10. QED
  BY <1>0, <1>8, <1>9, DoneKeeps

(* and ending a redo.                                                      *)
LEMMA FinishRedoKeeps ==
  ASSUME ParserInv, FinishRedo
  PROVE  ParserInv'
<1> DEFINE h == history
           n == redoIndex
           k == commandCount
           g == reverseGroup
           i == index
           u == OverwrittenIn(h, n, Flagged(g))
           m == n + Len(g)
<1>0. /\ pc = "executed" /\ pc \in {"execute", "executed"} /\ pc \notin Parsing /\ pc' = "idle" /\ Done
      /\ running = "redo" /\ LoopEnds
      /\ base' = Text(tree) /\ redoIndex' = m
      /\ (IF below THEN UNCHANGED <<past, future>> ELSE past' = Append(past, before) /\ future' = Tail(future))
      /\ UNCHANGED <<tree, held, parsing, commandCount, edits, below, before>>
  BY DEF FinishRedo, Remember, Parsing
<1>1. history' = u
  BY Zenon DEF FinishRedo, Overwritten, OverwrittenIn
<1>2. /\ HistoryIs(h, n, k) /\ GroupIs(g) /\ PastIs(past, h, n, below) /\ before \in Documents
  BY DEF ParserInv, HistoryInv, GroupInv, PastInv
<1>3. RunIs(pc, running, i, g, h, n) /\ n \in 0 .. Len(h) /\ Len(h) \in Nat
  BY <1>0, CurrentCommand DEF CommandsAre
<1>4. /\ i \in (n + 1) .. Len(h) /\ Len(g) = i - n
      /\ \A j \in (n + 1) .. (i - 1) : ~h[j].lastInGroup
  <2>1. /\ i \in (n + 1) .. Len(h) /\ Len(g) = i - (n + 1) + 1
        /\ \A j \in (n + 1) .. (i - 1) : ~h[j].lastInGroup
    BY <1>0, <1>3 DEF RunIs
  <2> HIDE DEF h, n, g, i
  <2>2. QED
    BY <2>1, <1>3
<1>5. h[i].lastInGroup
  BY <1>0 DEF LoopEnds
<1>6. Text(tree) \in Documents
  <2>1. IsTree(tree)
    BY <1>0, WhileNotParsing
  <2>2. tree \in Seq(Lines)
    BY <2>1 DEF IsTree
  <2>3. QED
    BY <2>2, TextIsDocument
<1>7. /\ HistoryIs(u, m, k)
      /\ Cardinality(FlagsUpTo(u, m)) = Cardinality(FlagsUpTo(h, n)) + 1
      /\ Cardinality(FlagsUpTo(h, n)) \in Nat
  <2> HIDE DEF h, n, k, g, i
  <2>1. QED
    BY <1>2, <1>4, <1>5, RedoFinished
<1> HIDE DEF u, m
<1>8. HistoryInv'
  BY <1>0, <1>1, <1>7, Zenon DEF HistoryInv
<1>9. PastInv'
  <2>1. past \in Seq(Documents)
    BY <1>2 DEF PastIs
  <2>2. CASE below
    <3>1. PastIs(past, u, m, below)
      BY <2>1, <2>2, Zenon DEF PastIs
    <3>2. past' = past
      BY <2>2, <1>0
    <3>3. PastIs(past', history', redoIndex', below')
      BY <3>1, <3>2, <1>0, <1>1, Zenon
    <3>4. QED
      BY <3>3, <1>0, <1>2, <1>6 DEF PastInv
  <2>3. CASE ~below
    <3>1. Len(past) = Cardinality(FlagsUpTo(h, n))
      BY <2>3, <1>2 DEF PastIs
    <3>2. Append(past, before) \in Seq(Documents) /\ Len(Append(past, before)) = Len(past) + 1
      BY <2>1, <1>2, PastGrown
    <3>3. Len(Append(past, before)) = Cardinality(FlagsUpTo(u, m))
      BY <3>1, <3>2, <1>7, Zenon
    <3>4. PastIs(Append(past, before), u, m, below)
      BY <3>2, <3>3, Zenon DEF PastIs
    <3>5. past' = Append(past, before)
      BY <2>3, <1>0
    <3>6. PastIs(past', history', redoIndex', below')
      BY <3>4, <3>5, <1>0, <1>1, Zenon
    <3>7. QED
      BY <3>6, <1>0, <1>2, <1>6 DEF PastInv
  <2>4. QED
    BY <2>2, <2>3
<1>10. QED
  BY <1>0, <1>8, <1>9, DoneKeeps

(* The parser starts with a root that has no children.                     *)
LEMMA RootTree ==
  /\ TreeIs(<<RootLine>>, FALSE)
  /\ HeldIs([nodes |-> 0, slots |-> 0, chars |-> 0], <<RootLine>>, <<>>, FALSE)
  /\ Text(<<RootLine>>) \in Documents
<1> DEFINE t == <<RootLine>>
<1>1. /\ Groups(Started) /\ Len(Started) = 1 /\ Started[1] = t
      /\ SlotsOf(FlattenSeq(Started)) = 0 /\ CharsIn(FlattenSeq(Started)) = 0
      /\ Len(FlattenSeq(Started)) = 1
  BY StartedGroups DEF Started
<1>2. Group(t) /\ t \in Seq(Lines) /\ FlattenSeq(Started) = t
  BY <1>1, OneGroup
<1>3. Len(t) = 1 /\ SlotsOf(t) = 0 /\ CharsIn(t) = 0
  BY <1>1, <1>2, Zenon
<1> HIDE DEF t
<1>4. TreeIs(t, FALSE)
  BY <1>2, <1>3 DEF Group, TreeIs, Trim
<1>5. HeldIs([nodes |-> 0, slots |-> 0, chars |-> 0], t, <<>>, FALSE)
  <2> DEFINE h == [nodes |-> 0, slots |-> 0, chars |-> 0]
             e == <<>>
  <2>1. Len(e) = 0 /\ Len(FlattenSeq(e)) = 0 /\ SlotsOf(FlattenSeq(e)) = 0 /\ CharsIn(FlattenSeq(e)) = 0
    BY NoGroups
  <2>2. h \in Held /\ h.nodes = 0 /\ h.slots = 0 /\ h.chars = 0
    BY DEF Held
  <2> HIDE DEF h, e
  <2>3. HeldIs(h, t, e, FALSE)
    BY <2>1, <2>2, <1>3 DEF HeldIs
  <2>4. QED
    BY <2>3 DEF h, e
<1>6. Text(t) \in Documents
  BY <1>2, TextIsDocument
<1>7. QED
  BY <1>4, <1>5, <1>6 DEF t

(* The invariant holds at the start                                        *)
LEMMA ParserInit ==
  ASSUME Init
  PROVE  ParserInv
<1>0. /\ tree = <<RootLine>> /\ held = [nodes |-> 0, slots |-> 0, chars |-> 0]
      /\ pc = "idle" /\ tempChildren = <<>> /\ running = "client"
      /\ reverseGroup = <<>> /\ history = <<>> /\ redoIndex = 0 /\ commandCount = 0
      /\ edits = 0 /\ below = FALSE
      /\ before = Text(tree) /\ base = Text(tree) /\ past = <<>>
  BY DEF Init
<1>1. TreeInv /\ HeldInv /\ before \in Documents /\ base \in Documents
  BY <1>0, RootTree, Zenon DEF TreeInv, HeldInv
<1>2. ParseInv
  <2>1. Groups(tempChildren) /\ Len(tempChildren) = 0
    BY <1>0, NoGroups, Zenon
  <2> HIDE DEF Groups
  <2>2. QED
    BY <2>1, <1>0 DEF ParseInv, ParseIs, Parsing
<1>3. TokensInv /\ ControlInv /\ RunInv
  BY <1>0 DEF TokensInv, TokensAre, ControlInv, ControlIs, RunInv, RunIs
<1>4. HistoryInv /\ GroupInv
  BY <1>0, NoHistory, Zenon DEF HistoryInv, GroupInv
<1>5. PastInv
  <2>1. past \in Seq(Documents) /\ Len(past) = Cardinality(FlagsUpTo(history, redoIndex))
    BY <1>0, NoHistory, Zenon
  <2>2. QED
    BY <2>1, <1>1, Zenon DEF PastInv, PastIs
<1>6. BoundsInv
  <2>1. MaxEdits \in Nat
    BY ConstantsAssumption
  <2>2. edits = 0 /\ below \in BOOLEAN
    BY <1>0
  <2>3. QED
    BY ONLY <2>1, <2>2 DEF BoundsInv
<1>7. QED
  BY <1>1, <1>2, <1>3, <1>4, <1>5, <1>6, Zenon DEF ParserInv

(* and after every step.                                                   *)
LEMMA ParserStep ==
  ASSUME ParserInv, [Next]_vars
  PROVE  ParserInv'
<1>1. CASE UNCHANGED vars
  <2>1. /\ UNCHANGED <<tree, held, pc, tokens, tempChildren, open, edit, running, index, reverseGroup>>
        /\ UNCHANGED <<history, redoIndex, commandCount, edits, below, before, base, past>>
    BY <1>1 DEF vars, parsing, loop, log, ghosts
  <2>2. TreeInv' /\ HeldInv' /\ ParseInv' /\ TokensInv' /\ ControlInv'
    BY <2>1, Zenon DEF ParserInv, TreeInv, HeldInv, ParseInv, TokensInv, ControlInv
  <2>3. HistoryInv' /\ GroupInv' /\ RunInv' /\ PastInv' /\ BoundsInv'
    BY <2>1, Zenon DEF ParserInv, HistoryInv, GroupInv, RunInv, PastInv, BoundsInv
  <2>4. QED
    BY <2>2, <2>3, AllKept, Zenon
<1>2. CASE Client
  BY <1>2, ClientEditsTreeKeeps, ClientEditsTextKeeps, ClientEditsPositionKeeps, PushGroupCommandKeeps,
     ClearHistoryKeeps, CallingKeeps, Zenon DEF Client
<1>3. CASE Parse
  BY <1>3, PushingKeeps, CloseObjectKeeps, CloseLastKeeps, BadTokenKeeps, RollbackKeeps, EditTreeKeeps,
     Zenon DEF Parse
<1>4. CASE Execute
  BY <1>4, ExecuteTreeKeeps, ExecuteTextKeeps, ExecutePositionKeeps, ContinueKeeps,
     FinishUndoKeeps, FinishRedoKeeps, FinishCancelKeeps, Zenon DEF Execute
<1>5. QED
  BY <1>1, <1>2, <1>3, <1>4, Zenon DEF Next

(* In every state of the parser the invariant holds: every call, on any    *)
(* tree and with any texts, keeps it.                                      *)
THEOREM ParserKeeps == Spec => []ParserInv
<1>1. Init => ParserInv
  BY ParserInit
<1>2. ParserInv /\ [Next]_vars => ParserInv'
  BY ParserStep
<1>3. QED
  BY <1>1, <1>2, PTL DEF Spec

-----------------------------------------------------------------------------
(* What the invariant says of the properties.                              *)
LEMMA TheLines ==
  ASSUME ParserInv
  PROVE  /\ IsTree(tree) /\ Groups(tempChildren) /\ AllLinesAre(tree, tempChildren)
         /\ HeldIs(held, tree, tempChildren, below)
<1>1. IsTree(tree) /\ Groups(tempChildren) /\ HeldIs(held, tree, tempChildren, below)
  BY DEF ParserInv, TreeInv, TreeIs, HeldInv, ParseInv, ParseIs
<1>2. QED
  BY <1>1, AllLines

(* The parser's variables keep their types; the tree stays a tree,         *)
(* whatever is edited and whatever fails (EntityParser.cpp 179-362,        *)
(* 553-757).                                                               *)
THEOREM ParserTypes == Spec => []TypeOK
<1>1. ASSUME ParserInv PROVE TypeOK
  <2>0. IsTree(tree) /\ AllLinesAre(tree, tempChildren) /\ HeldIs(held, tree, tempChildren, below)
    BY <1>1, TheLines
  <2>1. /\ tree # <<>> /\ tree[RootNode].depth = 0
        /\ \A i \in DOMAIN tree :
             /\ tree[i] \in [word : Words \cup {""}, braces : BOOLEAN, depth : Nat, slots : Nat]
             /\ i > 1 => tree[i].depth \in 1 .. (tree[i - 1].depth + 1)
    <3>1. /\ tree \in Seq(Lines) /\ Len(tree) \in Nat /\ DOMAIN tree = 1 .. Len(tree)
          /\ tree # <<>> /\ tree[1].depth = 0
          /\ \A i \in 1 .. Len(tree) : tree[i] \in Lines /\ tree[i].depth \in Nat
          /\ \A i \in 2 .. Len(tree) :
               /\ tree[i].depth >= 1
               /\ tree[i].depth <= tree[i - 1].depth + (IF i = 2 \/ tree[i - 1].braces THEN 1 ELSE 0)
      BY <2>0, TreeLines DEF IsTree
    <3>2. ASSUME NEW i \in 1 .. Len(tree), i > 1 PROVE tree[i].depth \in 1 .. (tree[i - 1].depth + 1)
      <4>1. i \in 2 .. Len(tree) /\ i - 1 \in 1 .. Len(tree)
        BY <3>1, <3>2
      <4>2. tree[i].depth \in Nat /\ tree[i - 1].depth \in Nat
        BY <4>1, <3>1
      <4>3. tree[i].depth >= 1
            /\ tree[i].depth <= tree[i - 1].depth + (IF i = 2 \/ tree[i - 1].braces THEN 1 ELSE 0)
        BY <4>1, <3>1
      <4>4. QED
        BY <4>2, <4>3
    <3>3. \A i \in DOMAIN tree : tree[i] \in [word : Words \cup {""}, braces : BOOLEAN, depth : Nat, slots : Nat]
      BY <3>1, Zenon DEF Lines, Named
    <3>4. QED
      BY <3>1, <3>2, <3>3 DEF RootNode
  <2>2. DOMAIN held = {"nodes", "slots", "chars"} /\ \A f \in DOMAIN held : held[f] \in Nat
    <3>1. held \in Held
      BY <2>0 DEF HeldIs
    <3>2. held.nodes \in Nat /\ held.slots \in Nat /\ held.chars \in Nat
      <4> DEFINE F == FlattenSeq(tempChildren)
      <4>1. /\ held.nodes = Len(tree) + Len(F) - (IF Len(tempChildren) = 0 THEN 1 ELSE 2)
            /\ held.chars = CharsIn(tree) + CharsIn(F) /\ held.slots >= SlotsOf(tree) + SlotsOf(F)
        BY <2>0 DEF HeldIs
      <4>2. /\ Len(tree) \in Nat /\ Len(F) \in Nat /\ Len(tempChildren) \in Nat
            /\ SlotsOf(tree) \in Nat /\ SlotsOf(F) \in Nat /\ CharsIn(tree) \in Nat /\ CharsIn(F) \in Nat
            /\ Len(tree) + Len(F) >= 1 + Len(tempChildren)
        BY <2>0, Zenon DEF AllLinesAre
      <4>3. held.slots \in Int
        BY <3>1 DEF Held
      <4> HIDE DEF F
      <4>4. QED
        BY <4>1, <4>2, <4>3
    <3>3. QED
      BY <3>1, <3>2 DEF Held
  <2>3. /\ pc \in {"idle", "parse", "failed", "parsed", "execute", "executed", "undefined"}
        /\ running \in {"client", "undo", "redo", "cancel"}
    BY <1>1 DEF ParserInv, ControlInv, ControlIs
  <2>4. redoIndex \in 0 .. Len(history) /\ commandCount \in 0 .. MAX_COMMAND_MEMORY
    <3>1. HistoryIs(history, redoIndex, commandCount)
      BY <1>1 DEF ParserInv, HistoryInv
    <3>2. Cardinality(Flags(history)) \in Nat
      BY <3>1, TheCommands DEF HistoryIs, CommandsAre
    <3>3. QED
      BY <3>1, <3>2, MemoryAtLeast DEF HistoryIs
  <2>5. edits \in 0 .. MaxEdits /\ below \in BOOLEAN
    BY <1>1 DEF ParserInv, BoundsInv
  <2>6. QED
    BY <2>1, <2>2, <2>3, <2>4, <2>5, Zenon DEF TypeOK
<1>2. QED
  BY <1>1, ParserKeeps, PTL

(* What the allocators have handed out is what the tree and a parse under  *)
(* way hold: edits, undo, redo and failed parses lose no node and no name, *)
(* and no list of children as long as only the root's children are edited  *)
(* (EntityParser.cpp 179-362, 597-619, 1017-1083).                         *)
THEOREM NothingLost == Spec => []Accounted
<1>1. ASSUME ParserInv PROVE Accounted
  <2> DEFINE F == FlattenSeq(tempChildren)
             lines == tree \o F
             m == Cardinality({i \in DOMAIN lines : lines[i].depth > 0})
             q == Cardinality({i \in DOMAIN tempChildren : i > 1})
  <2>0. /\ Groups(tempChildren) /\ AllLinesAre(tree, tempChildren)
        /\ HeldIs(held, tree, tempChildren, below)
    BY <1>1, TheLines
  <2>1. /\ held.nodes = Len(tree) + Len(F) - (IF Len(tempChildren) = 0 THEN 1 ELSE 2)
        /\ held.chars = CharsIn(tree) + CharsIn(F) /\ held.slots >= SlotsOf(tree) + SlotsOf(F)
        /\ ~below => held.slots = SlotsOf(tree) + SlotsOf(F)
    BY <2>0 DEF HeldIs
  <2>2. /\ Len(tree) \in Nat /\ Len(F) \in Nat /\ Len(tempChildren) \in Nat
        /\ SlotsOf(lines) = SlotsOf(tree) + SlotsOf(F) /\ CharsIn(lines) = CharsIn(tree) + CharsIn(F)
        /\ m = Len(tree) + Len(F) - (1 + Len(tempChildren))
        /\ q = IF tempChildren = <<>> THEN 0 ELSE Len(tempChildren) - 1
    BY <2>0, Zenon DEF AllLinesAre
  <2>3. (tempChildren = <<>>) <=> (Len(tempChildren) = 0)
    BY <2>0 DEF Groups
  <2> HIDE DEF m, q, F, lines
  <2>4. q = IF Len(tempChildren) = 0 THEN 0 ELSE Len(tempChildren) - 1
    BY <2>2, <2>3
  <2>5. held.nodes = m + q
    <3> DEFINE x == Len(tree)
               y == Len(F)
               z == Len(tempChildren)
    <3>1. /\ x \in Nat /\ y \in Nat /\ z \in Nat /\ m = x + y - (1 + z)
          /\ held.nodes = x + y - (IF z = 0 THEN 1 ELSE 2) /\ q = IF z = 0 THEN 0 ELSE z - 1
      BY <2>1, <2>2, <2>4, Zenon
    <3> HIDE DEF x, y, z
    <3>2. QED
      BY <3>1
  <2>6. held.chars = CharsIn(lines) /\ held.slots >= SlotsOf(lines) /\ (~below => held.slots = SlotsOf(lines))
    BY <2>1, <2>2
  <2>7. QED
    BY <2>5, <2>6, Zenon DEF Accounted, m, q, lines, F
<1>2. QED
  BY <1>1, ParserKeeps, PTL

(* No node has more children than its list has room for (EntityParser.cpp  *)
(* 231-266, 1065-1083).                                                    *)
THEOREM ListsNotFuller == Spec => []ChildrenFit
<1>1. ASSUME ParserInv PROVE ChildrenFit
  BY <1>1 DEF ParserInv, TreeInv, TreeIs, IsTree, Fit, ChildrenFit
<1>2. QED
  BY <1>1, ParserKeeps, PTL

(* The text of every reverse command is parsed without an error when undo, *)
(* redo or cancel executes it (EntityParser.cpp 201-216, 459-513).         *)
THEOREM ReversesAreParsed == Spec => []ReversesParse
<1>1. ASSUME ParserInv PROVE ReversesParse
  BY <1>1 DEF ParserInv, ControlInv, ControlIs, ReversesParse
<1>2. QED
  BY <1>1, ParserKeeps, PTL

(* The history is whole groups up to the redo index and beyond, as many as *)
(* counted, each flagged where the loops of undo and redo stop             *)
(* (EntityParser.cpp 412-513).                                             *)
THEOREM GroupsAreKept == Spec => []HistoryShape
<1>1. ASSUME ParserInv PROVE HistoryShape
  BY <1>1, Zenon DEF ParserInv, HistoryInv, HistoryIs, PastInv, PastIs, FlagsUpTo, HistoryShape
<1>2. QED
  BY <1>1, ParserKeeps, PTL
=============================================================================
