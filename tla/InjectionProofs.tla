-------------------------- MODULE InjectionProofs ---------------------------
(***************************************************************************)
(* Proofs about Injection and the archives it builds, for any super mod,   *)
(* any documents the game may ship and any failures on the way.            *)
(*                                                                         *)
(* First the layout of a resource archive, for any mod files and any sizes *)
(* of its records: the pieces of an archive do not overlap, so that the    *)
(* readers find each one whole where the header and the entries say.  Then *)
(* the documents and what they become, and last Injection's invariant:     *)
(* what the steps leave behind agrees.                                     *)
(***************************************************************************)
EXTENDS Injection, DataInduction

-----------------------------------------------------------------------------
(* Sums.                                                                   *)

LEMMA SumRecursion ==
  ASSUME NEW n \in Nat, NEW sizes, \A k \in 1 .. n : sizes[k] \in Nat
  PROVE  \E f \in [0 .. n -> Nat] :
           /\ f[0] = 0
           /\ \A k \in 1 .. n : f[k] = f[k - 1] + sizes[k]
           /\ SumTo(sizes, n) = f[n]
<1> DEFINE Def(f) == [k \in 0 .. n |-> IF k = 0 THEN 0 ELSE f[k - 1] + sizes[k]]
           grow == [k \in 1 .. n |-> [x \in Nat |-> x + sizes[k]]]
<1>1. PICK f \in [0 .. n -> Nat] : Follows(f, 0, grow, n)
  <2>1. \A k \in 1 .. n : \A x \in Nat : grow[k][x] \in Nat
    OBVIOUS
  <2> HIDE DEF grow
  <2> QED BY <2>1, RecursiveFunction
<1>2. f[0] = 0 /\ \A k \in 1 .. n : f[k] = f[k - 1] + sizes[k]
  <2>1. \A k \in 1 .. n : \A x \in Nat : grow[k][x] = x + sizes[k]
    OBVIOUS
  <2>2. \A k \in 1 .. n : f[k - 1] \in Nat
    OBVIOUS
  <2> HIDE DEF grow
  <2> QED BY <1>1, <2>1, <2>2 DEF Follows
<1>3. \E g : g = Def(g)
  <2>1. DOMAIN f = 0 .. n /\ f = [k \in 0 .. n |-> f[k]]
    OBVIOUS
  <2>2. \A k \in 0 .. n : f[k] = IF k = 0 THEN 0 ELSE f[k - 1] + sizes[k]
    BY <1>2
  <2>3. f = Def(f)
    BY <2>1, <2>2
  <2> HIDE DEF Def
  <2> QED BY <2>3
<1> DEFINE c == CHOOSE g : g = Def(g)
<1>4. c = Def(c)
  <2> HIDE DEF Def
  <2> QED BY <1>3
<1>5. SumTo(sizes, n) = c[n]
  BY DEF SumTo
<1>6. c[0] = 0 /\ \A k \in 1 .. n : c[k] = c[k - 1] + sizes[k]
  <2> HIDE DEF c
  <2> QED BY <1>4
<1>7. Agree(c, f, n)
  <2> HIDE DEF c
  <2>1. c[0] = f[0]
    BY <1>6, <1>2
  <2>2. \A k \in 1 .. n : c[k - 1] = f[k - 1] => c[k] = f[k]
    BY <1>6, <1>2
  <2> QED BY <2>1, <2>2, AgreeUpTo
<1>8. c[n] = f[n]
  <2> HIDE DEF c
  <2> QED BY <1>7 DEF Agree
<1> HIDE DEF c
<1> QED BY <1>2, <1>5, <1>8

(* What a sum is made of.                                                  *)
LEMMA SumFacts ==
  ASSUME NEW n \in Nat, NEW sizes, \A k \in 1 .. n : sizes[k] \in Nat
  PROVE  /\ SumTo(sizes, 0) = 0
         /\ SumTo(sizes, n) \in Nat
         /\ n # 0 => SumTo(sizes, n) = SumTo(sizes, n - 1) + sizes[n]
<1>1. PICK f \in [0 .. n -> Nat] :
        /\ f[0] = 0
        /\ \A k \in 1 .. n : f[k] = f[k - 1] + sizes[k]
        /\ SumTo(sizes, n) = f[n]
  BY SumRecursion
<1>2. SumTo(sizes, 0) = 0
  <2>1. 0 \in Nat /\ \A k \in 1 .. 0 : sizes[k] \in Nat
    OBVIOUS
  <2>2. PICK g \in [0 .. 0 -> Nat] :
          /\ g[0] = 0
          /\ \A k \in 1 .. 0 : g[k] = g[k - 1] + sizes[k]
          /\ SumTo(sizes, 0) = g[0]
    BY <2>1, SumRecursion
  <2> QED BY <2>2
<1>3. ASSUME n # 0 PROVE SumTo(sizes, n) = SumTo(sizes, n - 1) + sizes[n]
  <2>1. PICK g \in [0 .. n - 1 -> Nat] :
          /\ g[0] = 0
          /\ \A k \in 1 .. n - 1 : g[k] = g[k - 1] + sizes[k]
          /\ SumTo(sizes, n - 1) = g[n - 1]
    <3>1. n - 1 \in Nat /\ \A k \in 1 .. n - 1 : sizes[k] \in Nat
      BY <1>3
    <3> QED BY <3>1, SumRecursion
  <2>2. Agree(f, g, n - 1)
    <3>1. n - 1 \in Nat /\ f[0] = g[0]
      BY <1>1, <1>3, <2>1
    <3>2. \A k \in 1 .. n - 1 : f[k - 1] = g[k - 1] => f[k] = g[k]
      BY <1>1, <2>1
    <3> QED BY <3>1, <3>2, AgreeUpTo
  <2> QED BY <1>1, <1>3, <2>1, <2>2 DEF Agree
<1> QED BY <1>1, <1>2, <1>3

(* A sum depends on the sizes it adds up.                                  *)
LEMMA SumSame ==
  ASSUME NEW n \in Nat, NEW s, NEW t, \A k \in 1 .. n : s[k] \in Nat /\ s[k] = t[k]
  PROVE  SumTo(s, n) = SumTo(t, n)
<1>1. PICK f \in [0 .. n -> Nat] :
        f[0] = 0 /\ (\A k \in 1 .. n : f[k] = f[k - 1] + s[k]) /\ SumTo(s, n) = f[n]
  BY SumRecursion
<1>2. PICK g \in [0 .. n -> Nat] :
        g[0] = 0 /\ (\A k \in 1 .. n : g[k] = g[k - 1] + t[k]) /\ SumTo(t, n) = g[n]
  <2>1. \A k \in 1 .. n : t[k] \in Nat
    OBVIOUS
  <2> QED BY <2>1, SumRecursion
<1>3. Agree(f, g, n)
  <2>1. f[0] = g[0] /\ \A k \in 1 .. n : f[k - 1] = g[k - 1] => f[k] = g[k]
    BY <1>1, <1>2
  <2> QED BY <2>1, AgreeUpTo
<1> QED BY <1>1, <1>2, <1>3 DEF Agree

(* The longer sum is the larger one.                                       *)
LEMMA SumMonotonic ==
  ASSUME NEW n \in Nat, NEW sizes, \A k \in 1 .. n : sizes[k] \in Nat,
         NEW first \in 0 .. n, NEW j \in first .. n
  PROVE  /\ SumTo(sizes, first) \in Nat /\ SumTo(sizes, j) \in Nat
         /\ SumTo(sizes, first) <= SumTo(sizes, j)
<1>1. \A k \in 0 .. n : SumTo(sizes, k) \in Nat
                        /\ (k # 0 => SumTo(sizes, k) = SumTo(sizes, k - 1) + sizes[k])
  <2>1. ASSUME NEW k \in 0 .. n
        PROVE  SumTo(sizes, k) \in Nat
                 /\ (k # 0 => SumTo(sizes, k) = SumTo(sizes, k - 1) + sizes[k])
    <3>1. k \in Nat /\ \A m \in 1 .. k : sizes[m] \in Nat
      OBVIOUS
    <3> QED BY <3>1, SumFacts
  <2> QED BY <2>1
<1> DEFINE T == {d \in Nat : first + d <= n => SumTo(sizes, first) <= SumTo(sizes, first + d)}
<1>2. 0 \in T
  <2>1. first + 0 = first /\ SumTo(sizes, first) \in Nat
    BY <1>1
  <2> QED BY <2>1
<1>3. ASSUME NEW d \in Nat, d \in T PROVE d + 1 \in T
  <2>1. SUFFICES ASSUME first + (d + 1) <= n PROVE SumTo(sizes, first) <= SumTo(sizes, first + (d + 1))
    OBVIOUS
  <2> DEFINE k == first + (d + 1)
  <2>2. k \in 0 .. n /\ k # 0 /\ k - 1 = first + d /\ k - 1 \in 0 .. n /\ k \in 1 .. n
    BY <2>1
  <2>3. SumTo(sizes, first) <= SumTo(sizes, k - 1)
    BY <1>3, <2>1, <2>2
  <2>4. SumTo(sizes, k) = SumTo(sizes, k - 1) + sizes[k]
    BY <1>1, <2>2
  <2>5. sizes[k] \in Nat /\ SumTo(sizes, k - 1) \in Nat /\ SumTo(sizes, first) \in Nat
    BY <1>1, <2>2
  <2> QED BY <2>3, <2>4, <2>5
<1>4. j - first \in T
  <2> HIDE DEF T
  <2>1. Nat \subseteq T
    BY <1>2, <1>3, SetInduction
  <2> QED BY <2>1
<1>5. first + (j - first) = j
  OBVIOUS
<1> QED BY <1>1, <1>4, <1>5

-----------------------------------------------------------------------------
(* The string table.                                                       *)

ModFile == [assetPath : Assets, dataLength : Nat]
Strings == Assets \cup {TypeString}

LEMMA Length ==
  ASSUME NEW m \in Seq(ModFile), NEW k \in 1 .. Len(m)
  PROVE  m[k].assetPath \in Assets /\ m[k].dataLength \in Nat
<1>1. m[k] \in ModFile
  OBVIOUS
<1> QED BY <1>1 DEF ModFile

LEMMA NamesFacts ==
  ASSUME NEW m \in Seq(ModFile)
  PROVE  Names(m) \in Seq(Strings) /\ Len(Names(m)) = 2 * Len(m)
<1>1. ASSUME NEW k \in 1 .. 2 * Len(m)
      PROVE  (IF k % 2 = 1 THEN TypeString ELSE m[k \div 2].assetPath) \in Strings
  <2>1. CASE k % 2 = 1
    BY <2>1 DEF Strings
  <2>2. CASE k % 2 # 1
    <3>1. k \div 2 \in 1 .. Len(m)
      BY <2>2
    <3>2. m[k \div 2] \in ModFile
      BY <3>1
    <3> QED BY <2>2, <3>2 DEF ModFile, Strings
  <2> QED BY <2>1, <2>2
<1>2. 2 * Len(m) \in Nat
  OBVIOUS
<1>3. Names(m) \in [1 .. 2 * Len(m) -> Strings]
  BY <1>1 DEF Names
<1> QED BY <1>2, <1>3

LEMMA TableFacts ==
  ASSUME NEW S, NEW names \in Seq(S)
  PROVE  /\ Table(names) \in Seq(S)
         /\ names # <<>> => Table(names) # <<>>
<1> DEFINE n == Len(names)
           Grown(t, k) == IF names[k] \in Range(t) THEN t ELSE Append(t, names[k])
           Def(f) == [k \in 0 .. n |-> IF k = 0 THEN <<>> ELSE Grown(f[k - 1], k)]
           grow == [k \in 1 .. n |-> [t \in Seq(S) |-> Grown(t, k)]]
           c == CHOOSE g : g = Def(g)
<1>1. n \in Nat /\ \A k \in 1 .. n : \A t \in Seq(S) : Grown(t, k) \in Seq(S)
  OBVIOUS
<1>2. PICK f \in [0 .. n -> Seq(S)] : Follows(f, <<>>, grow, n)
  <2>1. \A k \in 1 .. n : \A t \in Seq(S) : grow[k][t] \in Seq(S)
    BY <1>1
  <2>2. <<>> \in Seq(S)
    OBVIOUS
  <2> HIDE DEF grow, Grown
  <2> QED BY <1>1, <2>1, <2>2, RecursiveFunction
<1>3. f[0] = <<>> /\ \A k \in 1 .. n : f[k] = Grown(f[k - 1], k)
  <2>1. \A k \in 1 .. n : \A t \in Seq(S) : grow[k][t] = Grown(t, k)
    OBVIOUS
  <2>2. \A k \in 1 .. n : f[k - 1] \in Seq(S)
    BY <1>1
  <2> HIDE DEF grow, Grown
  <2> QED BY <1>2, <2>1, <2>2 DEF Follows
<1>4. c = Def(c)
  <2> HIDE DEF Grown
  <2>1. f = [k \in 0 .. n |-> f[k]]
    OBVIOUS
  <2>2. \A k \in 0 .. n : f[k] = IF k = 0 THEN <<>> ELSE Grown(f[k - 1], k)
    BY <1>3
  <2>3. f = Def(f)
    BY <2>1, <2>2
  <2> HIDE DEF Def
  <2> QED BY <2>3
<1>5. Table(names) = c[n]
  BY DEF Table
<1>6. c[0] = <<>> /\ \A k \in 1 .. n : c[k] = Grown(c[k - 1], k)
  <2> HIDE DEF c, Grown, n
  <2>1. c[0] = <<>>
    BY <1>1, <1>4
  <2>2. ASSUME NEW k \in 1 .. n PROVE c[k] = Grown(c[k - 1], k)
    BY <1>1, <1>4
  <2> QED BY <2>1, <2>2
<1>7. Agree(c, f, n)
  <2> HIDE DEF c, Grown, n
  <2>1. c[0] = f[0] /\ \A k \in 1 .. n : c[k - 1] = f[k - 1] => c[k] = f[k]
    BY <1>3, <1>6
  <2> QED BY <1>1, <2>1, AgreeUpTo
<1>8. \A k \in 0 .. n : c[k] \in Seq(S)
  <2> HIDE DEF c
  <2> QED BY <1>7 DEF Agree
<1>9. ASSUME names # <<>> PROVE c[n] # <<>>
  <2>1. n \in 1 .. n /\ n - 1 \in 0 .. n
    BY <1>9
  <2>2. c[n] = Grown(c[n - 1], n)
    <3> HIDE DEF c, Grown
    <3> QED BY <1>6, <2>1
  <2> HIDE DEF c, n
  <2>3. c[n - 1] \in Seq(S)
    BY <1>8, <2>1
  <2>4. CASE names[n] \in Range(c[n - 1])
    <3>1. c[n - 1] # <<>>
      BY <2>4 DEF Range
    <3> QED BY <2>2, <2>4, <3>1
  <2>5. CASE names[n] \notin Range(c[n - 1])
    <3>1. Append(c[n - 1], names[n]) # <<>>
      BY <2>3
    <3> QED BY <2>2, <2>5, <3>1
  <2> QED BY <2>4, <2>5
<1> HIDE DEF c
<1> QED BY <1>1, <1>5, <1>8, <1>9

LEMMA BlobFacts ==
  ASSUME NEW table \in Seq(Strings)
  PROVE  /\ BlobSize(table) \in Nat
         /\ table # <<>> => BlobSize(table) > 0
<1> DEFINE n == Len(table)
<1>1. n \in Nat /\ DOMAIN table = 1 .. n
  OBVIOUS
<1>2. \A k \in 1 .. n : Lengths(table)[k] \in Nat /\ Lengths(table)[k] > 0
  <2>1. ASSUME NEW k \in 1 .. n PROVE Terminated(table[k]) \in Nat /\ Terminated(table[k]) > 0
    <3>1. table[k] \in Strings
      OBVIOUS
    <3>2. TypeLength \in Nat /\ PathLength \in [Assets -> Nat]
      BY LayoutAssumption DEF LayoutAssumption
    <3> QED BY <3>1, <3>2 DEF Terminated, Strings
  <2> QED BY <2>1 DEF Lengths
<1>3. SumTo(Lengths(table), n) \in Nat
      /\ (n # 0 => SumTo(Lengths(table), n) = SumTo(Lengths(table), n - 1) + Lengths(table)[n])
  BY <1>1, <1>2, SumFacts
<1>4. ASSUME n # 0 PROVE SumTo(Lengths(table), n - 1) \in Nat /\ n \in 1 .. n
  <2>1. n - 1 \in Nat /\ \A k \in 1 .. n - 1 : Lengths(table)[k] \in Nat
    BY <1>1, <1>2, <1>4
  <2> HIDE DEF n
  <2> QED BY <2>1, <1>1, <1>4, SumFacts
<1>5. table # <<>> => n # 0
  OBVIOUS
<1> QED BY <1>2, <1>3, <1>4, <1>5 DEF BlobSize

-----------------------------------------------------------------------------
(* The header.                                                             *)

LEMMA Modulo4 ==
  ASSUME NEW a \in Nat, NEW b \in Nat, NEW c \in Nat, NEW n \in Nat,
         a % 4 = 0, b % 4 = 0, c % 8 = 0
  PROVE  (a + b + c + 2 * n * 8) % 4 = 0
OBVIOUS

LEMMA Modulo8 ==
  ASSUME NEW a \in Nat, a % 4 = 0
  PROVE  (a + (IF a % 8 = 0 THEN 8 ELSE 4)) % 8 = 0
OBVIOUS

(* What comes one after the other: every part begins where the one before  *)
(* it ends, and the data on a multiple of 8.                               *)
LEMMA HeaderFacts ==
  ASSUME NEW m \in Seq(ModFile)
  PROVE  LET h == Header(m)
             t == Len(Table(Names(m)))
             b == BlobSize(Table(Names(m)))
             p == Padding(ChunkSize(Table(Names(m))))
         IN  /\ HeaderSize \in Nat /\ Len(m) * EntrySize \in Nat
             /\ t \in Nat /\ b \in Nat /\ p \in Nat
             /\ m # <<>> => b > 0
             /\ h.stringTableOffset = HeaderSize + Len(m) * EntrySize
             /\ h.stringTableSize = 8 + t * 8 + b + p
             /\ h.resourceDepsOffset = h.stringTableOffset + h.stringTableSize
             /\ h.idclOffset = h.resourceDepsOffset + h.numStringIndices * 8
             /\ h.idclSize \in {4, 8}
             /\ h.dataOffset = h.idclOffset + h.idclSize
             /\ h.dataOffset \in Nat /\ h.dataOffset % 8 = 0
<1> DEFINE h == Header(m)
           table == Table(Names(m))
           t == Len(table)
           b == BlobSize(table)
           p == Padding(ChunkSize(table))
           e == Len(m) * EntrySize
<1>1. table \in Seq(Strings) /\ (m # <<>> => table # <<>>)
  BY NamesFacts, TableFacts
<1>2. t \in Nat /\ b \in Nat /\ (m # <<>> => b > 0)
  <2> HIDE DEF table
  <2> QED BY <1>1, BlobFacts
<1>3. ChunkSize(table) = 8 + t * 8 + b /\ ChunkSize(table) \in Nat
  <2> HIDE DEF table
  <2>1. ChunkSize(table) = 8 + t * 8 + b
    BY DEF ChunkSize, SizeOfLong
  <2> HIDE DEF t, b
  <2> QED BY <1>2, <2>1
<1>4. p \in Nat /\ (ChunkSize(table) + p) % 8 = 0
  <2> HIDE DEF table
  <2> QED BY <1>3 DEF Padding
<1>5. HeaderSize \in Nat /\ EntrySize \in Nat /\ HeaderSize % 4 = 0 /\ EntrySize % 4 = 0
  BY LayoutAssumption DEF LayoutAssumption
<1>6. e \in Nat /\ e % 4 = 0
  <2>1. PICK q \in Nat : EntrySize = 4 * q
    <3>1. EntrySize = 4 * (EntrySize \div 4) /\ EntrySize \div 4 \in Nat
      BY <1>5
    <3> QED BY <3>1
  <2>2. Len(m) \in Nat
    OBVIOUS
  <2>3. \A x \in Nat : x * q \in Nat /\ x * (4 * q) = 4 * (x * q)
    BY <2>1
  <2>4. e = 4 * (Len(m) * q) /\ Len(m) * q \in Nat
    BY <2>1, <2>2, <2>3
  <2>5. \A x \in Nat : (4 * x) % 4 = 0 /\ 4 * x \in Nat
    OBVIOUS
  <2> QED BY <2>4, <2>5
<1> DEFINE idcl == HeaderSize + e + (8 + t * 8 + b + p) + (2 * Len(m)) * 8
<1>7. /\ h.stringTableOffset = HeaderSize + e
      /\ h.stringTableSize = ChunkSize(table) + p
      /\ h.resourceDepsOffset = h.stringTableOffset + h.stringTableSize
      /\ h.numStringIndices = 2 * Len(m)
      /\ h.idclOffset = h.resourceDepsOffset + 2 * Len(m) * 8
      /\ h.idclSize = (IF h.idclOffset % 8 = 0 THEN 8 ELSE 4)
      /\ h.dataOffset = h.idclOffset + (IF h.idclOffset % 8 = 0 THEN 8 ELSE 4)
  BY DEF Header, StringTableSize, SizeOfLong
<1>8. h.idclOffset \in Nat /\ h.idclOffset % 4 = 0
  <2> DEFINE size == ChunkSize(table) + p
  <2> HIDE DEF h, table, e, p, b, t
  <2>1. Len(m) \in Nat
    OBVIOUS
  <2>2. size \in Nat /\ size % 8 = 0
    BY <1>3, <1>4
  <2>3. h.idclOffset = HeaderSize + e + size + 2 * Len(m) * 8
    BY <1>7
  <2> HIDE DEF size
  <2>4. (HeaderSize + e + size + 2 * Len(m) * 8) % 4 = 0
    BY <1>5, <1>6, <2>1, <2>2, Modulo4
  <2> QED BY <1>5, <1>6, <2>1, <2>2, <2>3, <2>4
<1>9. h.dataOffset \in Nat /\ h.dataOffset % 8 = 0 /\ h.idclSize \in {4, 8}
  <2> HIDE DEF h, table, e, p, b, t
  <2> DEFINE x == h.idclOffset
  <2>1. (x + (IF x % 8 = 0 THEN 8 ELSE 4)) % 8 = 0
    <3> HIDE DEF x
    <3>1. x \in Nat /\ x % 4 = 0
      BY <1>8 DEF x
    <3> QED BY <3>1, Modulo8
  <2>2. h.dataOffset = x + (IF x % 8 = 0 THEN 8 ELSE 4) /\ h.idclSize = (IF x % 8 = 0 THEN 8 ELSE 4)
    BY <1>7
  <2> QED BY <1>8, <2>1, <2>2
<1>10. h.idclOffset = h.resourceDepsOffset + h.numStringIndices * 8
       /\ h.dataOffset = h.idclOffset + h.idclSize
       /\ h.stringTableSize = 8 + t * 8 + b + p
  <2> HIDE DEF h, e, p, b, t
  <2> QED BY <1>3, <1>7
<1> HIDE DEF h, table
<1>11. QED
  <2> USE DEF h, table
  <2> QED BY <1>2, <1>4, <1>5, <1>6, <1>7, <1>9, <1>10

-----------------------------------------------------------------------------
(* The data.                                                               *)

LEMMA AlignFacts ==
  ASSUME NEW x \in Nat
  PROVE  Align(x) \in Nat /\ Align(x) % 8 = 0 /\ Align(x) > x
BY DEF Align

LEMMA OffsetFacts ==
  ASSUME NEW m \in Seq(ModFile)
  PROVE  /\ DataOffsets(m)[0] = Header(m).dataOffset
         /\ \A k \in 0 .. Len(m) : DataOffsets(m)[k] \in Nat /\ DataOffsets(m)[k] % 8 = 0
         /\ \A k \in 1 .. Len(m) :
              DataOffsets(m)[k] = Align(DataOffsets(m)[k - 1] + m[k].dataLength)
<1> DEFINE n == Len(m)
           d == Header(m).dataOffset
           l == [k \in 1 .. n |-> m[k].dataLength]
           X == {x \in Nat : x % 8 = 0}
           Def(f) == [k \in 0 .. n |-> IF k = 0 THEN d ELSE Align(f[k - 1] + m[k].dataLength)]
           grow == [k \in 1 .. n |-> [x \in X |-> Align(x + m[k].dataLength)]]
           c == CHOOSE g : g = Def(g)
<1>1. n \in Nat /\ d \in X
  BY HeaderFacts
<1>2. ASSUME NEW k \in 1 .. n, NEW x \in X PROVE Align(x + m[k].dataLength) \in X
  <2>1. m[k].dataLength \in Nat
    BY Length
  <2>2. x + m[k].dataLength \in Nat
    BY <2>1
  <2> QED BY <2>2, AlignFacts
<1>3. PICK f \in [0 .. n -> X] : Follows(f, d, grow, n)
  <2>1. \A k \in 1 .. n : \A x \in X : grow[k][x] \in X
    BY <1>2
  <2> HIDE DEF grow, X, d, n
  <2> QED BY <1>1, <2>1, RecursiveFunction
<1>4. f[0] = d /\ \A k \in 1 .. n : f[k] = Align(f[k - 1] + m[k].dataLength)
  <2>1. \A k \in 1 .. n : \A x \in X : grow[k][x] = Align(x + m[k].dataLength)
    OBVIOUS
  <2>2. \A k \in 1 .. n : f[k - 1] \in X
    <3> HIDE DEF X, n
    <3> QED BY <1>1
  <2> HIDE DEF grow, X, d, n
  <2> QED BY <1>3, <2>1, <2>2 DEF Follows
<1>5. c = Def(c)
  <2> HIDE DEF d, X, n
  <2>1. f = [k \in 0 .. n |-> f[k]]
    OBVIOUS
  <2>2. \A k \in 0 .. n : f[k] = IF k = 0 THEN d ELSE Align(f[k - 1] + m[k].dataLength)
    BY <1>4
  <2>3. f = Def(f)
    BY <2>1, <2>2
  <2> HIDE DEF Def
  <2> QED BY <2>3
<1>6. DataOffsets(m) = c
  BY DEF DataOffsets
<1>7. c[0] = d /\ \A k \in 1 .. n : c[k] = Align(c[k - 1] + m[k].dataLength)
  <2> HIDE DEF c, d, n
  <2>1. c[0] = d
    BY <1>1, <1>5
  <2>2. ASSUME NEW k \in 1 .. n PROVE c[k] = Align(c[k - 1] + m[k].dataLength)
    BY <1>1, <1>5, SMTT(30)
  <2> QED BY <2>1, <2>2
<1>8. Agree(c, f, n)
  <2> HIDE DEF c, d, n
  <2>1. c[0] = f[0] /\ \A k \in 1 .. n : c[k - 1] = f[k - 1] => c[k] = f[k]
    BY <1>4, <1>7
  <2> QED BY <1>1, <2>1, AgreeUpTo
<1>9. \A k \in 0 .. n : c[k] \in X
  <2> HIDE DEF c, X
  <2> QED BY <1>8 DEF Agree
<1> HIDE DEF c
<1> QED BY <1>6, <1>7, <1>9

(* The block of a file ends before the next one begins.                    *)
LEMMA DataApart ==
  ASSUME NEW m \in Seq(ModFile), NEW first \in 1 .. Len(m), NEW j \in first .. Len(m)
  PROVE  DataOffsets(m)[first - 1] + m[first].dataLength <= DataOffsets(m)[j]
<1> DEFINE n == Len(m)
           o == DataOffsets(m)
           T == {d \in Nat : first + d <= n => o[first - 1] + m[first].dataLength <= o[first + d]}
<1>1. n \in Nat /\ \A k \in 1 .. n : m[k].dataLength \in Nat
  BY Length
<1>2. ASSUME NEW k \in 1 .. n
      PROVE  /\ o[k] \in Nat /\ o[k - 1] \in Nat
             /\ o[k] > o[k - 1] + m[k].dataLength
  <2> HIDE DEF o
  <2>1. k - 1 \in 0 .. n /\ k \in 0 .. n
    BY <1>1
  <2>2. o[k] \in Nat /\ o[k - 1] \in Nat /\ o[k] = Align(o[k - 1] + m[k].dataLength)
    BY <2>1, OffsetFacts DEF o
  <2>3. o[k - 1] + m[k].dataLength \in Nat
    BY <1>1, <2>2
  <2> QED BY <2>2, <2>3, AlignFacts
<1> HIDE DEF o
<1>3. 0 \in T
  BY <1>1, <1>2
<1>4. ASSUME NEW d \in Nat, d \in T PROVE d + 1 \in T
  <2>1. SUFFICES ASSUME first + (d + 1) <= n
                 PROVE  o[first - 1] + m[first].dataLength <= o[first + (d + 1)]
    OBVIOUS
  <2> DEFINE k == first + (d + 1)
  <2>2. k \in 1 .. n /\ k - 1 = first + d
    BY <1>1, <2>1
  <2>3. o[first - 1] + m[first].dataLength <= o[k - 1]
    BY <1>4, <2>1, <2>2
  <2>4. first - 1 \in 0 .. n /\ o[first - 1] \in Nat /\ m[first].dataLength \in Nat
    BY <1>1, <1>2
  <2>5. o[k] > o[k - 1] + m[k].dataLength /\ o[k] \in Nat /\ o[k - 1] \in Nat
        /\ m[k].dataLength \in Nat
    BY <1>1, <1>2, <2>2
  <2> DEFINE a == o[first - 1] + m[first].dataLength
             b == o[k - 1] + m[k].dataLength
  <2>6. a <= o[k]
    <3>1. a \in Nat /\ b \in Nat /\ o[k - 1] <= b /\ b < o[k]
      <4> HIDE DEF k, n, T
      <4>1. a \in Nat
        BY <2>4
      <4>2. b \in Nat
        BY <2>5
      <4>3. o[k - 1] <= b
        BY <2>5
      <4>4. b < o[k]
        BY <2>5
      <4> QED BY <4>1, <4>2, <4>3, <4>4
    <3>2. a <= o[k - 1] /\ o[k] \in Nat /\ o[k - 1] \in Nat
      BY <2>3, <2>5
    <3> HIDE DEF a, b
    <3> QED BY <3>1, <3>2
  <2> QED BY <2>6
<1>5. j - first \in T
  <2> HIDE DEF T
  <2>1. Nat \subseteq T
    BY <1>3, <1>4, SetInduction
  <2> QED BY <2>1
<1>6. first + (j - first) = j /\ j <= n
  OBVIOUS
<1> QED BY <1>5, <1>6 DEF o

-----------------------------------------------------------------------------
(* The blocks of the file.                                                 *)

Sizes(m) == [k \in DOMAIN Pieces(m) |-> Pieces(m)[k].size]
PartNames ==
  <<"header", "entries", "numStrings", "offsets", "blob", "padding", "stringIndex",
    "IDCL", "idcl padding">>

LEMMA PieceFacts ==
  ASSUME NEW m \in Seq(ModFile)
  PROVE  LET t == Len(Table(Names(m)))
             b == BlobSize(Table(Names(m)))
             p == Padding(ChunkSize(Table(Names(m))))
         IN  /\ DOMAIN Pieces(m) = 1 .. 9
             /\ \A k \in 1 .. 9 : /\ Pieces(m)[k].what = Piece(PartNames[k], 0)
                                  /\ Sizes(m)[k] = Pieces(m)[k].size
                                  /\ Sizes(m)[k] \in Nat
             /\ Sizes(m)[1] = HeaderSize
             /\ Sizes(m)[2] = Len(m) * EntrySize
             /\ Sizes(m)[3] = 8
             /\ Sizes(m)[4] = t * 8
             /\ Sizes(m)[5] = b
             /\ Sizes(m)[6] = p
             /\ Sizes(m)[7] = 2 * Len(m) * 8
             /\ Sizes(m)[8] = 4
             /\ Sizes(m)[9] = Header(m).idclSize - 4
<1> DEFINE h == Header(m)
           t == Len(Table(Names(m)))
           b == BlobSize(Table(Names(m)))
           p == Padding(ChunkSize(Table(Names(m))))
           s == Pieces(m)
<1>1. DOMAIN s = 1 .. 9
  BY DEF Pieces
<1>2. /\ s[1].size = HeaderSize
      /\ s[2].size = Len(m) * EntrySize
      /\ s[3].size = 8
      /\ s[4].size = t * 8
      /\ s[5].size = h.stringTableSize - 8 - 8 * t - p
      /\ s[6].size = p
      /\ s[7].size = 2 * Len(m) * 8
      /\ s[8].size = 4
      /\ s[9].size = h.idclSize - 4
  BY DEF Pieces, SizeOfLong, Header
<1>3. \A k \in 1 .. 9 : s[k].what = Piece(PartNames[k], 0)
  <2>1. /\ s[1].what = Piece("header", 0) /\ s[2].what = Piece("entries", 0)
        /\ s[3].what = Piece("numStrings", 0) /\ s[4].what = Piece("offsets", 0)
        /\ s[5].what = Piece("blob", 0) /\ s[6].what = Piece("padding", 0)
        /\ s[7].what = Piece("stringIndex", 0) /\ s[8].what = Piece("IDCL", 0)
        /\ s[9].what = Piece("idcl padding", 0)
    BY DEF Pieces
  <2>2. /\ PartNames[1] = "header" /\ PartNames[2] = "entries" /\ PartNames[3] = "numStrings"
        /\ PartNames[4] = "offsets" /\ PartNames[5] = "blob" /\ PartNames[6] = "padding"
        /\ PartNames[7] = "stringIndex" /\ PartNames[8] = "IDCL" /\ PartNames[9] = "idcl padding"
    BY DEF PartNames
  <2>3. ASSUME NEW k \in 1 .. 9
        PROVE  k = 1 \/ k = 2 \/ k = 3 \/ k = 4 \/ k = 5 \/ k = 6 \/ k = 7 \/ k = 8 \/ k = 9
    OBVIOUS
  <2> HIDE DEF s
  <2> QED BY <2>1, <2>2, <2>3
<1>4. \A k \in 1 .. 9 : Sizes(m)[k] = s[k].size
  BY <1>1 DEF Sizes
<1>5. /\ HeaderSize \in Nat /\ Len(m) * EntrySize \in Nat /\ t \in Nat /\ b \in Nat /\ p \in Nat
      /\ h.stringTableSize = 8 + t * 8 + b + p /\ h.idclSize \in {4, 8}
  BY HeaderFacts
<1>6. s[5].size = b
  <2> HIDE DEF s, h, t, b, p
  <2> QED BY <1>2, <1>5, SMTT(30)
<1>7. 2 * Len(m) * 8 \in Nat
  OBVIOUS
<1>8. \A k \in 1 .. 9 : s[k].size \in Nat
  <2>1. ASSUME NEW k \in 1 .. 9
        PROVE  k = 1 \/ k = 2 \/ k = 3 \/ k = 4 \/ k = 5 \/ k = 6 \/ k = 7 \/ k = 8 \/ k = 9
    OBVIOUS
  <2>2. t * 8 \in Nat /\ h.idclSize - 4 \in Nat /\ 8 \in Nat /\ 4 \in Nat
    <3> HIDE DEF s, h, t, b, p
    <3> QED BY <1>5
  <2> HIDE DEF s, h, t, b, p
  <2>3. s[1].size \in Nat /\ s[2].size \in Nat /\ s[3].size \in Nat
    BY <1>2, <1>5, <2>2
  <2>4. s[4].size \in Nat /\ s[5].size \in Nat /\ s[6].size \in Nat
    BY <1>2, <1>5, <1>6, <2>2
  <2>5. s[7].size \in Nat /\ s[8].size \in Nat /\ s[9].size \in Nat
    BY <1>2, <1>7, <2>2
  <2> QED BY <2>1, <2>3, <2>4, <2>5
<1>9. \A k \in {1, 2, 3, 4, 5, 6, 7, 8, 9} : Sizes(m)[k] = s[k].size
  BY <1>4
<1> HIDE DEF s
<1> QED BY <1>1, <1>2, <1>3, <1>4, <1>6, <1>8, <1>9 DEF s

(* Where each begins.                                                      *)
LEMMA StartFacts ==
  ASSUME NEW m \in Seq(ModFile)
  PROVE  LET h == Header(m)
             t == Len(Table(Names(m)))
             b == BlobSize(Table(Names(m)))
             start(k) == SumTo(Sizes(m), k)
         IN  /\ \A k \in 0 .. 9 : start(k) \in Nat
             /\ start(0) = 0
             /\ start(1) = HeaderSize
             /\ start(2) = h.stringTableOffset
             /\ start(3) = h.stringTableOffset + 8
             /\ start(4) = h.stringTableOffset + 8 + t * 8
             /\ start(5) = start(4) + b
             /\ start(6) = h.resourceDepsOffset
             /\ start(7) = h.idclOffset
             /\ start(8) = h.idclOffset + 4
             /\ start(9) = h.dataOffset
<1> DEFINE h == Header(m)
           t == Len(Table(Names(m)))
           b == BlobSize(Table(Names(m)))
           p == Padding(ChunkSize(Table(Names(m))))
           start(k) == SumTo(Sizes(m), k)
<1>1. \A k \in 1 .. 9 : Sizes(m)[k] \in Nat
  BY PieceFacts
<1>2. start(0) = 0 /\ \A k \in 0 .. 9 : start(k) \in Nat
                                      /\ (k # 0 => start(k) = start(k - 1) + Sizes(m)[k])
  <2>1. ASSUME NEW k \in 0 .. 9
        PROVE  start(0) = 0 /\ start(k) \in Nat
                 /\ (k # 0 => start(k) = start(k - 1) + Sizes(m)[k])
    <3>1. k \in Nat /\ \A j \in 1 .. k : Sizes(m)[j] \in Nat
      <4>1. k \in Nat /\ \A j \in 1 .. k : j \in 1 .. 9
        OBVIOUS
      <4> HIDE DEF start, h, t, b, p
      <4> QED BY <1>1, <4>1
    <3> QED BY <3>1, SumFacts
  <2> QED BY <2>1
<1> HIDE DEF start
<1>3. /\ start(1) = start(0) + Sizes(m)[1] /\ start(2) = start(1) + Sizes(m)[2]
      /\ start(3) = start(2) + Sizes(m)[3] /\ start(4) = start(3) + Sizes(m)[4]
      /\ start(5) = start(4) + Sizes(m)[5] /\ start(6) = start(5) + Sizes(m)[6]
      /\ start(7) = start(6) + Sizes(m)[7] /\ start(8) = start(7) + Sizes(m)[8]
      /\ start(9) = start(8) + Sizes(m)[9]
  BY <1>2
<1>4. /\ start(1) = HeaderSize
      /\ start(2) = HeaderSize + Len(m) * EntrySize
      /\ start(3) = start(2) + 8
      /\ start(4) = start(3) + t * 8
      /\ start(5) = start(4) + b
      /\ start(6) = start(5) + p
      /\ start(7) = start(6) + 2 * Len(m) * 8
      /\ start(8) = start(7) + 4
      /\ start(9) = start(8) + (h.idclSize - 4)
  <2> HIDE DEF h, t, b, p
  <2>1. /\ Sizes(m)[1] = HeaderSize /\ Sizes(m)[2] = Len(m) * EntrySize
        /\ Sizes(m)[3] = 8 /\ Sizes(m)[4] = t * 8 /\ Sizes(m)[5] = b /\ Sizes(m)[6] = p
        /\ Sizes(m)[7] = 2 * Len(m) * 8 /\ Sizes(m)[8] = 4 /\ Sizes(m)[9] = h.idclSize - 4
    BY PieceFacts DEF h, t, b, p
  <2>2. HeaderSize \in Nat
    BY HeaderFacts
  <2> QED BY <1>2, <1>3, <2>1, <2>2
<1>5. /\ t \in Nat /\ b \in Nat /\ p \in Nat /\ HeaderSize \in Nat /\ Len(m) * EntrySize \in Nat
      /\ h.stringTableOffset = HeaderSize + Len(m) * EntrySize
      /\ h.stringTableSize = 8 + t * 8 + b + p
      /\ h.resourceDepsOffset = h.stringTableOffset + h.stringTableSize
      /\ h.idclOffset = h.resourceDepsOffset + h.numStringIndices * 8
      /\ h.idclSize \in {4, 8}
      /\ h.dataOffset = h.idclOffset + h.idclSize
  BY HeaderFacts
<1>6. h.numStringIndices = 2 * Len(m)
  BY DEF Header
<1>7. Len(m) \in Nat
  OBVIOUS
<1> HIDE DEF h, t, b, p
<1>8. /\ start(2) = h.stringTableOffset
      /\ start(3) = h.stringTableOffset + 8
      /\ start(4) = h.stringTableOffset + 8 + t * 8
  BY <1>4, <1>5
<1>9. start(6) = h.resourceDepsOffset
  BY <1>4, <1>5, <1>8, SMTT(30)
<1>10. start(7) = h.idclOffset
  BY <1>4, <1>5, <1>6, <1>9
<1>11. start(8) = h.idclOffset + 4
  BY <1>4, <1>10
<1>12. start(9) = h.dataOffset
  <2>1. h.idclOffset \in Nat
    <3>1. start(7) \in Nat
      BY <1>2
    <3> QED BY <1>10, <3>1
  <2> DEFINE x == h.idclOffset
             y == h.idclSize
  <2>2. x \in Nat /\ y \in {4, 8} /\ start(9) = (x + 4) + (y - 4) /\ h.dataOffset = x + y
    BY <1>4, <1>5, <1>11, <2>1
  <2> HIDE DEF x, y
  <2> QED BY <2>2
<1> QED BY <1>2, <1>4, <1>8, <1>9, <1>10, <1>11, <1>12 DEF start, h, t, b

Fixed(m, k) ==
  [start |-> SumTo(Sizes(m), k - 1), end |-> SumTo(Sizes(m), k),
   what |-> Piece(PartNames[k], 0)]
DataBlock(m, k) ==
  [start |-> DataOffsets(m)[k - 1], end |-> DataOffsets(m)[k - 1] + m[k].dataLength,
   what |-> Piece("data", k)]

LEMMA BlocksAre ==
  ASSUME NEW m \in Seq(ModFile)
  PROVE  Blocks(m) = {Fixed(m, k) : k \in 1 .. 9} \cup {DataBlock(m, k) : k \in 1 .. Len(m)}
<1> DEFINE s == [k \in DOMAIN Pieces(m) |-> Pieces(m)[k].size]
           piece(k) == [start |-> SumTo(s, k - 1), end |-> SumTo(s, k),
                        what |-> Pieces(m)[k].what]
           data(k) == [start |-> Entries(m)[k].dataOffset,
                       end |-> Entries(m)[k].dataOffset + Entries(m)[k].dataSize,
                       what |-> Piece("data", k)]
<1>1. Blocks(m) = {piece(k) : k \in DOMAIN Pieces(m)} \cup {data(k) : k \in DOMAIN Entries(m)}
  BY DEF Blocks
<1>2. DOMAIN Pieces(m) = 1 .. 9 /\ DOMAIN Entries(m) = 1 .. Len(m)
  BY PieceFacts DEF Entries
<1>3. ASSUME NEW k \in 1 .. 9 PROVE piece(k) = Fixed(m, k)
  <2>1. Pieces(m)[k].what = Piece(PartNames[k], 0)
    BY PieceFacts
  <2> QED BY <2>1 DEF Fixed, Sizes
<1>4. ASSUME NEW k \in 1 .. Len(m) PROVE data(k) = DataBlock(m, k)
  <2>1. Entries(m)[k].dataOffset = DataOffsets(m)[k - 1]
        /\ Entries(m)[k].dataSize = m[k].dataLength
    BY DEF Entries
  <2> QED BY <2>1 DEF DataBlock
<1> HIDE DEF piece, data
<1> QED BY <1>1, <1>2, <1>3, <1>4

(* The fixed blocks follow each other, and the data follows them.          *)
LEMMA FixedInOrder ==
  ASSUME NEW m \in Seq(ModFile), NEW k \in 1 .. 9
  PROVE  /\ Fixed(m, k).start \in Nat /\ Fixed(m, k).end \in Nat
         /\ Fixed(m, k).start <= Fixed(m, k).end
         /\ Fixed(m, k).end <= Header(m).dataOffset
         /\ \A l \in k + 1 .. 9 : Fixed(m, k).end <= Fixed(m, l).start
<1> DEFINE s == Sizes(m)
<1>1. 9 \in Nat /\ \A j \in 1 .. 9 : s[j] \in Nat
  BY PieceFacts
<1>2. SumTo(s, 9) = Header(m).dataOffset
  BY StartFacts
<1> HIDE DEF s
<1>3. ASSUME NEW x \in 0 .. 9, NEW y \in x .. 9
      PROVE  SumTo(s, x) \in Nat /\ SumTo(s, y) \in Nat /\ SumTo(s, x) <= SumTo(s, y)
  BY <1>1, <1>3, SumMonotonic
<1>4. k - 1 \in 0 .. 9 /\ k \in 0 .. 9 /\ k \in k - 1 .. 9 /\ 9 \in k .. 9
  OBVIOUS
<1>5. \A l \in k + 1 .. 9 : l - 1 \in k .. 9
  OBVIOUS
<1> QED BY <1>2, <1>3, <1>4, <1>5 DEF Fixed, s

LEMMA DataInOrder ==
  ASSUME NEW m \in Seq(ModFile), NEW k \in 1 .. Len(m)
  PROVE  /\ DataBlock(m, k).start \in Nat /\ DataBlock(m, k).end \in Nat
         /\ DataBlock(m, k).start <= DataBlock(m, k).end
         /\ Header(m).dataOffset <= DataBlock(m, k).start
         /\ DataBlock(m, k).end <= DataOffsets(m)[Len(m)]
         /\ \A l \in k + 1 .. Len(m) : DataBlock(m, k).end <= DataBlock(m, l).start
<1> DEFINE o == DataOffsets(m)
<1>1. k - 1 \in 0 .. Len(m) /\ Len(m) \in k .. Len(m) /\ 1 \in 1 .. Len(m)
  OBVIOUS
<1>2. o[k - 1] \in Nat /\ m[k].dataLength \in Nat /\ o[0] = Header(m).dataOffset /\ o[0] \in Nat
  <2>1. 0 \in 0 .. Len(m)
    OBVIOUS
  <2> QED BY <1>1, <2>1, OffsetFacts, Length
<1>3. o[k - 1] + m[k].dataLength <= o[Len(m)]
  BY <1>1, DataApart
<1>4. ASSUME NEW l \in k + 1 .. Len(m) PROVE o[k - 1] + m[k].dataLength <= o[l - 1]
  <2>1. l - 1 \in k .. Len(m)
    OBVIOUS
  <2> QED BY <2>1, DataApart
<1>5. o[0] <= o[k - 1]
  <2>1. CASE k = 1
    BY <1>2, <2>1
  <2>2. CASE k # 1
    <3>1. k - 1 \in 1 .. Len(m) /\ 1 - 1 = 0
      BY <2>2
    <3>2. o[0] + m[1].dataLength <= o[k - 1]
      BY <1>1, <3>1, DataApart
    <3>3. m[1].dataLength \in Nat
      BY <1>1, Length
    <3> QED BY <1>2, <3>2, <3>3
  <2> QED BY <2>1, <2>2
<1> HIDE DEF o
<1> QED BY <1>2, <1>3, <1>4, <1>5 DEF DataBlock, o

(* No two blocks overlap, and none is named twice.                         *)
Apart(v, w) == v = w \/ v.end <= w.start \/ w.end <= v.start

LEMMA BlocksApart ==
  ASSUME NEW m \in Seq(ModFile)
  PROVE  /\ \A v \in Blocks(m) : /\ v.start \in Nat /\ v.end \in Nat /\ v.start <= v.end
                                 /\ v.end <= DataOffsets(m)[Len(m)]
         /\ \A v, w \in Blocks(m) : Apart(v, w)
         /\ DataOffsets(m)[Len(m)] \in Nat
<1> DEFINE bound == DataOffsets(m)[Len(m)]
           d == Header(m).dataOffset
           n == Len(m)
<1>1. n \in Nat /\ bound \in Nat /\ d \in Nat
  <2>1. Len(m) \in Nat /\ Len(m) \in 0 .. Len(m)
    OBVIOUS
  <2> QED BY <2>1, OffsetFacts, HeaderFacts
<1>2. d <= bound
  <2>1. CASE n = 0
    <3>1. DataOffsets(m)[0] = d /\ n \in Nat
      BY OffsetFacts
    <3>2. d = bound
      BY <2>1, <3>1
    <3> HIDE DEF d, bound
    <3> QED BY <1>1, <3>2
  <2>2. CASE n # 0
    <3>1. 1 \in 1 .. n
      BY <2>2, <1>1
    <3> HIDE DEF d, bound
    <3>2. /\ DataBlock(m, 1).start \in Nat /\ DataBlock(m, 1).end \in Nat
          /\ DataBlock(m, 1).start <= DataBlock(m, 1).end
          /\ d <= DataBlock(m, 1).start /\ DataBlock(m, 1).end <= bound
      BY <3>1, DataInOrder DEF d, bound
    <3> QED BY <1>1, <3>2
  <2> QED BY <2>1, <2>2
<1> HIDE DEF bound, d
<1>3. ASSUME NEW k \in 1 .. 9
      PROVE  /\ Fixed(m, k).start \in Nat /\ Fixed(m, k).end \in Nat
             /\ Fixed(m, k).start <= Fixed(m, k).end /\ Fixed(m, k).end <= bound
             /\ Fixed(m, k).end <= d
  <2>1. /\ Fixed(m, k).start \in Nat /\ Fixed(m, k).end \in Nat
        /\ Fixed(m, k).start <= Fixed(m, k).end /\ Fixed(m, k).end <= d
    BY FixedInOrder DEF d
  <2> QED BY <1>1, <1>2, <2>1
<1>4. ASSUME NEW k \in 1 .. n
      PROVE  /\ DataBlock(m, k).start \in Nat /\ DataBlock(m, k).end \in Nat
             /\ DataBlock(m, k).start <= DataBlock(m, k).end
             /\ DataBlock(m, k).end <= bound /\ d <= DataBlock(m, k).start
  BY DataInOrder DEF d, bound
<1>5. ASSUME NEW k \in 1 .. 9, NEW l \in 1 .. 9 PROVE Apart(Fixed(m, k), Fixed(m, l))
  <2>1. CASE k < l
    <3>1. l \in k + 1 .. 9
      BY <2>1
    <3> QED BY <3>1, FixedInOrder DEF Apart
  <2>2. CASE l < k
    <3>1. k \in l + 1 .. 9
      BY <2>2
    <3> QED BY <3>1, FixedInOrder DEF Apart
  <2>3. k < l \/ l < k \/ k = l
    OBVIOUS
  <2> QED BY <2>1, <2>2, <2>3 DEF Apart
<1>6. ASSUME NEW k \in 1 .. n, NEW l \in 1 .. n PROVE Apart(DataBlock(m, k), DataBlock(m, l))
  <2>1. CASE k < l
    <3>1. l \in k + 1 .. n
      BY <2>1
    <3> QED BY <3>1, DataInOrder DEF Apart
  <2>2. CASE l < k
    <3>1. k \in l + 1 .. n
      BY <2>2
    <3> QED BY <3>1, DataInOrder DEF Apart
  <2>3. k < l \/ l < k \/ k = l
    OBVIOUS
  <2> QED BY <2>1, <2>2, <2>3 DEF Apart
<1>7. ASSUME NEW k \in 1 .. 9, NEW l \in 1 .. n
      PROVE  Apart(Fixed(m, k), DataBlock(m, l)) /\ Apart(DataBlock(m, l), Fixed(m, k))
  <2>1. Fixed(m, k).end \in Nat /\ Fixed(m, k).end <= d
    BY <1>3
  <2>2. DataBlock(m, l).start \in Nat /\ d <= DataBlock(m, l).start
    BY <1>4
  <2>3. Fixed(m, k).end <= DataBlock(m, l).start
    BY <1>1, <2>1, <2>2
  <2> QED BY <2>3 DEF Apart
<1>8. \A v \in Blocks(m) : (\E k \in 1 .. 9 : v = Fixed(m, k)) \/ (\E k \in 1 .. n : v = DataBlock(m, k))
  BY BlocksAre
<1>9. \A v \in Blocks(m) : /\ v.start \in Nat /\ v.end \in Nat /\ v.start <= v.end
                          /\ v.end <= bound
  <2> HIDE DEF n
  <2> QED BY <1>3, <1>4, <1>8
<1>10. \A v, w \in Blocks(m) : Apart(v, w)
  <2> HIDE DEF n
  <2> QED BY <1>5, <1>6, <1>7, <1>8
<1> QED BY <1>1, <1>9, <1>10 DEF bound

-----------------------------------------------------------------------------
(* Reading.                                                                *)

LEMMA LengthOfFile ==
  ASSUME NEW m \in Seq(ModFile), NEW w \in Written(m)
  PROVE  /\ FileLength(Written(m)) \in Nat
         /\ \A v \in Written(m) : v.end <= FileLength(Written(m))
<1> DEFINE T == {v.end : v \in Written(m)}
           b == DataOffsets(m)[Len(m)]
<1>1. /\ b \in Nat
      /\ \A v \in Written(m) : v.end \in Nat /\ v.end <= b
  BY BlocksApart DEF Written
<1>2. \E n \in T : \A x \in T : x <= n
  <2>1. T \subseteq Nat /\ T # {} /\ \A x \in T : x <= b
    BY <1>1
  <2> HIDE DEF T, b
  <2> QED BY <1>1, <2>1, GreatestNat
<1>3. \E n \in T : \A v \in Written(m) : v.end <= n
  BY <1>2
<1>4. FileLength(Written(m)) \in T /\ \A v \in Written(m) : v.end <= FileLength(Written(m))
  BY <1>3 DEF FileLength
<1> QED BY <1>1, <1>4

(* A range is read whole when what it meets lies in it and its end is the  *)
(* end of a piece.                                                         *)
LEMMA ReadRange ==
  ASSUME NEW m \in Seq(ModFile), NEW start \in Nat, NEW end \in Nat,
         NEW there, there = {w \in Written(m) : w.start < end /\ start < w.end},
         \A w \in there : start <= w.start /\ w.end <= end,
         start < end => \E w \in Written(m) : end <= w.end
  PROVE  Read(Written(m), start, end) = [pieces |-> {w.what : w \in there}, whole |-> TRUE]
<1>1. start < end => end <= FileLength(Written(m))
  <2>1. SUFFICES ASSUME start < end PROVE end <= FileLength(Written(m))
    OBVIOUS
  <2>2. PICK w \in Written(m) : end <= w.end
    BY <2>1
  <2>3. w.end \in Nat /\ w.end <= FileLength(Written(m)) /\ FileLength(Written(m)) \in Nat
    BY LengthOfFile, BlocksApart DEF Written
  <2> QED BY <2>2, <2>3
<1> QED BY <1>1 DEF Read

LEMMA ReadsBlock ==
  ASSUME NEW m \in Seq(ModFile), NEW v \in Blocks(m)
  PROVE  Read(Written(m), v.start, v.end)
           = [pieces |-> IF v.start < v.end THEN {v.what} ELSE {}, whole |-> TRUE]
<1> DEFINE there == {w \in Written(m) : w.start < v.end /\ v.start < w.end}
<1>1. v.start \in Nat /\ v.end \in Nat /\ v.start <= v.end
  BY BlocksApart
<1>2. ASSUME NEW w \in there PROVE w = v
  <2>1. w \in Blocks(m) /\ w.start < v.end /\ v.start < w.end
    BY DEF Written
  <2>2. w.start \in Nat /\ w.end \in Nat /\ (w = v \/ w.end <= v.start \/ v.end <= w.start)
    <3> HIDE DEF there
    <3> QED BY <2>1, BlocksApart DEF Apart
  <2> QED BY <1>1, <2>1, <2>2
<1>3. v.start < v.end => v \in there
  BY DEF Written
<1>4. v.start < v.end \/ there = {}
  <2>1. ASSUME NEW w \in there PROVE v.start < v.end
    <3>1. w = v /\ w.start < v.end
      BY <1>2
    <3> QED BY <3>1
  <2> QED BY <2>1
<1>5. there \subseteq Written(m)
  OBVIOUS
<1>6. Read(Written(m), v.start, v.end) = [pieces |-> {w.what : w \in there}, whole |-> TRUE]
  <2>1. \A w \in there : v.start <= w.start /\ w.end <= v.end
    <3>1. v.start <= v.start /\ v.end <= v.end
      BY <1>1
    <3> QED BY <1>2, <3>1
  <2>2. v.start < v.end => \E w \in Written(m) : v.end <= w.end
    <3>1. v.end <= v.end
      BY <1>1
    <3> QED BY <1>3, <1>5, <3>1
  <2>3. there = {w \in Written(m) : w.start < v.end /\ v.start < w.end}
    OBVIOUS
  <2> DEFINE x == v.start
             y == v.end
  <2>4. x < y => \E w \in Written(m) : y <= w.end
    BY <2>2
  <2>5. \A w \in there : x <= w.start /\ w.end <= y
    BY <2>1
  <2>6. x \in Nat /\ y \in Nat /\ there = {w \in Written(m) : w.start < y /\ x < w.end}
    BY <1>1, <2>3
  <2> HIDE DEF x, y, there
  <2>7. Read(Written(m), x, y) = [pieces |-> {w.what : w \in there}, whole |-> TRUE]
    BY <2>4, <2>5, <2>6, ReadRange
  <2> QED BY <2>7 DEF x, y
<1> HIDE DEF there
<1>7. CASE v.start < v.end
  <2>1. there = {v}
    BY <1>2, <1>3, <1>7
  <2> QED BY <1>6, <1>7, <2>1
<1>8. CASE ~(v.start < v.end)
  <2>1. there = {}
    BY <1>4, <1>8
  <2> QED BY <1>6, <1>8, <2>1
<1> QED BY <1>7, <1>8

LEMMA ReadsFixed ==
  ASSUME NEW m \in Seq(ModFile), NEW k \in 1 .. 9
  PROVE  ReadsPiece(Written(m), SumTo(Sizes(m), k - 1), Sizes(m)[k], Piece(PartNames[k], 0))
<1> DEFINE v == Fixed(m, k)
<1>1. v \in Blocks(m)
  BY BlocksAre
<1>2. /\ v.start = SumTo(Sizes(m), k - 1) /\ v.end = SumTo(Sizes(m), k)
      /\ v.what = Piece(PartNames[k], 0)
  BY DEF Fixed
<1>3. /\ v.start \in Nat /\ v.end \in Nat /\ Sizes(m)[k] \in Nat
      /\ v.end = v.start + Sizes(m)[k]
  <2>1. k \in Nat /\ k # 0 /\ \A j \in 1 .. k : j \in 1 .. 9
    OBVIOUS
  <2>2. \A j \in 1 .. 9 : Sizes(m)[j] \in Nat
    BY PieceFacts
  <2>3. \A j \in 1 .. k : Sizes(m)[j] \in Nat
    BY <2>1, <2>2
  <2>4. SumTo(Sizes(m), k) = SumTo(Sizes(m), k - 1) + Sizes(m)[k]
    BY <2>1, <2>3, SumFacts
  <2>5. v.start \in Nat /\ v.end \in Nat
    BY FixedInOrder
  <2> QED BY <1>2, <2>2, <2>4, <2>5
<1>4. (v.start < v.end) <=> (Sizes(m)[k] > 0)
  <2> HIDE DEF v
  <2> QED BY <1>3
<1> HIDE DEF v
<1>5. Read(Written(m), v.start, v.end)
        = [pieces |-> IF v.start < v.end THEN {v.what} ELSE {}, whole |-> TRUE]
  BY <1>1, ReadsBlock
<1> QED BY <1>2, <1>3, <1>4, <1>5 DEF ReadsPiece

LEMMA ReadsBlob ==
  ASSUME NEW m \in Seq(ModFile), m # <<>>
  PROVE  LET block_ == Read(Written(m), SumTo(Sizes(m), 4), SumTo(Sizes(m), 6))
         IN  block_.whole /\ Piece("blob", 0) \in block_.pieces
<1> DEFINE x == SumTo(Sizes(m), 4)
           y == SumTo(Sizes(m), 6)
           there == {w \in Written(m) : w.start < y /\ x < w.end}
           blob == Fixed(m, 5)
           padding == Fixed(m, 6)
<1>1. blob \in Blocks(m) /\ padding \in Blocks(m)
  BY BlocksAre
<1>2. /\ blob.start = x /\ blob.end = SumTo(Sizes(m), 5) /\ blob.what = Piece("blob", 0)
      /\ padding.start = SumTo(Sizes(m), 5) /\ padding.end = y
  BY DEF Fixed, PartNames
<1>3. /\ blob.start \in Nat /\ blob.end \in Nat
      /\ padding.start \in Nat /\ padding.end \in Nat /\ padding.start <= padding.end
  BY FixedInOrder
<1>4. blob.start < blob.end
  <2> DEFINE b == BlobSize(Table(Names(m)))
  <2>1. b \in Nat /\ b > 0
    BY HeaderFacts
  <2>2. SumTo(Sizes(m), 5) = SumTo(Sizes(m), 4) + b
    BY StartFacts
  <2> HIDE DEF b, blob
  <2> QED BY <1>2, <1>3, <2>1, <2>2
<1> HIDE DEF x, y, blob, padding
<1>5. ASSUME NEW w \in there PROVE x <= w.start /\ w.end <= y
  <2>1. w \in Blocks(m) /\ w.start < y /\ x < w.end /\ w.start < w.end
    BY DEF Written
  <2>2. w.start \in Nat /\ w.end \in Nat /\ Apart(w, blob) /\ Apart(w, padding)
    <3> HIDE DEF there
    <3> QED BY <1>1, <2>1, BlocksApart
  <2> HIDE DEF there
  <2>3. x \in Nat /\ y \in Nat /\ blob.end = padding.start
    BY <1>2, <1>3
  <2>4. CASE w = blob
    BY <1>2, <1>3, <1>4, <2>3, <2>4
  <2>5. CASE w = padding
    BY <1>2, <1>3, <1>4, <2>3, <2>5
  <2>6. CASE w # blob /\ w # padding
    BY <1>2, <1>3, <1>4, <2>1, <2>2, <2>3, <2>6 DEF Apart
  <2> QED BY <2>4, <2>5, <2>6
<1>6. blob \in Written(m)
  BY <1>1, <1>4 DEF Written
<1>7. blob \in there
  <2>1. blob.start < y /\ x < blob.end
    BY <1>2, <1>3, <1>4
  <2> QED BY <1>6, <2>1
<1>8. x < y => \E w \in Written(m) : y <= w.end
  <2>1. CASE padding.start < padding.end
    <3>1. padding \in Written(m) /\ y <= padding.end
      BY <1>1, <1>2, <1>3, <2>1 DEF Written
    <3> QED BY <3>1
  <2>2. CASE ~(padding.start < padding.end)
    <3>1. y <= blob.end
      BY <1>2, <1>3, <2>2
    <3> QED BY <1>6, <3>1
  <2> QED BY <2>1, <2>2
<1>9. Read(Written(m), x, y) = [pieces |-> {w.what : w \in there}, whole |-> TRUE]
  <2>1. x \in Nat /\ y \in Nat
    BY <1>2, <1>3
  <2>2. there = {w \in Written(m) : w.start < y /\ x < w.end}
    OBVIOUS
  <2> HIDE DEF there
  <2> QED BY <1>5, <1>8, <2>1, <2>2, ReadRange
<1>10. blob.what \in {w.what : w \in there}
  <2> HIDE DEF there
  <2> QED BY <1>7
<1> HIDE DEF there
<1> QED BY <1>2, <1>9, <1>10 DEF x, y

(* The readers of an archive find in it what BuildArchive wrote.           *)
THEOREM BuildReadsBack ==
  ASSUME NEW m \in Seq(ModFile), m # <<>>
  PROVE  ReadsBack(BuildArchive(m)) /\ Aligned(BuildArchive(m))
<1> DEFINE a == BuildArchive(m)
           h == Header(m)
           t == Len(Table(Names(m)))
           start(k) == SumTo(Sizes(m), k)
<1>1. /\ a.header = h /\ a.entries = Entries(m) /\ a.numStrings = t
      /\ a.file = Written(m)
  BY DEF BuildArchive
<1>2. /\ h.resourceEntriesOffset = HeaderSize /\ h.numResources = Len(m)
      /\ h.numStringIndices = 2 * Len(m)
  BY DEF Header
<1>3. /\ start(1) = HeaderSize /\ start(2) = h.stringTableOffset
      /\ start(3) = h.stringTableOffset + 8
      /\ start(4) = h.stringTableOffset + 8 + t * 8
      /\ start(6) = h.resourceDepsOffset
  BY StartFacts
<1>4. h.resourceDepsOffset = h.stringTableOffset + h.stringTableSize
  BY HeaderFacts
<1>5. /\ Sizes(m)[2] = Len(m) * EntrySize /\ Sizes(m)[3] = 8 /\ Sizes(m)[4] = t * 8
      /\ Sizes(m)[7] = 2 * Len(m) * 8
  BY PieceFacts
<1>6. ReadsPiece(Written(m), start(1), Sizes(m)[2], Piece("entries", 0))
  <2>1. ReadsPiece(Written(m), SumTo(Sizes(m), 2 - 1), Sizes(m)[2], Piece(PartNames[2], 0))
    BY ReadsFixed
  <2> QED BY <2>1 DEF PartNames
<1>7. ReadsPiece(Written(m), start(2), Sizes(m)[3], Piece("numStrings", 0))
  <2>1. ReadsPiece(Written(m), SumTo(Sizes(m), 3 - 1), Sizes(m)[3], Piece(PartNames[3], 0))
    BY ReadsFixed
  <2> QED BY <2>1 DEF PartNames
<1>8. ReadsPiece(Written(m), start(3), Sizes(m)[4], Piece("offsets", 0))
  <2>1. ReadsPiece(Written(m), SumTo(Sizes(m), 4 - 1), Sizes(m)[4], Piece(PartNames[4], 0))
    BY ReadsFixed
  <2> QED BY <2>1 DEF PartNames
<1>9. ReadsPiece(Written(m), start(6), Sizes(m)[7], Piece("stringIndex", 0))
  <2>1. ReadsPiece(Written(m), SumTo(Sizes(m), 7 - 1), Sizes(m)[7], Piece(PartNames[7], 0))
    BY ReadsFixed
  <2> QED BY <2>1 DEF PartNames
<1>10. LET block_ == Read(Written(m), start(4), start(6))
       IN  block_.whole /\ Piece("blob", 0) \in block_.pieces
  BY ReadsBlob
<1>11. DOMAIN Entries(m) = 1 .. Len(m)
  BY DEF Entries
<1>12. ASSUME NEW k \in 1 .. Len(m), Entries(m)[k].dataSize > 0
       PROVE  Get_EntryData(a, k) = [pieces |-> {Piece("data", k)}, whole |-> TRUE]
  <2> DEFINE v == DataBlock(m, k)
             e == Entries(m)[k]
  <2>1. v.start = e.dataOffset /\ v.end = e.dataOffset + e.dataSize /\ v.what = Piece("data", k)
    BY DEF DataBlock, Entries
  <2>2. v.start \in Nat /\ e.dataSize \in Nat /\ h.dataOffset \in Nat
    BY DataInOrder, HeaderFacts, Length, SMTT(30) DEF Entries
  <2>3. v \in Blocks(m)
    BY BlocksAre
  <2>4. Get_EntryData(a, k)
          = Read(Written(m), h.dataOffset + (e.dataOffset - h.dataOffset),
                 h.dataOffset + (e.dataOffset - h.dataOffset) + e.dataSize)
    BY <1>1 DEF Get_EntryData
  <2> HIDE DEF v, a, h
  <2>5. h.dataOffset + (e.dataOffset - h.dataOffset) = v.start
    BY <2>1, <2>2
  <2>6. v.start < v.end
    BY <1>12, <2>1, <2>2
  <2>7. Read(Written(m), v.start, v.end) = [pieces |-> {v.what}, whole |-> TRUE]
    BY <2>3, <2>6, ReadsBlock
  <2> HIDE DEF e
  <2> QED BY <2>1, <2>4, <2>5, <2>7
<1>13. Aligned(a)
  <2>1. h.dataOffset % 8 = 0
    BY HeaderFacts
  <2>2. ASSUME NEW k \in 1 .. Len(m) PROVE Entries(m)[k].dataOffset % 8 = 0
    <3>1. k - 1 \in 0 .. Len(m)
      OBVIOUS
    <3>2. DataOffsets(m)[k - 1] % 8 = 0
      BY <3>1, OffsetFacts
    <3>3. Entries(m)[k].dataOffset = DataOffsets(m)[k - 1]
      BY DEF Entries
    <3> QED BY <3>2, <3>3
  <2> HIDE DEF a, h
  <2> QED BY <1>1, <1>11, <2>1, <2>2 DEF Aligned
<1> HIDE DEF a, h, t, start
<1>14. ReadsBack(a)
  <2>1. ReadsPiece(a.file, a.header.resourceEntriesOffset, a.header.numResources * EntrySize,
                   Piece("entries", 0))
    BY <1>1, <1>2, <1>3, <1>5, <1>6
  <2>2. ReadsPiece(a.file, a.header.stringTableOffset, SizeOfLong, Piece("numStrings", 0))
    BY <1>1, <1>3, <1>5, <1>7 DEF SizeOfLong
  <2>3. ReadsPiece(a.file, a.header.stringTableOffset + SizeOfLong,
                   a.numStrings * SizeOfLong, Piece("offsets", 0))
    BY <1>1, <1>3, <1>5, <1>8 DEF SizeOfLong
  <2>4. LET block_ == Read(a.file, a.header.stringTableOffset + SizeOfLong + a.numStrings * SizeOfLong,
                           a.header.stringTableOffset + a.header.stringTableSize)
        IN  block_.whole /\ Piece("blob", 0) \in block_.pieces
    BY <1>1, <1>3, <1>4, <1>10 DEF SizeOfLong
  <2>5. ReadsPiece(a.file, a.header.resourceDepsOffset, a.header.numStringIndices * SizeOfLong,
                   Piece("stringIndex", 0))
    BY <1>1, <1>2, <1>3, <1>5, <1>9 DEF SizeOfLong
  <2>6. \A k \in DOMAIN a.entries :
          a.entries[k].dataSize > 0 =>
            Get_EntryData(a, k) = [pieces |-> {Piece("data", k)}, whole |-> TRUE]
    BY <1>1, <1>11, <1>12
  <2> QED BY <2>1, <2>2, <2>3, <2>4, <2>5, <2>6 DEF ReadsBack
<1> QED BY <1>13, <1>14 DEF a

(* What is hashed of an archive are the entries, the strings and the       *)
(* indices, whole, up to and including IDCL.                               *)
THEOREM HashedPieces ==
  ASSUME NEW m \in Seq(ModFile)
  PROVE  LET hashed == GetContainerMaskHash(BuildArchive(m)).hash IN
           /\ hashed.whole
           /\ hashed.pieces = {w.what : w \in Written(m)}
                \ ({Piece("header", 0), Piece("idcl padding", 0)}
                   \cup {Piece("data", k) : k \in DOMAIN m})
<1> DEFINE h == Header(m)
           start(k) == SumTo(Sizes(m), k)
           there == {w \in Written(m) : w.start < start(8) /\ start(1) < w.end}
           rest == {Piece("header", 0), Piece("idcl padding", 0)}
                     \cup {Piece("data", k) : k \in DOMAIN m}
<1>1. /\ start(1) = HeaderSize /\ start(7) = h.idclOffset /\ start(8) = h.idclOffset + 4
      /\ start(9) = h.dataOffset /\ start(0) = 0
      /\ \A k \in 0 .. 9 : start(k) \in Nat
  BY StartFacts
<1>2. MaskEnd(h) = start(8)
  <2>1. h.idclOffset = h.resourceDepsOffset + h.numStringIndices * 8
    BY HeaderFacts
  <2> QED BY <1>1, <2>1 DEF MaskEnd, SizeOfLong
<1>3. ASSUME NEW w \in Written(m)
      PROVE  IF w \in there THEN w.what \notin rest /\ start(1) <= w.start /\ w.end <= start(8)
                            ELSE w.what \in rest
  <2>1. w \in Blocks(m) /\ w.start < w.end
    BY DEF Written
  <2>2. CASE \E k \in 1 .. 9 : w = Fixed(m, k)
    <3>1. PICK k \in 1 .. 9 : w = Fixed(m, k)
      BY <2>2
    <3>2. w.start = start(k - 1) /\ w.end = start(k) /\ w.what = Piece(PartNames[k], 0)
      BY <3>1 DEF Fixed
    <3>3. \A x \in 0 .. 9 : \A y \in x .. 9 :
            start(x) \in Nat /\ start(y) \in Nat /\ start(x) <= start(y)
      <4>1. 9 \in Nat /\ \A j \in 1 .. 9 : Sizes(m)[j] \in Nat
        BY PieceFacts
      <4> QED BY <4>1, SumMonotonic
    <3> HIDE DEF start
    <3>4. CASE k = 1
      <4>1. w.end = start(1) /\ start(1) \in Nat
        BY <3>2, <3>3, <3>4
      <4>2. w \notin there
        BY <4>1
      <4>3. w.what = Piece("header", 0)
        BY <3>2, <3>4 DEF PartNames
      <4> QED BY <4>2, <4>3
    <3>5. CASE k = 9
      <4>1. w.start = start(8) /\ start(8) \in Nat
        BY <3>2, <3>3, <3>5
      <4>2. w \notin there
        BY <4>1
      <4>3. w.what = Piece("idcl padding", 0)
        BY <3>2, <3>5 DEF PartNames
      <4> QED BY <4>2, <4>3
    <3>6. CASE k \in 2 .. 8
      <4>1. 1 \in 0 .. 9 /\ k - 1 \in 1 .. 9 /\ k \in 0 .. 9 /\ 8 \in k .. 9
        BY <3>6
      <4>2. start(1) <= start(k - 1) /\ start(1) \in Nat /\ start(k - 1) \in Nat
        BY <3>3, <4>1
      <4>3. start(k) <= start(8) /\ start(k) \in Nat /\ start(8) \in Nat
        BY <3>3, <4>1
      <4>4. start(1) <= w.start /\ w.end <= start(8)
        BY <3>2, <4>2, <4>3
      <4>5. w.start < start(8) /\ start(1) < w.end
        BY <2>1, <3>2, <4>2, <4>3
      <4>6. w \in there
        BY <4>5
      <4>7. w.what \notin rest
        <5>1. k = 2 \/ k = 3 \/ k = 4 \/ k = 5 \/ k = 6 \/ k = 7 \/ k = 8
          BY <3>6
        <5>2. /\ PartNames[2] = "entries" /\ PartNames[3] = "numStrings"
              /\ PartNames[4] = "offsets" /\ PartNames[5] = "blob" /\ PartNames[6] = "padding"
              /\ PartNames[7] = "stringIndex" /\ PartNames[8] = "IDCL"
          BY DEF PartNames
        <5>3. PartNames[k] \notin {"header", "idcl padding", "data"}
          BY <5>1, <5>2
        <5>4. w.what.part = PartNames[k]
          BY <3>2 DEF Piece
        <5>5. \A x \in rest : x.part \in {"header", "idcl padding", "data"}
          <6>1. \A p, j : Piece(p, j).part = p
            BY DEF Piece
          <6>2. ASSUME NEW x \in rest PROVE \E p \in {"header", "idcl padding", "data"} : \E j : x = Piece(p, j)
            OBVIOUS
          <6> HIDE DEF rest
          <6>3. ASSUME NEW x \in rest PROVE x.part \in {"header", "idcl padding", "data"}
            <7>1. PICK p \in {"header", "idcl padding", "data"} : \E j : x = Piece(p, j)
              BY <6>2
            <7>2. PICK j : x = Piece(p, j)
              BY <7>1
            <7>3. x.part = p
              BY <6>1, <7>2
            <7> QED BY <7>3
          <6> QED BY <6>3
        <5> HIDE DEF rest
        <5> QED BY <5>3, <5>4, <5>5
      <4> QED BY <4>4, <4>6, <4>7
    <3>7. k = 1 \/ k = 9 \/ k \in 2 .. 8
      OBVIOUS
    <3> QED BY <3>4, <3>5, <3>6, <3>7
  <2>3. CASE \E k \in 1 .. Len(m) : w = DataBlock(m, k)
    <3>1. PICK k \in 1 .. Len(m) : w = DataBlock(m, k)
      BY <2>3
    <3>2. w.start \in Nat /\ h.dataOffset <= w.start
      BY <3>1, DataInOrder
    <3>3. w.what = Piece("data", k) /\ k \in DOMAIN m
      BY <3>1 DEF DataBlock
    <3>4. start(8) <= start(9) /\ start(8) \in Nat /\ start(9) \in Nat
      <4>1. h.dataOffset = h.idclOffset + h.idclSize /\ h.idclSize \in {4, 8}
        BY HeaderFacts
      <4>2. start(7) \in Nat /\ start(8) \in Nat /\ start(9) \in Nat
        BY <1>1
      <4> DEFINE x == h.idclOffset
                 y == h.idclSize
      <4>3. x \in Nat /\ y \in {4, 8} /\ start(8) = x + 4 /\ start(9) = x + y
        BY <1>1, <4>1, <4>2
      <4>4. x + 4 <= x + y
        <5> HIDE DEF x, y
        <5> QED BY <4>3
      <4> HIDE DEF start, h, x, y
      <4> QED BY <4>2, <4>3, <4>4
    <3> HIDE DEF start, h
    <3>5. w \notin there
      <4> DEFINE x == w.start
                 y == start(8)
                 z == start(9)
      <4>1. x \in Nat /\ y \in Nat /\ z \in Nat /\ y <= z
        BY <3>2, <3>4
      <4>2. z <= x
        BY <1>1, <3>2
      <4>3. ~(x < y)
        <5> HIDE DEF x, y, z
        <5> QED BY <4>1, <4>2
      <4> QED BY <4>3
    <3>6. w.what \in rest
      BY <3>3
    <3> QED BY <3>5, <3>6
  <2> QED BY <2>1, <2>2, <2>3, BlocksAre
<1>4. start(1) < start(8) => \E w \in Written(m) : start(8) <= w.end
  <2> DEFINE v == Fixed(m, 8)
  <2>1. v \in Blocks(m) /\ v.start = start(7) /\ v.end = start(8)
    BY BlocksAre DEF Fixed
  <2>2. start(7) < start(8) /\ start(8) <= start(8)
    <3>1. start(7) \in Nat /\ start(8) \in Nat
      BY <1>1
    <3> HIDE DEF start, h
    <3> QED BY <1>1, <3>1, SMTT(30)
  <2>3. v \in Written(m)
    BY <2>1, <2>2 DEF Written
  <2> HIDE DEF v, start
  <2> QED BY <2>1, <2>2, <2>3
<1>5. Read(Written(m), start(1), start(8)) = [pieces |-> {w.what : w \in there}, whole |-> TRUE]
  <2>1. start(1) \in Nat /\ start(8) \in Nat
    BY <1>1
  <2>2. there = {w \in Written(m) : w.start < start(8) /\ start(1) < w.end}
    OBVIOUS
  <2>3. \A w \in there : start(1) <= w.start /\ w.end <= start(8)
    BY <1>3
  <2> DEFINE x == start(1)
             y == start(8)
  <2>4. x < y => \E w \in Written(m) : y <= w.end
    BY <1>4
  <2> HIDE DEF x, y, there, rest, start, h
  <2>5. x \in Nat /\ y \in Nat /\ there = {w \in Written(m) : w.start < y /\ x < w.end}
    BY <2>1, <2>2 DEF x, y
  <2>6. \A w \in there : x <= w.start /\ w.end <= y
    BY <2>3 DEF x, y
  <2>7. Read(Written(m), x, y) = [pieces |-> {w.what : w \in there}, whole |-> TRUE]
    BY <2>4, <2>5, <2>6, ReadRange
  <2> QED BY <2>7 DEF x, y
<1>6. {w.what : w \in there} = {w.what : w \in Written(m)} \ rest
  <2>1. there \subseteq Written(m)
    OBVIOUS
  <2> HIDE DEF there, rest, start
  <2> QED BY <1>3, <2>1
<1>7. GetContainerMaskHash(BuildArchive(m)).hash = Read(Written(m), start(1), start(8))
  BY <1>1, <1>2 DEF GetContainerMaskHash, BuildArchive
<1> DEFINE hashed == GetContainerMaskHash(BuildArchive(m)).hash
<1>8. hashed.whole /\ hashed.pieces = {w.what : w \in Written(m)} \ rest
  <2> HIDE DEF there, rest, start, hashed
  <2>1. hashed = [pieces |-> {w.what : w \in there}, whole |-> TRUE]
    BY <1>5, <1>7 DEF hashed
  <2> QED BY <1>6, <2>1
<1> QED BY <1>8

-----------------------------------------------------------------------------
(* Documents, and what they become.                                        *)

IsDocument(s) == s \in Documents /\ RefsResolve(s)

Shift(r) == [r EXCEPT !.file = NextIndex(@)]
Shifted(refs) == [k \in DOMAIN refs |-> Shift(refs[k])]
FirstRef == [file |-> 0, map |-> CommonMap]

InjectedDocument(s) ==
  [files |-> <<NewArchive>> \o s.files,
   mapFileRefs |-> <<FirstRef>> \o Shifted(s.mapFileRefs)]

LEMMA MapFacts ==
  CommonMap \in MapIndices /\ NewArchive \in Files /\ MapIndices = 0 .. NumMaps - 1
BY ConstantsAssumption DEF ConstantsAssumption, CommonMap, MapIndices

LEMMA Prepended ==
  ASSUME NEW S, NEW x \in S, NEW q \in Seq(S)
  PROVE  /\ <<x>> \o q \in Seq(S) /\ Len(<<x>> \o q) = Len(q) + 1
         /\ (<<x>> \o q)[1] = x
         /\ \A k \in 1 .. Len(q) : (<<x>> \o q)[k + 1] = q[k]
OBVIOUS

LEMMA PrependedAppend ==
  ASSUME NEW S, NEW x \in S, NEW q \in Seq(S), NEW y \in S
  PROVE  <<x>> \o Append(q, y) = Append(<<x>> \o q, y)
OBVIOUS

LEMMA DocumentFacts ==
  ASSUME NEW s, IsDocument(s)
  PROVE  /\ s.files \in Seq(Files) /\ s.mapFileRefs \in Seq(Refs)
         /\ Len(s.files) \in Nat /\ Len(s.mapFileRefs) \in Nat
         /\ \A k \in 1 .. Len(s.mapFileRefs) :
              /\ s.mapFileRefs[k] \in Refs
              /\ s.mapFileRefs[k].map \in MapIndices
              /\ s.mapFileRefs[k].file \in Nat
              /\ s.mapFileRefs[k].file + 1 \in 1 .. Len(s.files)
<1>1. s.files \in Seq(Files) /\ s.mapFileRefs \in Seq(Refs)
  BY DEF IsDocument, Documents
<1>2. ASSUME NEW k \in 1 .. Len(s.mapFileRefs)
      PROVE  /\ s.mapFileRefs[k] \in Refs
             /\ s.mapFileRefs[k].map \in MapIndices
             /\ s.mapFileRefs[k].file \in Nat
             /\ s.mapFileRefs[k].file + 1 \in 1 .. Len(s.files)
  <2>1. s.mapFileRefs[k] \in Refs
    BY <1>1
  <2>2. s.mapFileRefs[k].file < Len(s.files)
    BY <1>1 DEF IsDocument, RefsResolve
  <2>3. s.mapFileRefs[k].map \in MapIndices /\ s.mapFileRefs[k].file \in Nat
    BY <2>1 DEF Refs, MapIndices
  <2>4. Len(s.files) \in Nat
    BY <1>1
  <2> QED BY <2>1, <2>2, <2>3, <2>4
<1> QED BY <1>1, <1>2

LEMMA ShiftedFacts ==
  ASSUME NEW refs \in Seq(Refs)
  PROVE  /\ Shifted(refs) \in Seq(Refs) /\ Len(Shifted(refs)) = Len(refs)
         /\ \A k \in 1 .. Len(refs) : /\ Shifted(refs)[k].file = refs[k].file + 1
                                      /\ Shifted(refs)[k].map = refs[k].map
<1>1. ASSUME NEW r \in Refs
      PROVE  Shift(r) \in Refs /\ Shift(r).file = r.file + 1 /\ Shift(r).map = r.map
  BY SMTT(30) DEF Refs, Shift, NextIndex
<1>2. Shifted(refs) \in [1 .. Len(refs) -> Refs]
  BY <1>1 DEF Shifted
<1>3. \A k \in 1 .. Len(refs) : refs[k] \in Refs /\ Shifted(refs)[k] = Shift(refs[k])
  BY DEF Shifted
<1> QED BY <1>1, <1>2, <1>3

LEMMA InjectedFacts ==
  ASSUME NEW s, IsDocument(s)
  PROVE  LET t == InjectedDocument(s) IN
           /\ IsDocument(t)
           /\ Len(t.files) = Len(s.files) + 1
           /\ Len(t.mapFileRefs) = Len(s.mapFileRefs) + 1
           /\ t.files[1] = NewArchive /\ t.mapFileRefs[1] = FirstRef
           /\ \A k \in 1 .. Len(s.files) : t.files[k + 1] = s.files[k]
           /\ \A k \in 1 .. Len(s.mapFileRefs) :
                t.mapFileRefs[k + 1] = Shifted(s.mapFileRefs)[k]
<1> DEFINE t == InjectedDocument(s)
<1>1. /\ s.files \in Seq(Files) /\ s.mapFileRefs \in Seq(Refs)
      /\ Shifted(s.mapFileRefs) \in Seq(Refs)
      /\ Len(Shifted(s.mapFileRefs)) = Len(s.mapFileRefs)
  BY DocumentFacts, ShiftedFacts
<1>2. NewArchive \in Files /\ FirstRef \in Refs
  BY MapFacts DEF FirstRef, Refs
<1>3. t.files = <<NewArchive>> \o s.files /\ t.mapFileRefs = <<FirstRef>> \o Shifted(s.mapFileRefs)
  BY DEF InjectedDocument
<1>4. /\ t.files \in Seq(Files) /\ Len(t.files) = Len(s.files) + 1 /\ t.files[1] = NewArchive
      /\ \A k \in 1 .. Len(s.files) : t.files[k + 1] = s.files[k]
  <2> HIDE DEF t
  <2> QED BY <1>1, <1>2, <1>3, Prepended
<1>5. /\ t.mapFileRefs \in Seq(Refs) /\ Len(t.mapFileRefs) = Len(s.mapFileRefs) + 1
      /\ t.mapFileRefs[1] = FirstRef
      /\ \A k \in 1 .. Len(s.mapFileRefs) : t.mapFileRefs[k + 1] = Shifted(s.mapFileRefs)[k]
  <2> DEFINE q == Shifted(s.mapFileRefs)
  <2> HIDE DEF t, q
  <2>1. q \in Seq(Refs) /\ Len(q) = Len(s.mapFileRefs) /\ t.mapFileRefs = <<FirstRef>> \o q
    BY <1>1, <1>3 DEF q
  <2>2. /\ t.mapFileRefs \in Seq(Refs) /\ Len(t.mapFileRefs) = Len(q) + 1
        /\ t.mapFileRefs[1] = FirstRef
        /\ \A k \in 1 .. Len(q) : t.mapFileRefs[k + 1] = q[k]
    BY <1>2, <2>1, Prepended
  <2> QED BY <2>1, <2>2 DEF q
<1>6. t \in Documents
  BY <1>4, <1>5 DEF Documents, InjectedDocument
<1>7. RefsResolve(t)
  <2>1. DOMAIN t.mapFileRefs = 1 .. Len(s.mapFileRefs) + 1 /\ Len(s.files) \in Nat
        /\ Len(s.mapFileRefs) \in Nat
    BY <1>1, <1>5
  <2>2. ASSUME NEW k \in 1 .. Len(s.mapFileRefs) + 1 PROVE t.mapFileRefs[k].file < Len(s.files) + 1
    <3> HIDE DEF t
    <3>1. CASE k = 1
      BY <1>5, <2>1, <3>1 DEF FirstRef
    <3>2. CASE k # 1
      <4>1. k - 1 \in 1 .. Len(s.mapFileRefs) /\ (k - 1) + 1 = k
        BY <2>1, <3>2
      <4>2. t.mapFileRefs[k] = Shifted(s.mapFileRefs)[k - 1]
        BY <1>5, <4>1
      <4>3. Shifted(s.mapFileRefs)[k - 1].file = s.mapFileRefs[k - 1].file + 1
        BY <1>1, <4>1, ShiftedFacts
      <4>4. s.mapFileRefs[k - 1].file \in Nat /\ s.mapFileRefs[k - 1].file + 1 \in 1 .. Len(s.files)
        BY <4>1, DocumentFacts
      <4> QED BY <2>1, <4>2, <4>3, <4>4, SMTT(30)
    <3> QED BY <3>1, <3>2
  <2> HIDE DEF t
  <2> QED BY <1>4, <2>1, <2>2 DEF RefsResolve
<1> HIDE DEF t
<1> QED BY <1>4, <1>5, <1>6, <1>7 DEF t, IsDocument

-----------------------------------------------------------------------------
(* The archives of each map.                                               *)

LEMMA ArchivesFacts ==
  ASSUME NEW s, IsDocument(s)
  PROVE  LET a == ArchivesAfter(s) IN
           /\ a[0] = [m \in MapIndices |-> <<>>]
           /\ \A k \in 1 .. Len(s.mapFileRefs) :
                a[k] = [a[k - 1] EXCEPT ![s.mapFileRefs[k].map] =
                          Append(@, s.files[s.mapFileRefs[k].file + 1])]
           /\ \A k \in 0 .. Len(s.mapFileRefs) : a[k] \in [MapIndices -> Seq(Files)]
<1> DEFINE n == Len(s.mapFileRefs)
           X == [MapIndices -> Seq(Files)]
           base == [m \in MapIndices |-> <<>>]
           Added(a, k) == [a EXCEPT ![s.mapFileRefs[k].map] =
                             Append(@, s.files[s.mapFileRefs[k].file + 1])]
           Def(f) == [k \in 0 .. n |-> IF k = 0 THEN base ELSE Added(f[k - 1], k)]
           step_ == [k \in 1 .. n |-> [a \in X |-> Added(a, k)]]
           c == CHOOSE g : g = Def(g)
<1>1. n \in Nat /\ base \in X
  BY DocumentFacts
<1>2. ASSUME NEW k \in 1 .. n, NEW a \in X PROVE Added(a, k) \in X
  <2>1. s.mapFileRefs[k].map \in MapIndices /\ s.files \in Seq(Files)
        /\ s.mapFileRefs[k].file + 1 \in 1 .. Len(s.files)
    BY DocumentFacts
  <2>2. s.files[s.mapFileRefs[k].file + 1] \in Files
    BY <2>1
  <2> QED BY <2>1, <2>2
<1>3. PICK f \in [0 .. n -> X] : Follows(f, base, step_, n)
  <2>1. \A k \in 1 .. n : \A a \in X : step_[k][a] \in X
    BY <1>2
  <2> HIDE DEF step_, X, base, n
  <2> QED BY <1>1, <2>1, RecursiveFunction
<1>4. f[0] = base /\ \A k \in 1 .. n : f[k] = Added(f[k - 1], k)
  <2>1. \A k \in 1 .. n : \A a \in X : step_[k][a] = Added(a, k)
    OBVIOUS
  <2>2. \A k \in 1 .. n : f[k - 1] \in X
    <3> HIDE DEF X, n
    <3> QED BY <1>1
  <2> HIDE DEF step_, X, base, n, Added
  <2> QED BY <1>3, <2>1, <2>2 DEF Follows
<1>5. c = Def(c)
  <2> HIDE DEF base, X, n, Added
  <2>1. f = [k \in 0 .. n |-> f[k]]
    OBVIOUS
  <2>2. \A k \in 0 .. n : f[k] = IF k = 0 THEN base ELSE Added(f[k - 1], k)
    BY <1>4
  <2>3. f = Def(f)
    BY <2>1, <2>2
  <2> HIDE DEF Def
  <2> QED BY <2>3
<1>6. ArchivesAfter(s) = c
  BY DEF ArchivesAfter
<1>7. c[0] = base /\ \A k \in 1 .. n : c[k] = Added(c[k - 1], k)
  <2> HIDE DEF c, base, n, Added
  <2>1. c[0] = base
    BY <1>1, <1>5
  <2>2. ASSUME NEW k \in 1 .. n PROVE c[k] = Added(c[k - 1], k)
    BY <1>1, <1>5
  <2> QED BY <2>1, <2>2
<1>8. Agree(c, f, n)
  <2> HIDE DEF c, base, n, Added
  <2>1. c[0] = f[0] /\ \A k \in 1 .. n : c[k - 1] = f[k - 1] => c[k] = f[k]
    BY <1>4, <1>7
  <2> QED BY <1>1, <2>1, AgreeUpTo
<1>9. \A k \in 0 .. n : c[k] \in X
  <2> HIDE DEF c, X
  <2> QED BY <1>8 DEF Agree
<1> HIDE DEF c
<1> QED BY <1>6, <1>7, <1>9

(* Every map keeps its archives, and common gains one in front.            *)
LEMMA InjectedArchives ==
  ASSUME NEW s, IsDocument(s)
  PROVE  /\ ArchivesOf(s) \in [MapIndices -> Seq(Files)]
         /\ ArchivesOf(InjectedDocument(s))
              = [ArchivesOf(s) EXCEPT ![CommonMap] = <<NewArchive>> \o @]
<1> DEFINE t == InjectedDocument(s)
           n == Len(s.mapFileRefs)
           a == ArchivesAfter(s)
           b == ArchivesAfter(t)
           With(x) == [x EXCEPT ![CommonMap] = <<NewArchive>> \o @]
           X == [MapIndices -> Seq(Files)]
           T == {k \in Nat : k <= n => b[k + 1] = With(a[k])}
<1>1. /\ n \in Nat /\ IsDocument(t) /\ Len(t.mapFileRefs) = n + 1
      /\ t.files[1] = NewArchive /\ t.mapFileRefs[1] = FirstRef
  BY DocumentFacts, InjectedFacts
<1>2. /\ a[0] = [m \in MapIndices |-> <<>>]
      /\ \A k \in 1 .. n : a[k] = [a[k - 1] EXCEPT ![s.mapFileRefs[k].map] =
                                     Append(@, s.files[s.mapFileRefs[k].file + 1])]
      /\ \A k \in 0 .. n : a[k] \in X
  BY ArchivesFacts
<1>3. /\ b[0] = [m \in MapIndices |-> <<>>]
      /\ \A k \in 1 .. n + 1 : b[k] = [b[k - 1] EXCEPT ![t.mapFileRefs[k].map] =
                                     Append(@, t.files[t.mapFileRefs[k].file + 1])]
  <2> HIDE DEF t
  <2> QED BY <1>1, ArchivesFacts
<1>4. CommonMap \in MapIndices /\ NewArchive \in Files
  BY MapFacts
<1> HIDE DEF a, b, t
<1>5. 0 \in T
  <2>1. 1 \in 1 .. n + 1 /\ 1 - 1 = 0 /\ 0 + 1 = 1
    BY <1>1
  <2>2. b[1] = [b[0] EXCEPT ![CommonMap] = Append(@, NewArchive)]
    <3>1. t.mapFileRefs[1].map = CommonMap /\ t.files[t.mapFileRefs[1].file + 1] = NewArchive
      BY <1>1 DEF FirstRef
    <3> QED BY <1>3, <2>1, <3>1
  <2>3. Append(<<>>, NewArchive) = <<NewArchive>> \o <<>>
    OBVIOUS
  <2>4. b[0 + 1] = With(a[0])
    BY <1>2, <1>3, <1>4, <2>1, <2>2, <2>3
  <2> QED BY <2>4
<1>6. ASSUME NEW k \in Nat, k \in T PROVE k + 1 \in T
  <2>1. SUFFICES ASSUME k + 1 <= n PROVE b[(k + 1) + 1] = With(a[k + 1])
    OBVIOUS
  <2>2. /\ k + 1 \in 1 .. n /\ (k + 1) - 1 = k /\ (k + 1) + 1 \in 1 .. n + 1
        /\ ((k + 1) + 1) - 1 = k + 1 /\ k \in 0 .. n /\ k <= n
    BY <1>1, <2>1
  <2> DEFINE r == s.mapFileRefs[k + 1]
             u == t.mapFileRefs[(k + 1) + 1]
             f == s.files[r.file + 1]
  <2>3. u.map = r.map /\ u.file = r.file + 1
    <3>1. u = Shifted(s.mapFileRefs)[k + 1]
      BY <2>2, InjectedFacts DEF t
    <3>2. s.mapFileRefs \in Seq(Refs)
      BY DocumentFacts
    <3> QED BY <2>2, <3>1, <3>2, ShiftedFacts
  <2>4. /\ r.map \in MapIndices /\ r.file \in Nat /\ r.file + 1 \in 1 .. Len(s.files)
        /\ s.files \in Seq(Files)
    BY <2>2, DocumentFacts
  <2>5. t.files[u.file + 1] = f
    <3> DEFINE j == r.file + 1
    <3>1. \A x \in 1 .. Len(s.files) : t.files[x + 1] = s.files[x]
      BY InjectedFacts DEF t
    <3>2. u.file + 1 = j + 1
      BY <2>3
    <3> HIDE DEF u, r
    <3> QED BY <2>4, <3>1, <3>2
  <2>6. f \in Files
    BY <2>4
  <2>7. a[k + 1] = [a[k] EXCEPT ![r.map] = Append(@, f)]
    BY <1>2, <2>2
  <2>8. b[(k + 1) + 1] = [b[k + 1] EXCEPT ![r.map] = Append(@, f)]
    BY <1>3, <2>2, <2>3, <2>5
  <2>9. b[k + 1] = With(a[k]) /\ a[k] \in X
    BY <1>2, <1>6, <2>2
  <2> HIDE DEF r, f, u
  <2>10. ASSUME NEW x \in X
         PROVE  [With(x) EXCEPT ![r.map] = Append(@, f)] = With([x EXCEPT ![r.map] = Append(@, f)])
    <3>1. CASE r.map = CommonMap
      <4>1. <<NewArchive>> \o Append(x[CommonMap], f) = Append(<<NewArchive>> \o x[CommonMap], f)
        <5>1. x[CommonMap] \in Seq(Files)
          BY <1>4
        <5> QED BY <1>4, <2>6, <5>1, PrependedAppend
      <4> QED BY <1>4, <3>1, <4>1
    <3>2. CASE r.map # CommonMap
      BY <1>4, <2>4, <3>2
    <3> QED BY <3>1, <3>2
  <2> HIDE DEF X, With
  <2> QED BY <2>7, <2>8, <2>9, <2>10
<1>7. n \in T
  <2> HIDE DEF T
  <2>1. Nat \subseteq T
    BY <1>5, <1>6, SetInduction
  <2> QED BY <1>1, <2>1
<1>8. b[n + 1] = With(a[n]) /\ n \in 0 .. n
  <2>1. n <= n /\ n \in 0 .. n
    BY <1>1
  <2> HIDE DEF With
  <2> QED BY <1>7, <2>1
<1>9. ArchivesOf(s) = a[n] /\ ArchivesOf(t) = b[n + 1]
  BY <1>1 DEF ArchivesOf, a, b
<1> HIDE DEF n
<1> QED BY <1>2, <1>8, <1>9 DEF t

-----------------------------------------------------------------------------
(* The priorities.                                                         *)

LEMMA ListFacts ==
  ASSUME NEW files \in Seq(Files), NEW mods
  PROVE  LET a == ListAfter(files, mods) IN
           /\ a[0] = <<>>
           /\ \A k \in 1 .. Len(files) :
                a[k] = IF IsListed(files[k], mods) THEN Append(a[k - 1], files[k]) ELSE a[k - 1]
           /\ \A k \in 0 .. Len(files) : a[k] \in Seq(Files)
<1> DEFINE n == Len(files)
           X == Seq(Files)
           Added(a, k) == IF IsListed(files[k], mods) THEN Append(a, files[k]) ELSE a
           Def(f) == [k \in 0 .. n |-> IF k = 0 THEN <<>> ELSE Added(f[k - 1], k)]
           step_ == [k \in 1 .. n |-> [a \in X |-> Added(a, k)]]
           c == CHOOSE g : g = Def(g)
<1>1. n \in Nat /\ <<>> \in X
  OBVIOUS
<1>2. ASSUME NEW k \in 1 .. n, NEW a \in X PROVE Added(a, k) \in X
  <2>1. files[k] \in Files
    OBVIOUS
  <2> QED BY <2>1
<1>3. PICK f \in [0 .. n -> X] : Follows(f, <<>>, step_, n)
  <2>1. \A k \in 1 .. n : \A a \in X : step_[k][a] \in X
    BY <1>2
  <2> HIDE DEF step_, X, n
  <2> QED BY <1>1, <2>1, RecursiveFunction
<1>4. f[0] = <<>> /\ \A k \in 1 .. n : f[k] = Added(f[k - 1], k)
  <2>1. \A k \in 1 .. n : \A a \in X : step_[k][a] = Added(a, k)
    OBVIOUS
  <2>2. \A k \in 1 .. n : f[k - 1] \in X
    <3> HIDE DEF X, n
    <3> QED BY <1>1
  <2> HIDE DEF step_, X, n, Added
  <2> QED BY <1>3, <2>1, <2>2 DEF Follows
<1>5. c = Def(c)
  <2> HIDE DEF X, n, Added
  <2>1. f = [k \in 0 .. n |-> f[k]]
    OBVIOUS
  <2>2. \A k \in 0 .. n : f[k] = IF k = 0 THEN <<>> ELSE Added(f[k - 1], k)
    BY <1>4
  <2>3. f = Def(f)
    BY <2>1, <2>2
  <2> HIDE DEF Def
  <2> QED BY <2>3
<1>6. ListAfter(files, mods) = c
  BY DEF ListAfter
<1>7. c[0] = <<>> /\ \A k \in 1 .. n : c[k] = Added(c[k - 1], k)
  <2> HIDE DEF c, n, Added
  <2>1. c[0] = <<>>
    BY <1>1, <1>5
  <2>2. ASSUME NEW k \in 1 .. n PROVE c[k] = Added(c[k - 1], k)
    BY <1>1, <1>5
  <2> QED BY <2>1, <2>2
<1>8. Agree(c, f, n)
  <2> HIDE DEF c, n, Added
  <2>1. c[0] = f[0] /\ \A k \in 1 .. n : c[k - 1] = f[k - 1] => c[k] = f[k]
    BY <1>4, <1>7
  <2> QED BY <1>1, <2>1, AgreeUpTo
<1>9. \A k \in 0 .. n : c[k] \in X
  <2> HIDE DEF c, X
  <2> QED BY <1>8 DEF Agree
<1> HIDE DEF c
<1> QED BY <1>6, <1>7, <1>9

(* What is inserted in front comes first in the list, if it is listed.     *)
LEMMA InjectedPriority ==
  ASSUME NEW s, IsDocument(s), NEW mods
  PROVE  GetPrioritizedArchiveList(InjectedDocument(s), mods)
           = IF IsListed(NewArchive, mods)
               THEN <<NewArchive>> \o GetPrioritizedArchiveList(s, mods)
               ELSE GetPrioritizedArchiveList(s, mods)
<1> DEFINE t == InjectedDocument(s)
           n == Len(s.files)
           a == ListAfter(s.files, mods)
           b == ListAfter(t.files, mods)
           first == IsListed(NewArchive, mods)
           With(q) == IF first THEN <<NewArchive>> \o q ELSE q
           T == {k \in Nat : k <= n => b[k + 1] = With(a[k])}
<1>1. /\ n \in Nat /\ s.files \in Seq(Files) /\ t.files \in Seq(Files) /\ Len(t.files) = n + 1
      /\ t.files[1] = NewArchive
      /\ \A k \in 1 .. n : t.files[k + 1] = s.files[k]
      /\ NewArchive \in Files
  BY DocumentFacts, InjectedFacts, MapFacts
<1>2. /\ a[0] = <<>>
      /\ \A k \in 1 .. n :
           a[k] = IF IsListed(s.files[k], mods) THEN Append(a[k - 1], s.files[k]) ELSE a[k - 1]
      /\ \A k \in 0 .. n : a[k] \in Seq(Files)
  BY <1>1, ListFacts
<1>3. /\ b[0] = <<>>
      /\ \A k \in 1 .. n + 1 :
           b[k] = IF IsListed(t.files[k], mods) THEN Append(b[k - 1], t.files[k]) ELSE b[k - 1]
  <2> HIDE DEF t
  <2> QED BY <1>1, ListFacts
<1> HIDE DEF a, b, t, first
<1>4. 0 \in T
  <2>1. 1 \in 1 .. n + 1 /\ 1 - 1 = 0 /\ 0 + 1 = 1
    BY <1>1
  <2>2. b[1] = IF first THEN Append(<<>>, NewArchive) ELSE <<>>
    BY <1>1, <1>3, <2>1 DEF first
  <2>3. Append(<<>>, NewArchive) = <<NewArchive>> \o <<>>
    OBVIOUS
  <2>4. b[0 + 1] = With(a[0])
    BY <1>2, <2>1, <2>2, <2>3
  <2> QED BY <2>4
<1>5. ASSUME NEW k \in Nat, k \in T PROVE k + 1 \in T
  <2>1. SUFFICES ASSUME k + 1 <= n PROVE b[(k + 1) + 1] = With(a[k + 1])
    OBVIOUS
  <2>2. /\ k + 1 \in 1 .. n /\ (k + 1) - 1 = k /\ (k + 1) + 1 \in 1 .. n + 1
        /\ ((k + 1) + 1) - 1 = k + 1 /\ k \in 0 .. n /\ k <= n
    BY <1>1, <2>1
  <2> DEFINE f == s.files[k + 1]
  <2>3. t.files[(k + 1) + 1] = f /\ f \in Files
    BY <1>1, <2>2
  <2>4. a[k + 1] = IF IsListed(f, mods) THEN Append(a[k], f) ELSE a[k]
    BY <1>2, <2>2
  <2>5. b[(k + 1) + 1] = IF IsListed(f, mods) THEN Append(b[k + 1], f) ELSE b[k + 1]
    BY <1>3, <2>2, <2>3
  <2>6. b[k + 1] = With(a[k]) /\ a[k] \in Seq(Files)
    BY <1>2, <1>5, <2>2
  <2>7. <<NewArchive>> \o Append(a[k], f) = Append(<<NewArchive>> \o a[k], f)
    <3>1. NewArchive \in Files /\ f \in Files /\ a[k] \in Seq(Files)
      BY <1>1, <2>3, <2>6
    <3> HIDE DEF f
    <3> QED BY <3>1, PrependedAppend
  <2> HIDE DEF f
  <2> QED BY <2>4, <2>5, <2>6, <2>7
<1>6. n \in T
  <2> HIDE DEF T
  <2>1. Nat \subseteq T
    BY <1>4, <1>5, SetInduction
  <2> QED BY <1>1, <2>1
<1>7. b[n + 1] = With(a[n])
  <2>1. n <= n
    BY <1>1
  <2> HIDE DEF With
  <2> QED BY <1>6, <2>1
<1>8. GetPrioritizedArchiveList(s, mods) = a[n] /\ GetPrioritizedArchiveList(t, mods) = b[n + 1]
  BY <1>1 DEF GetPrioritizedArchiveList, a, b
<1> HIDE DEF n
<1> QED BY <1>7, <1>8 DEF t, first

-----------------------------------------------------------------------------
(* The commas.                                                             *)

(* One flag for each of n elements but the last, another for the last.     *)
Marked(n, yes, no) == [k \in 1 .. n |-> IF k < n THEN yes ELSE no]

Alike(n, yes) == [k \in 1 .. n |-> yes]
Ended(q, flag) == [k \in 1 .. Len(q) |-> IF k = Len(q) THEN flag ELSE q[k]]

Separate(flags, n) == flags = Marked(n, TRUE, FALSE)

LEMMA LastHasFacts ==
  ASSUME NEW S, NEW q \in Seq(S), NEW flag \in S
  PROVE  /\ LastHas(q, flag) \in Seq(S)
         /\ LastHas(q, flag) = Ended(q, flag)
<1>1. CASE q = <<>>
  <2>1. LastHas(q, flag) = <<>> /\ Len(q) = 0 /\ 1 .. 0 = {}
    BY <1>1 DEF LastHas
  <2>2. LastHas(q, flag) \in Seq(S)
    BY <2>1
  <2>3. <<>> = [k \in 1 .. 0 |-> IF k = Len(q) THEN flag ELSE q[k]]
    OBVIOUS
  <2> QED BY <2>1, <2>2, <2>3 DEF Ended
<1>2. CASE q # <<>>
  <2> DEFINE n == Len(q)
             r == [k \in 1 .. n |-> IF k = n THEN flag ELSE q[k]]
  <2>1. n \in Nat /\ n \in 1 .. n /\ q \in [1 .. n -> S]
    BY <1>2
  <2>2. LastHas(q, flag) = [q EXCEPT ![n] = flag]
    BY <1>2 DEF LastHas
  <2> HIDE DEF n
  <2>3. [q EXCEPT ![n] = flag] = r
    BY <2>1
  <2>4. r \in [1 .. n -> S]
    BY <2>1
  <2>5. r \in Seq(S)
    <3> HIDE DEF r
    <3> QED BY <2>1, <2>4
  <2> QED BY <2>2, <2>3, <2>5 DEF n, Ended
<1> QED BY <1>1, <1>2

LEMMA MarkedAlike ==
  ASSUME NEW S, NEW yes \in S, NEW no \in S, NEW n \in Nat, NEW q \in Seq(S), Len(q) = n,
         \A k \in 1 .. n : q[k] = yes
  PROVE  LastHas(q, no) = Marked(n, yes, no)
<1>1. LastHas(q, no) = [k \in 1 .. n |-> IF k = n THEN no ELSE q[k]]
  <2>1. LastHas(q, no) = Ended(q, no)
    BY LastHasFacts
  <2> QED BY <2>1 DEF Ended
<1>2. \A k \in 1 .. n : (IF k = n THEN no ELSE q[k]) = IF k < n THEN yes ELSE no
  OBVIOUS
<1> QED BY <1>1, <1>2 DEF Marked

LEMMA MarkedLast ==
  ASSUME NEW S, NEW yes \in S, NEW no \in S, NEW n \in Nat
  PROVE  /\ LastHas(Marked(n, yes, no), yes) \in Seq(S)
         /\ LastHas(Marked(n, yes, no), yes) = Alike(n, yes)
<1> DEFINE q == Marked(n, yes, no)
<1>1. q \in [1 .. n -> S] /\ \A k \in 1 .. n : k # n => q[k] = yes
  BY DEF Marked
<1> HIDE DEF q
<1>2. q \in Seq(S) /\ Len(q) = n
  BY <1>1
<1>3. LastHas(q, yes) \in Seq(S)
      /\ LastHas(q, yes) = [k \in 1 .. n |-> IF k = n THEN yes ELSE q[k]]
  <2>1. LastHas(q, yes) \in Seq(S) /\ LastHas(q, yes) = Ended(q, yes)
    BY <1>2, LastHasFacts
  <2> QED BY <1>2, <2>1 DEF Ended
<1>4. \A k \in 1 .. n : (IF k = n THEN yes ELSE q[k]) = yes
  BY <1>1
<1> QED BY <1>3, <1>4 DEF q, Alike

LEMMA MarkedPrepended ==
  ASSUME NEW S, NEW yes \in S, NEW no \in S, NEW n \in Nat
  PROVE  LastHas(LastHas(Marked(1, yes, no), yes) \o LastHas(Marked(n, yes, no), yes), no)
           = Marked(n + 1, yes, no)
<1> DEFINE first == LastHas(Marked(1, yes, no), yes)
           rest == LastHas(Marked(n, yes, no), yes)
           all == first \o rest
<1>1. first \in Seq(S) /\ first = Alike(1, yes)
  <2>1. 1 \in Nat
    OBVIOUS
  <2> QED BY <2>1, MarkedLast
<1>2. rest \in Seq(S) /\ rest = Alike(n, yes)
  BY MarkedLast
<1> HIDE DEF first, rest
<1>3. Len(first) = 1 /\ first[1] = yes
  BY <1>1 DEF Alike
<1>4. Len(rest) = n /\ \A k \in 1 .. n : rest[k] = yes
  BY <1>2 DEF Alike
<1>5. all \in Seq(S) /\ Len(all) = n + 1
  <2>1. first \in Seq(S) /\ rest \in Seq(S)
    BY <1>1, <1>2
  <2>2. all \in Seq(S) /\ Len(all) = Len(first) + Len(rest)
    BY <2>1
  <2> QED BY <1>3, <1>4, <2>2
<1>6. ASSUME NEW k \in 1 .. n + 1 PROVE all[k] = yes
  <2>0. first \in Seq(S) /\ rest \in Seq(S)
    BY <1>1, <1>2
  <2>1. CASE k = 1
    BY <1>3, <1>4, <2>0, <2>1
  <2>2. CASE k # 1
    <3>1. k \in 1 .. Len(first) + Len(rest) /\ ~(k <= Len(first)) /\ k - 1 \in 1 .. n
      BY <1>3, <1>4, <2>2
    <3>2. all[k] = rest[k - Len(first)]
      <4> HIDE DEF all
      <4>1. \A x, y \in Seq(S) : \A j \in 1 .. Len(x) + Len(y) :
              ~(j <= Len(x)) => (x \o y)[j] = y[j - Len(x)]
        OBVIOUS
      <4> QED BY <2>0, <3>1, <4>1 DEF all
    <3> QED BY <1>3, <1>4, <3>1, <3>2
  <2> QED BY <2>1, <2>2
<1> HIDE DEF all
<1>7. n + 1 \in Nat
  OBVIOUS
<1>8. LastHas(all, no) = Marked(n + 1, yes, no)
  BY <1>5, <1>6, <1>7, MarkedAlike
<1> QED BY <1>8 DEF all, first, rest

LEMMA ParsedCommas ==
  ASSUME NEW n \in Nat
  PROVE  Separate(parseJsonArray(n), n)
<1>1. ASSUME NEW S, NEW yes \in S, NEW no \in S PROVE LastHas(Alike(n, yes), no) = Marked(n, yes, no)
  <2>1. Alike(n, yes) \in Seq(S) /\ Len(Alike(n, yes)) = n
        /\ \A k \in 1 .. n : Alike(n, yes)[k] = yes
    BY DEF Alike
  <2> QED BY <2>1, MarkedAlike
<1>2. TRUE \in BOOLEAN /\ FALSE \in BOOLEAN
  OBVIOUS
<1>3. LastHas(Alike(n, TRUE), FALSE) = Marked(n, TRUE, FALSE)
  BY <1>1, <1>2, Zenon
<1> QED BY <1>3, Zenon DEF Separate, parseJsonArray, Alike

LEMMA EditedCommas ==
  ASSUME NEW n \in Nat, NEW old, Separate(old, n)
  PROVE  Separate(EditTreeCommas(old), n + 1)
<1>1. parseJsonArray(1) = Marked(1, TRUE, FALSE)
  BY ParsedCommas DEF Separate
<1>2. TRUE \in BOOLEAN /\ FALSE \in BOOLEAN
  OBVIOUS
<1>3. LastHas(LastHas(Marked(1, TRUE, FALSE), TRUE) \o LastHas(Marked(n, TRUE, FALSE), TRUE), FALSE)
        = Marked(n + 1, TRUE, FALSE)
  BY <1>2, MarkedPrepended, Zenon
<1> QED BY <1>1, <1>3, Zenon DEF Separate, EditTreeCommas

-----------------------------------------------------------------------------
(* Numbers of chunks, of longs and of bytes.                               *)

LEMMA Division ==
  ASSUME NEW a \in Nat, NEW d \in Nat \ {0}
  PROVE  /\ a \div d \in Nat
         /\ (a \div d) * d <= a /\ a < (a \div d) * d + d
         /\ a % d = 0 => a = (a \div d) * d
<1>1. a \div d \in Nat /\ a % d \in 0 .. d - 1 /\ a = d * (a \div d) + (a % d)
  OBVIOUS
<1>2. \A x, y \in Int : x * y = y * x
  OBVIOUS
<1>3. d * (a \div d) = (a \div d) * d /\ (a \div d) * d \in Nat
  BY <1>1, <1>2
<1> DEFINE q == (a \div d) * d
           r == a % d
<1>4. q \in Nat /\ r \in 0 .. d - 1 /\ a = q + r
  BY <1>1, <1>3
<1> HIDE DEF q, r
<1>5. q <= a /\ a < q + d /\ (r = 0 => a = q)
  BY <1>4
<1> QED BY <1>1, <1>5 DEF q, r

LEMMA DescribedAsIs ==
  ASSUME NEW size \in Nat, NEW chunk \in Nat \ {0}
  PROVE  Describes(Described(size, chunk), size)
<1> DEFINE n == NumHashes(size, chunk)
           q == n * chunk
<1>1. n \in Nat /\ q <= size + chunk - 1 /\ size + chunk - 1 < q + chunk
  <2>1. size + chunk - 1 \in Nat
    OBVIOUS
  <2> QED BY <2>1, Division DEF NumHashes
<1> HIDE DEF n
<1>2. q \in Nat /\ (n - 1) * chunk = q - chunk
  BY <1>1
<1> HIDE DEF q
<1>3. size <= q /\ q - chunk < size
  BY <1>1, <1>2
<1> QED BY <1>2, <1>3 DEF Describes, Described, n, q

LEMMA EnoughLongs ==
  ASSUME NEW n \in Nat
  PROVE  bitmasklongs(n) \in Nat /\ bitmasklongs(n) * LongBits >= n
<1> DEFINE d == LongBits
           q == n \div d
           x == bitmasklongs(n)
<1>1. d \in Nat \ {0}
  BY InjectionAssumption DEF InjectionAssumption
<1>2. q \in Nat /\ n < q * d + d
  BY <1>1, Division
<1>3. x \in {q + 1, q + 2}
  <2>1. x = q + (IF n % d = 0 THEN 0 ELSE 1) + 1
    BY DEF bitmasklongs
  <2> HIDE DEF x, q
  <2> QED BY <1>2, <2>1
<1> HIDE DEF d, q, x
<1>4. q * d \in Nat /\ (q + 1) * d = q * d + d /\ (q + 2) * d = q * d + d + d
  BY <1>1, <1>2
<1>5. x \in Nat /\ x * d >= n
  <2>1. CASE x = q + 1
    BY <1>1, <1>2, <1>4, <2>1
  <2>2. CASE x = q + 2
    BY <1>1, <1>2, <1>4, <2>2
  <2> QED BY <1>3, <2>1, <2>2
<1> QED BY <1>5 DEF x, d

(* The entries a mask may have.                                            *)
MaskEntry ==
  [at : Nat,
   hash : Hashes \cup {Garbage} \cup {GetContainerMaskHash(BuildArchive(s)).hash : s \in SuperMods},
   longs : Nat]

(* RebuildContainerMask makes room for an entry as large as the reader     *)
(* takes it to be.                                                         *)
LEMMA EntryFits ==
  ASSUME NEW at \in Nat, NEW longs \in Nat, NEW entry, entry.at = at, entry.longs = longs
  PROVE  extraSize(longs) \in Nat /\ EndOf(entry) = at + extraSize(longs) /\ EndOf(entry) \in Nat
BY DEF extraSize, EndOf, SizeOfLong

(* A table with one more entry.                                            *)
LEMMA OneMoreEntry ==
  ASSUME NEW S, NEW t \in Seq(S), NEW entry \in S
  PROVE  LET u == Append(t, entry)
             n == Len(t)
         IN  /\ n \in Nat /\ u \in Seq(S) /\ Len(u) = n + 1 /\ u[n + 1] = entry
             /\ DOMAIN u = 1 .. n + 1 /\ DOMAIN t = 1 .. n
             /\ \A k \in 1 .. n : u[k] = t[k]
OBVIOUS

(* If a mask is read to its end, so is the one with an entry more, put     *)
(* where that one ended, and counted.                                      *)
LEMMA StillReadToItsEnd ==
  ASSUME NEW c \in Nat, NEW n \in Nat, NEW mask, NEW u, NEW entry,
         DOMAIN mask.table = 1 .. n, DOMAIN u.table = 1 .. n + 1,
         Len(mask.table) = n, Len(u.table) = n + 1,
         \A k \in 1 .. n : u.table[k] = mask.table[k],
         u.table[n + 1] = entry, entry.at = mask.size, u.size = EndOf(entry),
         u.counters[c] = mask.counters[c] + 1,
         ReadToItsEnd(mask, c)
  PROVE  ReadToItsEnd(u, c)
<1>1. /\ mask.counters[c] = n
      /\ mask.size = EndOfFirst(mask, n, c)
      /\ \A k \in 1 .. n : mask.table[k].at = EndOfFirst(mask, k - 1, c)
  BY DEF ReadToItsEnd
<1>2. \A k \in 0 .. n : EndOfFirst(u, k, c) = EndOfFirst(mask, k, c)
  <2>1. ASSUME NEW k \in 0 .. n PROVE EndOfFirst(u, k, c) = EndOfFirst(mask, k, c)
    <3>1. k = 0 \/ k \in 1 .. n
      OBVIOUS
    <3> QED BY <3>1 DEF EndOfFirst
  <2> QED BY <2>1
<1>3. EndOfFirst(u, n + 1, c) = EndOf(entry)
  BY DEF EndOfFirst
<1>4. ASSUME NEW k \in 1 .. n + 1 PROVE u.table[k].at = EndOfFirst(u, k - 1, c)
  <2>1. CASE k = n + 1
    <3>1. k - 1 = n /\ n \in 0 .. n
      BY <2>1
    <3> QED BY <1>1, <1>2, <2>1, <3>1
  <2>2. CASE k # n + 1
    <3>1. k \in 1 .. n /\ k - 1 \in 0 .. n
      BY <2>2
    <3> QED BY <1>1, <1>2, <3>1
  <2> QED BY <2>1, <2>2
<1>5. u.counters[c] = n + 1 /\ u.size = EndOfFirst(u, n + 1, c)
  BY <1>1, <1>3
<1> QED BY <1>4, <1>5 DEF ReadToItsEnd

-----------------------------------------------------------------------------
(* The edited document, step by step.                                      *)

PartlyShifted(refs, n) == [k \in DOMAIN refs |-> IF k <= n THEN Shift(refs[k]) ELSE refs[k]]

CommasAre(m, n) == Separate(commas.files, m) /\ Separate(commas.mapFileRefs, n)

DocInv ==
  /\ TypeOK
  /\ RefsResolve(pms)
  /\ DOMAIN commas = {"files", "mapFileRefs"}
  /\ step = "parse" => i = 0
  /\ step = "files" => /\ parsed = pms
                       /\ CommasAre(Len(pms.files), Len(pms.mapFileRefs))
  /\ step = "increment" =>
       /\ parsed = [files |-> <<NewArchive>> \o pms.files,
                    mapFileRefs |-> PartlyShifted(pms.mapFileRefs, i)]
       /\ CommasAre(Len(pms.files) + 1, Len(pms.mapFileRefs))
  /\ step = "refs" =>
       /\ parsed = [files |-> <<NewArchive>> \o pms.files,
                    mapFileRefs |-> Shifted(pms.mapFileRefs)]
       /\ CommasAre(Len(pms.files) + 1, Len(pms.mapFileRefs))
  /\ step = "write" => parsed = InjectedDocument(pms)
  /\ step \in {"write", "injected"} => CommasAre(Len(parsed.files), Len(parsed.mapFileRefs))

LEMMA PartlyFacts ==
  ASSUME NEW refs \in Seq(Refs), NEW n \in Nat
  PROVE  /\ PartlyShifted(refs, n) \in Seq(Refs) /\ Len(PartlyShifted(refs, n)) = Len(refs)
         /\ PartlyShifted(refs, 0) = refs
         /\ PartlyShifted(refs, Len(refs)) = Shifted(refs)
         /\ n < Len(refs) =>
              /\ n + 1 \in 1 .. Len(refs) /\ PartlyShifted(refs, n)[n + 1] = refs[n + 1]
              /\ PartlyShifted(refs, n + 1)
                   = [PartlyShifted(refs, n) EXCEPT ![n + 1].file = NextIndex(@)]
<1>1. \A r \in Refs : Shift(r) \in Refs
  BY DEF Refs, Shift, NextIndex
<1>2. \A k \in 1 .. Len(refs) : refs[k] \in Refs
  OBVIOUS
<1>3. PartlyShifted(refs, n) \in [1 .. Len(refs) -> Refs]
  BY <1>1, <1>2 DEF PartlyShifted
<1>4. PartlyShifted(refs, n) \in Seq(Refs) /\ Len(PartlyShifted(refs, n)) = Len(refs)
  BY <1>3
<1>5. PartlyShifted(refs, 0) = refs
  BY DEF PartlyShifted
<1>6. PartlyShifted(refs, Len(refs)) = Shifted(refs)
  BY DEF PartlyShifted, Shifted
<1>7. ASSUME n < Len(refs)
      PROVE  /\ n + 1 \in 1 .. Len(refs) /\ PartlyShifted(refs, n)[n + 1] = refs[n + 1]
             /\ PartlyShifted(refs, n + 1)
                  = [PartlyShifted(refs, n) EXCEPT ![n + 1].file = NextIndex(@)]
  <2> DEFINE p == PartlyShifted(refs, n)
  <2>1. n + 1 \in 1 .. Len(refs)
    BY <1>7
  <2>2. p[n + 1] = refs[n + 1]
    BY <2>1 DEF PartlyShifted
  <2>3. [p EXCEPT ![n + 1].file = NextIndex(@)] = [p EXCEPT ![n + 1] = Shift(refs[n + 1])]
    <3> HIDE DEF p
    <3> QED BY <2>2 DEF Shift
  <2>4. [p EXCEPT ![n + 1] = Shift(refs[n + 1])] = PartlyShifted(refs, n + 1)
    <3>1. \A k \in 1 .. Len(refs) :
            (IF k = n + 1 THEN Shift(refs[n + 1]) ELSE p[k])
              = IF k <= n + 1 THEN Shift(refs[k]) ELSE refs[k]
      BY DEF PartlyShifted
    <3>2. p \in [1 .. Len(refs) -> Refs]
      BY <1>3
    <3>3. PartlyShifted(refs, n + 1)
            = [k \in 1 .. Len(refs) |-> IF k <= n + 1 THEN Shift(refs[k]) ELSE refs[k]]
      BY DEF PartlyShifted
    <3> HIDE DEF p
    <3> QED BY <3>1, <3>2, <3>3
  <2> QED BY <2>1, <2>2, <2>3, <2>4
<1> QED BY <1>4, <1>5, <1>6, <1>7

LEMMA DocInit == Init => DocInv
<1> SUFFICES ASSUME Init PROVE DocInv
  OBVIOUS
<1>1. pms \in Documents /\ RefsResolve(pms) /\ parsed = pms /\ step = "parse" /\ i = 0
  BY ConstantsAssumption DEF Init, ConstantsAssumption
<1>2. DOMAIN commas = {"files", "mapFileRefs"}
  BY DEF Init
<1>3. Len(pms.mapFileRefs) \in Nat
  BY <1>1 DEF Documents
<1> QED BY <1>1, <1>2, <1>3 DEF DocInv, TypeOK

LEMMA DocNext == DocInv /\ [Next]_vars => DocInv'
<1> SUFFICES ASSUME DocInv, [Next]_vars PROVE DocInv'
  OBVIOUS
<1> DEFINE m == Len(pms.files)
           n == Len(pms.mapFileRefs)
<1>1. /\ pms \in Documents /\ parsed \in Documents /\ RefsResolve(pms) /\ IsDocument(pms)
      /\ i \in 0 .. Len(parsed.mapFileRefs)
      /\ DOMAIN commas = {"files", "mapFileRefs"}
  BY DEF DocInv, TypeOK, IsDocument
<1>2. /\ pms.files \in Seq(Files) /\ pms.mapFileRefs \in Seq(Refs) /\ m \in Nat /\ n \in Nat
      /\ NewArchive \in Files /\ FirstRef \in Refs
  BY <1>1, DocumentFacts, MapFacts DEF FirstRef, Refs
<1>3. ASSUME Parse PROVE DocInv'
  <2>1. step = "parse" /\ parsed' = pms /\ pms' = pms /\ i' = i /\ step' = "files" /\ i = 0
    BY <1>3 DEF Parse, DocInv
  <2>2. commas' = [files |-> parseJsonArray(m), mapFileRefs |-> parseJsonArray(n)]
    BY <1>3 DEF Parse
  <2>3. Separate(parseJsonArray(m), m) /\ Separate(parseJsonArray(n), n)
    BY <1>2, ParsedCommas
  <2>4. commas'.files = parseJsonArray(m) /\ commas'.mapFileRefs = parseJsonArray(n)
        /\ DOMAIN commas' = {"files", "mapFileRefs"}
    BY <2>2
  <2>5. CommasAre(m, n)'
    BY <2>1, <2>3, <2>4 DEF CommasAre
  <2>6. TypeOK'
    BY <1>1, <1>2, <2>1 DEF TypeOK
  <2> QED BY <1>1, <2>1, <2>4, <2>5, <2>6 DEF DocInv
<1>4. ASSUME InsertFile PROVE DocInv'
  <2>1. /\ step = "files" /\ parsed = pms /\ pms' = pms /\ step' = "increment" /\ i' = 0
        /\ parsed' = [parsed EXCEPT !.files = <<NewArchive>> \o @]
        /\ commas' = [commas EXCEPT !.files = EditTreeCommas(@)]
        /\ CommasAre(m, n)
    BY <1>4 DEF InsertFile, DocInv
  <2>2. parsed' = [files |-> <<NewArchive>> \o pms.files,
                   mapFileRefs |-> PartlyShifted(pms.mapFileRefs, 0)]
    <3>1. PartlyShifted(pms.mapFileRefs, 0) = pms.mapFileRefs
      BY <1>2, PartlyFacts
    <3> QED BY <1>1, <2>1, <3>1 DEF Documents
  <2>3. commas'.files = EditTreeCommas(commas.files) /\ commas'.mapFileRefs = commas.mapFileRefs
        /\ DOMAIN commas' = {"files", "mapFileRefs"}
    BY <1>1, <2>1
  <2>4. Separate(EditTreeCommas(commas.files), m + 1)
    BY <1>2, <2>1, EditedCommas DEF CommasAre
  <2>5. CommasAre(m + 1, n)'
    BY <2>1, <2>3, <2>4 DEF CommasAre
  <2>6. parsed' \in Documents
    <3>1. <<NewArchive>> \o pms.files \in Seq(Files)
      BY <1>2
    <3> QED BY <1>1, <2>1, <3>1 DEF Documents
  <2>7. TypeOK'
    <3>1. Len(parsed'.mapFileRefs) \in Nat
      BY <2>6 DEF Documents
    <3> QED BY <1>1, <2>1, <2>6, <3>1 DEF TypeOK
  <2> QED BY <1>1, <2>1, <2>2, <2>3, <2>5, <2>7 DEF DocInv
<1>5. ASSUME IncrementRef PROVE DocInv'
  <2> DEFINE p == PartlyShifted(pms.mapFileRefs, i)
             q == PartlyShifted(pms.mapFileRefs, i + 1)
  <2>1. /\ step = "increment" /\ i < Len(parsed.mapFileRefs) /\ step' = step
        /\ pms' = pms /\ commas' = commas /\ i' = i + 1
        /\ parsed' = [parsed EXCEPT !.mapFileRefs[i + 1].file = NextIndex(@)]
        /\ parsed = [files |-> <<NewArchive>> \o pms.files, mapFileRefs |-> p]
        /\ CommasAre(m + 1, n)
    BY <1>5 DEF IncrementRef, DocInv
  <2>2. i \in Nat /\ i + 1 \in Nat
    BY <1>1
  <2>3. p \in Seq(Refs) /\ Len(p) = n /\ q \in Seq(Refs) /\ Len(q) = n
    BY <1>2, <2>2, PartlyFacts
  <2>4. i + 1 \in 1 .. n /\ q = [p EXCEPT ![i + 1].file = NextIndex(@)]
    BY <1>2, <2>1, <2>2, <2>3, PartlyFacts
  <2> HIDE DEF p, q
  <2>5. parsed' = [files |-> <<NewArchive>> \o pms.files, mapFileRefs |-> q]
    BY <2>1, <2>4
  <2>6. parsed' \in Documents
    <3>1. <<NewArchive>> \o pms.files \in Seq(Files)
      BY <1>2
    <3> QED BY <2>3, <2>5, <3>1 DEF Documents
  <2>7. TypeOK'
    <3>1. Len(parsed'.mapFileRefs) = n
      BY <2>3, <2>5
    <3>2. i' \in 0 .. n
      BY <1>2, <2>1, <2>4
    <3> QED BY <1>1, <2>1, <2>6, <3>1, <3>2 DEF TypeOK
  <2>8. CommasAre(m + 1, n)'
    BY <2>1 DEF CommasAre
  <2> QED BY <1>1, <2>1, <2>5, <2>7, <2>8 DEF DocInv, q
<1>6. ASSUME RefsIncremented PROVE DocInv'
  <2> DEFINE p == PartlyShifted(pms.mapFileRefs, i)
  <2>1. /\ step = "increment" /\ i = Len(parsed.mapFileRefs) /\ step' = "refs"
        /\ pms' = pms /\ commas' = commas /\ i' = i /\ parsed' = parsed
        /\ parsed = [files |-> <<NewArchive>> \o pms.files, mapFileRefs |-> p]
        /\ CommasAre(m + 1, n)
    BY <1>6 DEF RefsIncremented, DocInv
  <2>2. i \in Nat
    BY <1>1
  <2>3. Len(p) = n /\ PartlyShifted(pms.mapFileRefs, n) = Shifted(pms.mapFileRefs)
    BY <1>2, <2>2, PartlyFacts
  <2>4. i = n
    <3> HIDE DEF p
    <3> QED BY <2>1, <2>3
  <2>5. p = Shifted(pms.mapFileRefs)
    BY <2>3, <2>4
  <2> HIDE DEF p
  <2>6. CommasAre(m + 1, n)'
    BY <2>1 DEF CommasAre
  <2>7. TypeOK'
    BY <1>1, <2>1 DEF TypeOK
  <2> QED BY <1>1, <2>1, <2>5, <2>6, <2>7 DEF DocInv
<1>7. ASSUME InsertRef PROVE DocInv'
  <2>1. /\ step = "refs" /\ step' = "write" /\ pms' = pms /\ i' = i
        /\ parsed' = [parsed EXCEPT !.mapFileRefs = <<FirstRef>> \o @]
        /\ commas' = [commas EXCEPT !.mapFileRefs = EditTreeCommas(@)]
        /\ parsed = [files |-> <<NewArchive>> \o pms.files,
                     mapFileRefs |-> Shifted(pms.mapFileRefs)]
        /\ CommasAre(m + 1, n)
    BY <1>7 DEF InsertRef, DocInv, FirstRef
  <2>2. parsed' = InjectedDocument(pms)
    BY <2>1 DEF InjectedDocument
  <2>3. /\ parsed' \in Documents /\ Len(parsed'.files) = m + 1
        /\ Len(parsed'.mapFileRefs) = n + 1
    BY <1>1, <2>2, InjectedFacts DEF IsDocument
  <2>4. commas'.mapFileRefs = EditTreeCommas(commas.mapFileRefs) /\ commas'.files = commas.files
        /\ DOMAIN commas' = {"files", "mapFileRefs"}
    BY <1>1, <2>1
  <2>5. Separate(EditTreeCommas(commas.mapFileRefs), n + 1)
    BY <1>2, <2>1, EditedCommas DEF CommasAre
  <2>6. CommasAre(Len(parsed.files), Len(parsed.mapFileRefs))'
    BY <2>1, <2>3, <2>4, <2>5 DEF CommasAre
  <2>7. TypeOK'
    <3>1. Len(parsed.mapFileRefs) = n
      BY <1>2, <2>1, ShiftedFacts
    <3> QED BY <1>1, <1>2, <2>1, <2>3, <3>1 DEF TypeOK
  <2> QED BY <1>1, <2>1, <2>2, <2>4, <2>6, <2>7 DEF DocInv
<1>8. ASSUME WriteToFile PROVE DocInv'
  <2>1. /\ step = "write" /\ step' = "injected" /\ pms' = parsed /\ parsed' = parsed /\ i' = i
        /\ commas' = commas /\ parsed = InjectedDocument(pms)
        /\ CommasAre(Len(parsed.files), Len(parsed.mapFileRefs))
    BY <1>8 DEF WriteToFile, DocInv
  <2>2. RefsResolve(pms')
    BY <1>1, <2>1, InjectedFacts DEF IsDocument
  <2>3. CommasAre(Len(parsed.files), Len(parsed.mapFileRefs))'
    BY <2>1 DEF CommasAre
  <2>4. TypeOK'
    BY <1>1, <2>1 DEF TypeOK
  <2> QED BY <1>1, <2>1, <2>2, <2>3, <2>4 DEF DocInv
<1>9. ASSUME UNCHANGED vars PROVE DocInv'
  BY <1>9 DEF DocInv, TypeOK, vars, CommasAre
<1> QED BY <1>3, <1>4, <1>5, <1>6, <1>7, <1>8, <1>9 DEF Next

-----------------------------------------------------------------------------
(* What the steps have left behind.                                        *)

MaskOK(x) ==
  /\ x.mask.table \in Seq(MaskEntry) /\ x.mask.size \in Nat
  /\ x.mask.counters \in [1 .. CounterAt -> Nat]
  /\ ReadToItsEnd(x.mask, CounterAt)
  /\ x.compMode = 0 => x.dataSize = x.mask.size
  /\ x.dataSize \in Nat

KnownToMask ==
  \E k \in DOMAIN meta.mask.table :
    /\ k <= meta.mask.counters[CounterAt]
    /\ meta.mask.table[k].hash = GetContainerMaskHash(archive).hash
    /\ meta.mask.table[k].longs * LongBits >= archive.header.numResources

DiskListed ==
  \A p \in DOMAIN manifest \cap DOMAIN Disk : Describes(manifest[p], Disk[p])

InjectionInv ==
  /\ DocInv
  /\ supermod \in SuperMods
  /\ archive \in {NoArchive, TornArchive, BuildArchive(supermod)}
  /\ pc \in {"build", "inject", "mask", "manifest", "done", "died"}
  /\ failed \in BOOLEAN /\ repacked \in BOOLEAN
  /\ meta # TornMeta => MaskOK(meta)
  /\ pc \in {"build", "inject", "mask"} => MaskOK(meta)
  /\ pc \in {"mask", "manifest", "done"} => step = "injected"
  /\ ~failed /\ pc # "build" => archive = BuildArchive(supermod)
  /\ ~failed /\ step = "injected" => Listed
  /\ ~failed /\ pc \in {"manifest", "done"} => KnownToMask
  /\ repacked => pc = "done" /\ DiskListed

LEMMA SuperModFacts ==
  ASSUME NEW s \in SuperMods
  PROVE  s \in Seq(ModFile) /\ s # <<>> /\ IsSuperMod(s)
<1>1. PICK n \in 1 .. MaxModFiles : s \in [1 .. n -> [assetPath : Assets, dataLength : DataLengths]]
  BY DEF SuperMods
<1>2. DataLengths \subseteq Nat /\ MaxModFiles \in Nat
  BY InjectionAssumption DEF InjectionAssumption
<1>3. [assetPath : Assets, dataLength : DataLengths] \subseteq ModFile
  BY <1>2 DEF ModFile
<1>4. n \in Nat /\ s \in [1 .. n -> ModFile]
  BY <1>1, <1>2, <1>3
<1>5. IsSuperMod(s)
  BY DEF SuperMods
<1>6. s # <<>>
  BY <1>5 DEF IsSuperMod
<1> QED BY <1>4, <1>5, <1>6

LEMMA ShippedMasks ==
  ASSUME NEW x \in ShippedMeta
  PROVE  MaskOK(x)
<1>1. PICK mode \in {0, 2, 4}, mask \in GameMasks :
        x = [compMode |-> mode, mask |-> mask,
             dataSize |-> IF mode = 0 THEN mask.size ELSE PackedSize]
  BY DEF ShippedMeta
<1>2. mask \in Mask /\ ReadToItsEnd(mask, CounterAt) /\ PackedSize \in Nat
  BY InjectionAssumption DEF InjectionAssumption
<1>3. Entry \subseteq MaskEntry
  BY DEF Entry, MaskEntry
<1>4. mask.table \in Seq(MaskEntry) /\ mask.size \in Nat /\ mask.counters \in [1 .. CounterAt -> Nat]
  BY <1>2, <1>3 DEF Mask
<1>5. x.mask = mask /\ (x.compMode = 0 => x.dataSize = mask.size) /\ x.dataSize \in Nat
  BY <1>1, <1>2, <1>4
<1> QED BY <1>2, <1>4, <1>5 DEF MaskOK

LEMMA RebuiltMask ==
  ASSUME MaskOK(meta), NEW e, e.hash \in {x.hash : x \in MaskEntry}, e.numResources \in Nat
  PROVE  /\ MaskOK(Rebuilt(e))
         /\ \E k \in DOMAIN Rebuilt(e).mask.table :
              /\ k <= Rebuilt(e).mask.counters[CounterAt]
              /\ Rebuilt(e).mask.table[k].hash = e.hash
              /\ Rebuilt(e).mask.table[k].longs * LongBits >= e.numResources
<1> DEFINE longs == bitmasklongs(e.numResources)
           m == meta.mask
           entry == [at |-> m.size, hash |-> e.hash, longs |-> longs]
           counters == [m.counters EXCEPT ![CounterAt] = @ + 1]
           n == Len(m.table)
           u == Extended(m, e, counters)
           r == Rebuilt(e)
<1>1. longs \in Nat /\ longs * LongBits >= e.numResources
  BY EnoughLongs
<1>2. /\ m.table \in Seq(MaskEntry) /\ m.counters \in [1 .. CounterAt -> Nat]
      /\ m.size \in Nat /\ ReadToItsEnd(m, CounterAt)
  BY DEF MaskOK
<1>3. CounterAt \in {1, 2}
  BY InjectionAssumption DEF InjectionAssumption
<1>4. r = [compMode |-> 0, mask |-> u, dataSize |-> u.size]
  BY DEF Rebuilt, Stored
<1>5. u = [counters |-> counters, table |-> Append(m.table, entry),
           size |-> m.size + extraSize(longs)]
  BY DEF Extended
<1> HIDE DEF longs, m, u, r
<1>6. entry \in MaskEntry
  <2>1. PICK x \in MaskEntry : e.hash = x.hash
    OBVIOUS
  <2> QED BY <1>1, <1>2, <2>1 DEF MaskEntry
<1>7. entry.at = m.size /\ entry.hash = e.hash /\ entry.longs = longs
  OBVIOUS
<1>8. counters \in [1 .. CounterAt -> Nat] /\ counters[CounterAt] = m.counters[CounterAt] + 1
  BY <1>2, <1>3
<1> HIDE DEF entry, counters
<1>9. u.table = Append(m.table, entry) /\ u.counters = counters /\ u.size = m.size + extraSize(longs)
  BY <1>5
<1>10. u.size = EndOf(entry) /\ u.size \in Nat
  BY <1>1, <1>2, <1>7, <1>9, EntryFits
<1>11. /\ n \in Nat /\ u.table \in Seq(MaskEntry) /\ Len(u.table) = n + 1
       /\ u.table[n + 1] = entry /\ DOMAIN u.table = 1 .. n + 1 /\ DOMAIN m.table = 1 .. n
       /\ \A k \in 1 .. n : u.table[k] = m.table[k]
  <2> DEFINE t == m.table
  <2>1. t \in Seq(MaskEntry) /\ u.table = Append(t, entry)
    BY <1>2, <1>9
  <2> HIDE DEF t
  <2>2. LET v == Append(t, entry)
        IN  /\ Len(t) \in Nat /\ v \in Seq(MaskEntry) /\ Len(v) = Len(t) + 1
            /\ v[Len(t) + 1] = entry
            /\ DOMAIN v = 1 .. Len(t) + 1 /\ DOMAIN t = 1 .. Len(t)
            /\ \A k \in 1 .. Len(t) : v[k] = t[k]
    BY <1>6, <2>1, OneMoreEntry
  <2> QED BY <2>1, <2>2 DEF t
<1>12. Len(m.table) = n
  OBVIOUS
<1> HIDE DEF n
<1>13. ReadToItsEnd(u, CounterAt)
  <2>1. CounterAt \in Nat
    BY <1>3
  <2>2. u.counters[CounterAt] = m.counters[CounterAt] + 1
    BY <1>8, <1>9
  <2>3. ReadToItsEnd(m, CounterAt) /\ entry.at = m.size /\ u.size = EndOf(entry)
    BY <1>2, <1>7, <1>10
  <2>4. \A k \in 1 .. n : u.table[k] = m.table[k]
    BY <1>11
  <2>5. n \in Nat /\ Len(u.table) = n + 1 /\ u.table[n + 1] = entry
        /\ DOMAIN u.table = 1 .. n + 1 /\ DOMAIN m.table = 1 .. n
    BY <1>11
  <2> QED BY ONLY <1>12, <2>1, <2>2, <2>3, <2>4, <2>5, StillReadToItsEnd, Zenon
<1>14. r.mask = u /\ r.dataSize = u.size
  BY <1>4
<1>15. MaskOK(r)
  BY <1>8, <1>9, <1>10, <1>11, <1>13, <1>14 DEF MaskOK
<1>16. u.counters[CounterAt] = n + 1
  BY <1>11, <1>13 DEF ReadToItsEnd
<1>17. /\ n + 1 \in DOMAIN r.mask.table /\ n + 1 <= r.mask.counters[CounterAt]
       /\ r.mask.table[n + 1].hash = e.hash /\ r.mask.table[n + 1].longs * LongBits >= e.numResources
  BY <1>1, <1>7, <1>11, <1>14, <1>16
<1> QED BY <1>15, <1>17 DEF r

LEMMA NewEntryFacts ==
  ASSUME InjectionInv, NEW e \in NewEntries
  PROVE  /\ e.hash \in {x.hash : x \in MaskEntry} /\ e.numResources \in Nat
         /\ ~failed /\ pc # "build" =>
              e.hash = GetContainerMaskHash(archive).hash
                /\ e.numResources = archive.header.numResources
<1> DEFINE H == Hashes \cup {Garbage}
                  \cup {GetContainerMaskHash(BuildArchive(s)).hash : s \in SuperMods}
<1>1. supermod \in SuperMods /\ archive \in {NoArchive, TornArchive, BuildArchive(supermod)}
      /\ (~failed /\ pc # "build" => archive = BuildArchive(supermod))
  BY DEF InjectionInv
<1>2. \A h \in H : h \in {x.hash : x \in MaskEntry}
  <2>1. ASSUME NEW h \in H PROVE h \in {x.hash : x \in MaskEntry}
    <3>1. [at |-> 0, hash |-> h, longs |-> 0] \in MaskEntry
      BY DEF MaskEntry
    <3>2. [at |-> 0, hash |-> h, longs |-> 0].hash = h
      OBVIOUS
    <3> QED BY <3>1, <3>2
  <2> QED BY <2>1
<1>3. BuildArchive(supermod) \notin {NoArchive, TornArchive}
  BY <1>1, MarkersAssumption DEF MarkersAssumption
<1>4. CASE archive \in {NoArchive, TornArchive}
  <2>1. e \in [hash : {Garbage}, numResources : GarbageCounts]
    BY <1>4 DEF NewEntries
  <2>2. e.hash = Garbage /\ e.numResources \in GarbageCounts
    BY <2>1
  <2>3. GarbageCounts \subseteq Nat
    BY InjectionAssumption DEF InjectionAssumption
  <2>4. Garbage \in H
    OBVIOUS
  <2> HIDE DEF H
  <2> QED BY <1>1, <1>2, <1>3, <1>4, <2>2, <2>3, <2>4
<1>5. CASE archive \notin {NoArchive, TornArchive}
  <2>1. e = GetContainerMaskHash(archive) /\ archive = BuildArchive(supermod)
    BY <1>1, <1>5 DEF NewEntries
  <2>2. e.hash \in H
    BY <1>1, <2>1
  <2>3. e.numResources = archive.header.numResources
    BY <2>1 DEF GetContainerMaskHash
  <2>4. archive.header.numResources = Len(supermod)
    BY <2>1 DEF BuildArchive, Header
  <2>5. Len(supermod) \in Nat
    BY <1>1, SuperModFacts
  <2> HIDE DEF H
  <2> QED BY <1>2, <2>1, <2>2, <2>3, <2>4, <2>5
<1> QED BY <1>4, <1>5

(* A manifest that has just been patched describes what is on the disk.    *)
LEMMA PatchedManifest ==
  ASSUME InjectionInv, PatchManifest
  PROVE  DiskListed'
<1>1. /\ manifest' = optimizeBuildManifest(manifest, Disk)
      /\ pms' = pms /\ meta' = meta
  BY DEF PatchManifest, vars
<1>2. Disk' = Disk
  BY <1>1 DEF Disk
<1>3. DOMAIN Disk = {Pms, Meta} \cup DOMAIN OtherFiles
  BY DEF Disk
<1>4. ASSUME NEW p \in DOMAIN Disk PROVE Disk[p] \in Nat
  <2>1. Disk[p] = IF p = Pms THEN LineSize * (Len(pms.files) + Len(pms.mapFileRefs))
                  ELSE IF p = Meta THEN (IF meta = TornMeta THEN 1 ELSE meta.dataSize)
                  ELSE OtherFiles[p]
    BY <1>3 DEF Disk
  <2>2. LineSize * (Len(pms.files) + Len(pms.mapFileRefs)) \in Nat
    <3>1. Len(pms.files) \in Nat /\ Len(pms.mapFileRefs) \in Nat
      BY DEF InjectionInv, DocInv, TypeOK, Documents
    <3>2. LineSize \in Nat
      BY InjectionAssumption DEF InjectionAssumption
    <3> DEFINE x == Len(pms.files) + Len(pms.mapFileRefs)
    <3>3. x \in Nat
      <4>1. \A a, b \in Nat : a + b \in Nat
        OBVIOUS
      <4> QED BY <3>1, <4>1
    <3>4. \A a, b \in Nat : a * b \in Nat
      OBVIOUS
    <3> HIDE DEF x
    <3>5. LineSize * x \in Nat
      BY <3>2, <3>3, <3>4
    <3> QED BY <3>5 DEF x
  <2>3. meta # TornMeta => meta.dataSize \in Nat
    BY DEF InjectionInv, MaskOK
  <2>4. p \notin {Pms, Meta} => OtherFiles[p] \in Nat
    BY <1>3, InjectionAssumption DEF InjectionAssumption
  <2> DEFINE x == LineSize * (Len(pms.files) + Len(pms.mapFileRefs))
  <2> HIDE DEF x
  <2>5. x \in Nat /\ 1 \in Nat
    BY <2>2 DEF x
  <2>6. Disk[p] = IF p = Pms THEN x
                  ELSE IF p = Meta THEN (IF meta = TornMeta THEN 1 ELSE meta.dataSize)
                  ELSE OtherFiles[p]
    BY <2>1 DEF x
  <2> QED BY <2>3, <2>4, <2>5, <2>6
<1>5. ASSUME NEW p \in DOMAIN manifest' \cap DOMAIN Disk
      PROVE  Describes(manifest'[p], Disk[p])
  <2>1. p \notin DOMAIN ModDir
    BY <1>3, InjectionAssumption DEF InjectionAssumption
  <2>2. p \in DOMAIN manifest /\ manifest'[p] = Described(Disk[p], CHUNK_SIZE)
    BY <1>1, <2>1 DEF optimizeBuildManifest, appendModFiles, UpdateFiles
  <2>3. CHUNK_SIZE \in Nat \ {0}
    BY ManifestAssumption DEF ManifestAssumption
  <2> QED BY <1>4, <2>2, <2>3, DescribedAsIs
<1> HIDE DEF Disk
<1> QED BY <1>2, <1>5 DEF DiskListed

(* The archive just injected is the first of all and of the common map.    *)
LEMMA InjectedListed ==
  ASSUME DocInv, WriteToFile
  PROVE  Listed'
<1>1. IsDocument(pms) /\ pms' = InjectedDocument(pms)
  BY DEF DocInv, TypeOK, IsDocument, WriteToFile
<1>2. pms'.files[1] = NewArchive /\ pms'.files # <<>>
  <2>1. pms'.files[1] = NewArchive /\ Len(pms'.files) = Len(pms.files) + 1
        /\ Len(pms.files) \in Nat
    BY <1>1, InjectedFacts, DocumentFacts
  <2> QED BY <2>1
<1>3. ArchivesOf(pms') = [ArchivesOf(pms) EXCEPT ![CommonMap] = <<NewArchive>> \o @]
      /\ ArchivesOf(pms) \in [MapIndices -> Seq(Files)]
  BY <1>1, InjectedArchives
<1>4. CommonMap \in MapIndices /\ NewArchive \in Files
  BY MapFacts
<1> DEFINE q == ArchivesOf(pms)[CommonMap]
<1>5. q \in Seq(Files) /\ ArchivesOf(pms')[CommonMap] = <<NewArchive>> \o q
  BY <1>3, <1>4
<1> HIDE DEF q
<1>6. Head(<<NewArchive>> \o q) = NewArchive
  BY <1>4, <1>5
<1> QED BY <1>2, <1>5, <1>6 DEF Listed

LEMMA InjectionInvInit == InjectionInit => InjectionInv
<1> SUFFICES ASSUME InjectionInit PROVE InjectionInv
  OBVIOUS
<1>1. DocInv
  BY DocInit DEF InjectionInit
<1>2. /\ supermod \in SuperMods /\ archive = NoArchive /\ meta \in ShippedMeta
      /\ pc = "build" /\ failed = FALSE /\ repacked = FALSE
  BY DEF InjectionInit
<1>3. MaskOK(meta)
  BY <1>2, ShippedMasks
<1>4. step # "injected"
  BY DEF InjectionInit, Init
<1> QED BY <1>1, <1>2, <1>3, <1>4 DEF InjectionInv

LEMMA InjectionInvNext == InjectionInv /\ [InjectionNext]_injectionVars => InjectionInv'
<1> SUFFICES ASSUME InjectionInv, [InjectionNext]_injectionVars PROVE InjectionInv'
  OBVIOUS
<1>1. ASSUME Build PROVE InjectionInv'
  <2>1. /\ pc = "build" /\ pc' = "inject"
        /\ UNCHANGED <<vars, supermod, meta, manifest, repacked>>
        /\ \/ archive' = BuildArchive(supermod) /\ failed' = failed
           \/ archive' \in {NoArchive, TornArchive} /\ failed' = TRUE
    BY <1>1 DEF Build, Proceed, Successor
  <2>2. DocInv'
    BY <2>1, DocNext DEF InjectionInv
  <2>3. ~failed' => archive' = BuildArchive(supermod')
    BY <2>1
  <2>4. Listed => Listed'
    BY <2>1 DEF Listed, vars
  <2>5. MaskOK(meta)'
    BY <2>1 DEF InjectionInv, MaskOK
  <2>6. step' = step /\ failed' \in BOOLEAN /\ repacked' = repacked /\ (~failed' => ~failed)
    BY <2>1 DEF vars, InjectionInv
  <2> QED BY <2>1, <2>2, <2>3, <2>4, <2>5, <2>6 DEF InjectionInv
<1>2. ASSUME InjectCommonArchive PROVE InjectionInv'
  <2>1. /\ pc = "inject" /\ pc' = pc /\ Next
        /\ UNCHANGED <<supermod, archive, meta, manifest, failed, repacked>>
    BY <1>2 DEF InjectCommonArchive
  <2>2. DocInv'
    BY <2>1, DocNext DEF InjectionInv
  <2>3. step' = "injected" => Listed'
    <3>1. step' = "injected" => WriteToFile
      BY <2>1 DEF Next, Parse, InsertFile, IncrementRef, RefsIncremented, InsertRef
    <3> QED BY <3>1, InjectedListed DEF InjectionInv
  <2>4. MaskOK(meta)'
    BY <2>1 DEF InjectionInv, MaskOK
  <2> QED BY <2>1, <2>2, <2>3, <2>4 DEF InjectionInv
<1>3. ASSUME InjectNotWritten PROVE InjectionInv'
  <2>1. /\ pc = "inject" /\ pc' = pc /\ step = "write" /\ step' = "injected" /\ failed' = TRUE
        /\ UNCHANGED <<pms, parsed, i, commas, supermod, archive, meta, manifest, repacked>>
    BY <1>3 DEF InjectNotWritten
  <2>2. DocInv'
    BY <2>1 DEF InjectionInv, DocInv, TypeOK, CommasAre
  <2>3. MaskOK(meta)'
    BY <2>1 DEF InjectionInv, MaskOK
  <2> QED BY <2>1, <2>2, <2>3 DEF InjectionInv
<1>4. ASSUME Injected PROVE InjectionInv'
  <2>1. /\ pc = "inject" /\ pc' = "mask" /\ step = "injected"
        /\ UNCHANGED <<vars, supermod, archive, meta, manifest, failed, repacked>>
    BY <1>4 DEF Injected, Proceed, Successor
  <2>2. DocInv' /\ step' = "injected"
    BY <2>1, DocNext DEF InjectionInv, vars
  <2>3. MaskOK(meta)'
    BY <2>1 DEF InjectionInv, MaskOK
  <2>4. Listed => Listed'
    BY <2>1 DEF Listed, vars
  <2> QED BY <2>1, <2>2, <2>3, <2>4 DEF InjectionInv
<1>5. ASSUME RebuildContainerMask PROVE InjectionInv'
  <2>1. PICK e \in NewEntries :
          \/ meta' = Rebuilt(e) /\ UNCHANGED failed
          \/ meta' = TornMeta /\ failed' = TRUE
    BY <1>5 DEF RebuildContainerMask
  <2>2. /\ pc = "mask" /\ pc' = "manifest"
        /\ UNCHANGED <<vars, supermod, archive, manifest, repacked>>
    BY <1>5 DEF RebuildContainerMask, Proceed, Successor
  <2>3. DocInv' /\ step' = step
    BY <2>2, DocNext DEF InjectionInv, vars
  <2>4. MaskOK(meta) /\ failed \in BOOLEAN /\ step = "injected" /\ ~repacked
    BY <2>2 DEF InjectionInv
  <2>5. /\ MaskOK(Rebuilt(e))
        /\ ~failed => \E k \in DOMAIN Rebuilt(e).mask.table :
              /\ k <= Rebuilt(e).mask.counters[CounterAt]
              /\ Rebuilt(e).mask.table[k].hash = GetContainerMaskHash(archive).hash
              /\ Rebuilt(e).mask.table[k].longs * LongBits >= archive.header.numResources
    <3>1. /\ e.hash \in {x.hash : x \in MaskEntry} /\ e.numResources \in Nat
          /\ ~failed => e.hash = GetContainerMaskHash(archive).hash
                        /\ e.numResources = archive.header.numResources
      BY <2>2, NewEntryFacts
    <3> QED BY <2>4, <3>1, RebuiltMask
  <2>6. Listed => Listed'
    BY <2>2 DEF Listed, vars
  <2>7. CASE meta' = Rebuilt(e) /\ UNCHANGED failed
    <3>1. MaskOK(meta')
      BY <2>5, <2>7
    <3>2. ~failed' => KnownToMask'
      BY <2>2, <2>5, <2>7 DEF KnownToMask
    <3> QED BY <2>2, <2>3, <2>4, <2>6, <2>7, <3>1, <3>2 DEF InjectionInv
  <2>8. CASE meta' = TornMeta /\ failed' = TRUE
    BY <2>2, <2>3, <2>4, <2>8 DEF InjectionInv
  <2> QED BY <2>1, <2>7, <2>8
<1>6. ASSUME RebuildReturns PROVE InjectionInv'
  <2>1. /\ pc = "mask" /\ pc' = "manifest" /\ failed' = TRUE
        /\ UNCHANGED <<vars, supermod, archive, meta, manifest, repacked>>
    BY <1>6 DEF RebuildReturns, Proceed, Successor
  <2>2. DocInv' /\ step' = step
    BY <2>1, DocNext DEF InjectionInv, vars
  <2>3. MaskOK(meta)'
    BY <2>1 DEF InjectionInv, MaskOK
  <2> QED BY <2>1, <2>2, <2>3 DEF InjectionInv
<1>7. ASSUME Dies PROVE InjectionInv'
  <2>1. /\ pc \in {"inject", "mask"} /\ pc' = "died" /\ failed' = TRUE
        /\ UNCHANGED <<vars, supermod, archive, meta, manifest, repacked>>
    BY <1>7 DEF Dies
  <2>2. DocInv' /\ step' = step
    BY <2>1, DocNext DEF InjectionInv, vars
  <2>3. MaskOK(meta)'
    BY <2>1 DEF InjectionInv, MaskOK
  <2> QED BY <2>1, <2>2, <2>3 DEF InjectionInv
<1>8. ASSUME PatchManifest PROVE InjectionInv'
  <2>1. /\ pc = "manifest" /\ pc' = "done" /\ repacked' = TRUE
        /\ UNCHANGED <<vars, supermod, archive, meta, failed>>
    BY <1>8 DEF PatchManifest, Proceed, Successor
  <2>2. DocInv' /\ step' = step
    BY <2>1, DocNext DEF InjectionInv, vars
  <2>3. meta' # TornMeta => MaskOK(meta')
    BY <2>1 DEF InjectionInv
  <2>4. Listed => Listed'
    BY <2>1 DEF Listed, vars
  <2>5. KnownToMask => KnownToMask'
    BY <2>1 DEF KnownToMask
  <2>6. DiskListed'
    BY <1>8, PatchedManifest
  <2> QED BY <2>1, <2>2, <2>3, <2>4, <2>5, <2>6 DEF InjectionInv
<1>9. ASSUME PatchManifestFails PROVE InjectionInv'
  <2>1. /\ pc = "manifest" /\ pc' = "done"
        /\ UNCHANGED <<vars, supermod, archive, meta, manifest, failed, repacked>>
    BY <1>9 DEF PatchManifestFails, Proceed, Successor
  <2>2. DocInv' /\ step' = step
    BY <2>1, DocNext DEF InjectionInv, vars
  <2>3. meta' # TornMeta => MaskOK(meta')
    BY <2>1 DEF InjectionInv
  <2>4. Listed => Listed'
    BY <2>1 DEF Listed, vars
  <2>5. KnownToMask => KnownToMask'
    BY <2>1 DEF KnownToMask
  <2> QED BY <2>1, <2>2, <2>3, <2>4, <2>5 DEF InjectionInv
<1>10. ASSUME UNCHANGED injectionVars PROVE InjectionInv'
  <2>1. UNCHANGED <<vars, supermod, archive, meta, manifest, pc, failed, repacked>>
    BY <1>10 DEF injectionVars
  <2>2. DocInv' /\ step' = step
    BY <2>1, DocNext DEF InjectionInv, vars
  <2>3. Listed => Listed'
    BY <2>1 DEF Listed, vars
  <2>4. KnownToMask => KnownToMask'
    BY <2>1 DEF KnownToMask
  <2>5. DiskListed => DiskListed'
    BY <2>1 DEF DiskListed, Disk, vars
  <2> QED BY <2>1, <2>2, <2>3, <2>4, <2>5 DEF InjectionInv
<1> QED BY <1>1, <1>2, <1>3, <1>4, <1>5, <1>6, <1>7, <1>8, <1>9, <1>10 DEF InjectionNext

THEOREM InjectionInvariant == InjectionSpec => []InjectionInv
BY InjectionInvInit, InjectionInvNext, PTL DEF InjectionSpec

-----------------------------------------------------------------------------
(* The theorems.                                                           *)

(* The types hold: a super mod of distinct files, documents whose loop     *)
(* index stays in their references, an archive that is whole or a marker.  *)
THEOREM InjectionTypes == InjectionSpec => []InjectionTypeOK
<1>1. InjectionInv => InjectionTypeOK
  BY SuperModFacts DEF InjectionInv, InjectionTypeOK, DocInv
<1> QED BY <1>1, InjectionInvariant, PTL

(* The readers find in the archive what BuildArchive wrote, its data is    *)
(* aligned and no two of its blocks overlap, whatever its files are.       *)
THEOREM ArchiveReads == InjectionSpec => []ArchiveReadsBack
<1>1. ASSUME InjectionInv PROVE ArchiveReadsBack
  <2>1. SUFFICES ASSUME IsArchive
                 PROVE  /\ ReadsBack(archive) /\ Aligned(archive)
                        /\ \A v, w \in archive.file : v = w \/ v.end <= w.start \/ w.end <= v.start
    BY DEF ArchiveReadsBack
  <2>2. archive = BuildArchive(supermod) /\ supermod \in Seq(ModFile) /\ supermod # <<>>
    BY <1>1, <2>1, SuperModFacts DEF InjectionInv, IsArchive
  <2>3. ReadsBack(archive) /\ Aligned(archive)
    BY <2>2, BuildReadsBack
  <2>4. archive.file = Written(supermod)
    BY <2>2 DEF BuildArchive
  <2>5. \A v, w \in archive.file : v = w \/ v.end <= w.start \/ w.end <= v.start
    BY <2>2, <2>4, BlocksApart DEF Written, Apart
  <2> QED BY <2>3, <2>5
<1> QED BY <1>1, InjectionInvariant, PTL

(* The hash that goes into the container mask covers the entries, the      *)
(* strings and the indices, whole, up to and including IDCL.               *)
THEOREM HashEnds == InjectionSpec => []HashEndsAtIDCL
<1>1. ASSUME InjectionInv PROVE HashEndsAtIDCL
  <2>1. SUFFICES ASSUME IsArchive PROVE HashEndsAtIDCL
    BY DEF HashEndsAtIDCL
  <2>2. archive = BuildArchive(supermod) /\ supermod \in Seq(ModFile)
    BY <1>1, <2>1, SuperModFacts DEF InjectionInv, IsArchive
  <2>3. archive.file = Written(supermod)
    BY <2>2 DEF BuildArchive
  <2>4. LET hashed == GetContainerMaskHash(archive).hash IN
          /\ hashed.whole
          /\ hashed.pieces = {w.what : w \in archive.file}
               \ ({Piece("header", 0), Piece("idcl padding", 0)}
                  \cup {Piece("data", k) : k \in DOMAIN supermod})
    BY <2>2, <2>3, HashedPieces
  <2> QED BY <2>4 DEF HashEndsAtIDCL
<1> QED BY <1>1, InjectionInvariant, PTL

(* Where the first word counts the entries, as it does in the build without *)
(* DOOMETERNAL, Test_ContainerMask reads to its end every mask that the     *)
(* game ships and every mask RebuildContainerMask has written, whatever has *)
(* failed and whatever the archive made it believe.                         *)
THEOREM MaskReads ==
  ASSUME CounterAt = 1
  PROVE  InjectionSpec => []MaskReadsToItsEnd
<1>1. InjectionInv => MaskReadsToItsEnd
  BY DEF InjectionInv, MaskReadsToItsEnd, MaskOK, Test_ContainerMask
<1> QED BY <1>1, InjectionInvariant, PTL

(* When nothing has failed, the package map spec lists the archive first   *)
(* and the mask knows its hash, with a bit for each of its resources.      *)
THEOREM Agreement == InjectionSpec => []FilesAgree
<1>1. ASSUME InjectionInv PROVE FilesAgree
  <2>1. SUFFICES ASSUME pc = "done", ~failed PROVE FilesAgree
    BY DEF FilesAgree
  <2>2. archive = BuildArchive(supermod) /\ supermod \in SuperMods /\ Listed /\ KnownToMask
    BY <1>1, <2>1 DEF InjectionInv
  <2>3. IsArchive
    BY <2>2, MarkersAssumption DEF MarkersAssumption, IsArchive
  <2> QED BY <2>2, <2>3 DEF FilesAgree, KnownToMask
<1> QED BY <1>1, InjectionInvariant, PTL

(* A manifest that has been repacked has the sizes and the numbers of      *)
(* chunks of the files as they are on the disk, whatever has failed.       *)
THEOREM ManifestLists == InjectionSpec => []ManifestListsDisk
<1>1. InjectionInv => ManifestListsDisk
  BY DEF InjectionInv, ManifestListsDisk, DiskListed
<1> QED BY <1>1, InjectionInvariant, PTL

(* In both lists of the document that is written there is a comma between  *)
(* two elements and none after the last.                                   *)
THEOREM Commas == InjectionSpec => []CommasSeparate
<1>1. ASSUME InjectionInv PROVE CommasSeparate
  <2>1. SUFFICES ASSUME step \in {"write", "injected"}, NEW list \in {"files", "mapFileRefs"}
                 PROVE  /\ DOMAIN commas[list] = DOMAIN parsed[list]
                        /\ \A k \in DOMAIN commas[list] : commas[list][k] <=> k < Len(parsed[list])
    BY DEF CommasSeparate
  <2> DEFINE n == Len(parsed[list])
             c == commas[list]
  <2>2. Separate(c, n)
    <3>1. Separate(commas.files, Len(parsed.files))
          /\ Separate(commas.mapFileRefs, Len(parsed.mapFileRefs))
      BY <1>1, <2>1 DEF InjectionInv, DocInv, CommasAre
    <3> QED BY <3>1
  <2>3. DOMAIN parsed[list] = 1 .. n
    <3>1. parsed.files \in Seq(Files) /\ parsed.mapFileRefs \in Seq(Refs)
      BY <1>1 DEF InjectionInv, DocInv, TypeOK, Documents
    <3>2. CASE list = "files"
      BY <3>1, <3>2
    <3>3. CASE list = "mapFileRefs"
      BY <3>1, <3>3
    <3> QED BY <2>1, <3>2, <3>3
  <2> HIDE DEF n, c
  <2>4. DOMAIN c = 1 .. n
    BY <2>2 DEF Separate, Marked
  <2>5. ASSUME NEW k \in 1 .. n PROVE c[k] <=> k < n
    <3>1. c[k] = IF k < n THEN TRUE ELSE FALSE
      BY <2>2 DEF Separate, Marked
    <3> DEFINE less == k < n
    <3> HIDE DEF less
    <3>2. c[k] <=> less
      <4>1. c[k] = IF less THEN TRUE ELSE FALSE
        BY <3>1 DEF less
      <4> QED BY <4>1, Zenon
    <3> QED BY <3>2 DEF less
  <2> QED BY <2>3, <2>4, <2>5 DEF n, c
<1> QED BY <1>1, InjectionInvariant, PTL

LEMMA OnlyWriting ==
  ASSUME InjectionInv, [InjectionNext]_injectionVars
  PROVE  \/ pms' = pms
         \/ IsDocument(pms) /\ pms' = InjectedDocument(pms)
<1>1. CASE InjectCommonArchive
  <2>1. CASE WriteToFile
    BY <2>1 DEF WriteToFile, InjectionInv, DocInv, TypeOK, IsDocument
  <2>2. CASE ~WriteToFile
    BY <1>1, <2>2 DEF InjectCommonArchive, Next, Parse, InsertFile, IncrementRef, RefsIncremented,
                      InsertRef
  <2> QED BY <2>1, <2>2
<1>2. CASE ~InjectCommonArchive
  BY <1>2 DEF InjectionNext, injectionVars, vars, Build, InjectNotWritten, Injected,
              RebuildContainerMask, RebuildReturns, Dies, PatchManifest, PatchManifestFails
<1> QED BY <1>1, <1>2

(* To the game the document is the archives of each map: InjectLoadMods    *)
(* puts the new one first among those of the common map and leaves the     *)
(* rest, though every reference is rewritten.                              *)
THEOREM Refinement == InjectionSpec => ImplementsMapArchives
<1>1. ASSUME InjectionInv, [InjectionNext]_injectionVars
      PROVE  ArchivesOf(pms)' = ArchivesOf(pms)
             \/ ArchivesOf(pms)' = [ArchivesOf(pms) EXCEPT ![CommonMap] = <<NewArchive>> \o @]
  <2>1. CASE pms' = pms
    BY <2>1
  <2>2. CASE IsDocument(pms) /\ pms' = InjectedDocument(pms)
    BY <2>2, InjectedArchives
  <2> QED BY <1>1, <2>1, <2>2, OnlyWriting
<1>2. ASSUME InjectionInv, [InjectionNext]_injectionVars
      PROVE  [Abstract!Inject]_(ArchivesOf(pms))
  BY <1>1, <1>2 DEF Abstract!Inject
<1> QED BY <1>2, InjectionInvariant, PTL DEF InjectionSpec, ImplementsMapArchives, Abstract!Spec

(* The priorities of the game's own archives stay as they are, and the     *)
(* new archive gets the highest.                                           *)
THEOREM Priorities == InjectionSpec => PriorityKept
<1>1. NewArchive \in ModArchives /\ NewArchive \in Packages
  BY ConstantsAssumption DEF ConstantsAssumption
<1>2. ~IsListed(NewArchive, FALSE) /\ IsListed(NewArchive, TRUE)
  BY <1>1 DEF IsListed
<1>3. ASSUME InjectionInv, [InjectionNext]_injectionVars
      PROVE  [/\ GetPrioritizedArchiveList(pms', FALSE) = GetPrioritizedArchiveList(pms, FALSE)
              /\ pms' # pms => GetPrioritizedArchiveList(pms', TRUE)
                                 = <<NewArchive>> \o GetPrioritizedArchiveList(pms, TRUE)]_pms
  <2>1. CASE IsDocument(pms) /\ pms' = InjectedDocument(pms)
    <3>1. GetPrioritizedArchiveList(pms', FALSE) = GetPrioritizedArchiveList(pms, FALSE)
      BY <1>2, <2>1, InjectedPriority, Zenon
    <3>2. GetPrioritizedArchiveList(pms', TRUE)
            = <<NewArchive>> \o GetPrioritizedArchiveList(pms, TRUE)
      BY <1>2, <2>1, InjectedPriority, Zenon
    <3> QED BY <3>1, <3>2
  <2> QED BY <1>3, <2>1, OnlyWriting
<1> QED BY <1>3, InjectionInvariant, PTL DEF InjectionSpec, PriorityKept
=============================================================================
