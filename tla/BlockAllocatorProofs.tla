------------------------ MODULE BlockAllocatorProofs ------------------------
(***************************************************************************)
(* Proofs about BlockAllocator for every buffer length, every size of      *)
(* request and every heap: the free list stays sorted and fully merged, no *)
(* element is handed out twice, none is lost, and the allocator implements *)
(* the pool of BlockPool.                                                  *)
(***************************************************************************)
EXTENDS BlockAllocator, SequenceTheorems, TLAPS

-----------------------------------------------------------------------------
(* The two operations of std::vector                                       *)

LEMMA RemoveAtFacts ==
  ASSUME NEW S, NEW s \in Seq(S), NEW i \in 1 .. Len(s)
  PROVE  /\ RemoveAt(s, i) \in Seq(S)
         /\ Len(RemoveAt(s, i)) = Len(s) - 1
         /\ \A j \in 1 .. (Len(s) - 1) : j < i => RemoveAt(s, i)[j] = s[j]
         /\ \A j \in 1 .. (Len(s) - 1) : ~(j < i) => RemoveAt(s, i)[j] = s[j + 1]
<1> DEFINE l == SubSeq(s, 1, i - 1)
           r == SubSeq(s, i + 1, Len(s))
<1>0. Len(s) \in Nat
  BY LenProperties
<1>1. /\ l \in Seq(S) /\ Len(l) = i - 1
      /\ \A j \in 1 .. (i - 1) : l[j] = s[j]
  BY SubSeqProperties, ElementOfSeq, LenProperties
<1>2. /\ r \in Seq(S) /\ Len(r) = Len(s) - i
      /\ \A j \in 1 .. (Len(s) - i) : r[j] = s[i + j]
  BY SubSeqProperties, ElementOfSeq, LenProperties
<1> HIDE DEF l, r
<1>3. /\ l \o r \in Seq(S) /\ Len(l \o r) = Len(s) - 1
      /\ \A j \in 1 .. (Len(s) - 1) :
           (l \o r)[j] = IF j <= i - 1 THEN l[j] ELSE r[j - (i - 1)]
  <2>1. /\ l \o r \in Seq(S) /\ Len(l \o r) = Len(l) + Len(r)
        /\ \A j \in 1 .. (Len(l) + Len(r)) :
             (l \o r)[j] = IF j <= Len(l) THEN l[j] ELSE r[j - Len(l)]
    BY <1>1, <1>2, ConcatProperties
  <2>2. Len(l) + Len(r) = Len(s) - 1 /\ Len(l) = i - 1
    BY <1>0, <1>1, <1>2
  <2>. QED
    BY <2>1, <2>2
<1>4. RemoveAt(s, i) = l \o r
  BY DEF RemoveAt, l, r
<1>5. ASSUME NEW j \in 1 .. (Len(s) - 1)
      PROVE  (l \o r)[j] = IF j < i THEN s[j] ELSE s[j + 1]
  <2>1. CASE j < i
    BY <1>1, <1>3, <2>1, LenProperties
  <2>2. CASE ~(j < i)
    <3>1. j - (i - 1) \in 1 .. (Len(s) - i) /\ i + (j - (i - 1)) = j + 1
      BY <2>2, LenProperties
    <3>. QED
      BY <1>2, <1>3, <2>2, <3>1, LenProperties
  <2>. QED
    BY <2>1, <2>2
<1>. QED
  BY <1>3, <1>4, <1>5

LEMMA InsertAtFacts ==
  ASSUME NEW S, NEW s \in Seq(S), NEW i \in 1 .. (Len(s) + 1), NEW e \in S
  PROVE  /\ InsertAt(s, i, e) \in Seq(S)
         /\ Len(InsertAt(s, i, e)) = Len(s) + 1
         /\ \A j \in 1 .. (Len(s) + 1) : j < i => InsertAt(s, i, e)[j] = s[j]
         /\ InsertAt(s, i, e)[i] = e
         /\ \A j \in 1 .. (Len(s) + 1) : j > i => InsertAt(s, i, e)[j] = s[j - 1]
<1> DEFINE l == SubSeq(s, 1, i - 1)
           r == SubSeq(s, i, Len(s))
           m == l \o <<e>>
<1>0. Len(s) \in Nat
  BY LenProperties
<1>1. /\ l \in Seq(S) /\ Len(l) = i - 1
      /\ \A j \in 1 .. (i - 1) : l[j] = s[j]
  BY SubSeqProperties, ElementOfSeq, LenProperties
<1>2. /\ r \in Seq(S) /\ Len(r) = Len(s) - i + 1
      /\ \A j \in 1 .. (Len(s) - i + 1) : r[j] = s[i + j - 1]
  BY SubSeqProperties, ElementOfSeq, LenProperties
<1>3. <<e>> \in Seq(S) /\ Len(<<e>>) = 1 /\ <<e>>[1] = e
  OBVIOUS
<1> HIDE DEF l, r
<1>4. /\ m \in Seq(S) /\ Len(m) = i
      /\ \A j \in 1 .. i : m[j] = IF j < i THEN s[j] ELSE e
  BY <1>1, <1>3, ConcatProperties
<1> HIDE DEF m
<1>5. /\ m \o r \in Seq(S) /\ Len(m \o r) = Len(s) + 1
      /\ \A j \in 1 .. (Len(s) + 1) : (m \o r)[j] = IF j <= i THEN m[j] ELSE r[j - i]
  <2>1. /\ m \o r \in Seq(S) /\ Len(m \o r) = Len(m) + Len(r)
        /\ \A j \in 1 .. (Len(m) + Len(r)) :
             (m \o r)[j] = IF j <= Len(m) THEN m[j] ELSE r[j - Len(m)]
    BY <1>2, <1>4, ConcatProperties
  <2>2. Len(m) + Len(r) = Len(s) + 1 /\ Len(m) = i
    BY <1>0, <1>2, <1>4
  <2>. QED
    BY <2>1, <2>2
<1>6. InsertAt(s, i, e) = m \o r
  BY DEF InsertAt, l, r, m
<1>7. ASSUME NEW j \in 1 .. (Len(s) + 1)
      PROVE  (m \o r)[j] = IF j < i THEN s[j] ELSE IF j = i THEN e ELSE s[j - 1]
  <2>1. CASE j <= i
    BY <1>4, <1>5, <2>1, LenProperties
  <2>2. CASE ~(j <= i)
    <3>1. j - i \in 1 .. (Len(s) - i + 1) /\ i + (j - i) - 1 = j - 1
      BY <2>2, LenProperties
    <3>. QED
      BY <1>2, <1>5, <2>2, <3>1, LenProperties
  <2>. QED
    BY <2>1, <2>2
<1>. QED
  BY <1>5, <1>6, <1>7, SMTT(30)

-----------------------------------------------------------------------------
(* What freeBlock may do to the list                                       *)

LEMMA MidPoint ==
  ASSUME NEW lo \in Nat, NEW hi \in Nat, lo < hi
  PROVE  (lo + hi) \div 2 \in lo .. (hi - 1)
BY Z3

(* Blocks that touch lie in one buffer, for the buffers do not touch.      *)
LEMMA TouchingBlocks ==
  ASSUME MemoryTypes, BuffersApart,
         NEW p \in Extents, WithinABuffer(p), p.start < p.end,
         NEW q \in Extents, WithinABuffer(q), q.start < q.end,
         p.end = q.start
  PROVE  WithinABuffer([start |-> p.start, end |-> q.end])
<1>1. PICK b1 \in allBuffers : b1.start <= p.start /\ p.end <= b1.end
  BY DEF WithinABuffer
<1>2. PICK b2 \in allBuffers : b2.start <= q.start /\ q.end <= b2.end
  BY DEF WithinABuffer
<1>3. b1 \in Extents /\ b2 \in Extents
  BY DEF MemoryTypes
<1>4. ~(b1.end < b2.start) /\ ~(b2.end < b1.start)
  BY <1>1, <1>2, <1>3 DEF Extents
<1>5. b1 = b2
  BY <1>4 DEF BuffersApart
<1>. QED
  BY <1>1, <1>2, <1>5 DEF WithinABuffer

Freeing ==
  /\ MemoryTypes /\ FreeListApart /\ BuffersApart
  /\ \A i \in DOMAIN FreeBlocks : WithinABuffer(FreeBlocks[i])
  /\ newBlock.start < newBlock.end /\ WithinABuffer(newBlock)

(* The new block has become part of a list that is as ordered as before.   *)
Joined ==
  /\ FreeBlocks' \in Seq(Extents)
  /\ FreeListApart'
  /\ \A i \in DOMAIN FreeBlocks' : WithinABuffer(FreeBlocks'[i])
  /\ \A c \in Int : InFreeList(c)' <=> InFreeList(c) \/ c \in Cells(newBlock)

LEMMA FreeBlocksType ==
  ASSUME MemoryTypes
  PROVE  /\ Len(FreeBlocks) \in Nat /\ DOMAIN FreeBlocks = 1 .. Len(FreeBlocks)
         /\ \A i \in DOMAIN FreeBlocks : FreeBlocks[i] \in Extents
         /\ newBlock \in Extents
BY LenProperties, ElementOfSeq DEF MemoryTypes

LEMMA FreeBlocksNumbers ==
  ASSUME MemoryTypes
  PROVE  /\ \A i \in DOMAIN FreeBlocks :
              FreeBlocks[i].start \in Int /\ FreeBlocks[i].end \in Int
         /\ newBlock.start \in Int /\ newBlock.end \in Int
BY FreeBlocksType DEF Extents

(* The new block fills the gap between two blocks.                         *)
LEMMA MergeJoins ==
  ASSUME Freeing,
         NEW k \in DOMAIN FreeBlocks, k + 1 \in DOMAIN FreeBlocks,
         FreeBlocks[k].end = newBlock.start, FreeBlocks[k + 1].start = newBlock.end,
         FreeBlocks' \in Seq(Extents), Len(FreeBlocks') = Len(FreeBlocks) - 1,
         \A j \in 1 .. (Len(FreeBlocks) - 1) : j < k => FreeBlocks'[j] = FreeBlocks[j],
         FreeBlocks'[k] = [start |-> FreeBlocks[k].start, end |-> FreeBlocks[k + 1].end],
         \A j \in 1 .. (Len(FreeBlocks) - 1) : j > k => FreeBlocks'[j] = FreeBlocks[j + 1]
  PROVE  Joined
<1>0. /\ Len(FreeBlocks) \in Nat /\ DOMAIN FreeBlocks = 1 .. Len(FreeBlocks)
      /\ \A i \in DOMAIN FreeBlocks : FreeBlocks[i] \in Extents
      /\ newBlock \in Extents
  BY FreeBlocksType DEF Freeing
<1>n. /\ \A i \in DOMAIN FreeBlocks :
           FreeBlocks[i].start \in Int /\ FreeBlocks[i].end \in Int
      /\ newBlock.start \in Int /\ newBlock.end \in Int
  BY FreeBlocksNumbers DEF Freeing
<1>1. DOMAIN FreeBlocks' = 1 .. (Len(FreeBlocks) - 1)
  BY LenProperties
<1>a. /\ FreeBlocks'[k].start = FreeBlocks[k].start
      /\ FreeBlocks'[k].end = FreeBlocks[k + 1].end
  OBVIOUS
<1>2. FreeListApart'
  <2>1. \A i \in DOMAIN FreeBlocks' : \E a \in DOMAIN FreeBlocks :
          /\ (i < k /\ a = i) \/ (i >= k /\ a = i + 1)
          /\ FreeBlocks'[i].end = FreeBlocks[a].end
    <3> TAKE i \in DOMAIN FreeBlocks'
    <3>1. CASE i < k
      BY <1>0, <1>1, <3>1
    <3>2. CASE i = k
      BY <1>0, <1>1, <1>a, <3>2
    <3>3. CASE i > k
      <4>1. FreeBlocks'[i] = FreeBlocks[i + 1] /\ i + 1 \in DOMAIN FreeBlocks
        BY <1>0, <1>1, <3>3
      <4>. QED
        BY <1>0, <1>1, <3>3, <4>1
    <3>. QED
      BY <1>0, <1>1, <3>1, <3>2, <3>3
  <2>2. \A i \in DOMAIN FreeBlocks' : \E b \in DOMAIN FreeBlocks :
          /\ (i <= k /\ b = i) \/ (i > k /\ b = i + 1)
          /\ FreeBlocks'[i].start = FreeBlocks[b].start
    <3> TAKE i \in DOMAIN FreeBlocks'
    <3>1. CASE i < k
      BY <1>0, <1>1, <3>1
    <3>2. CASE i = k
      BY <1>0, <1>1, <1>a, <3>2
    <3>3. CASE i > k
      <4>1. FreeBlocks'[i] = FreeBlocks[i + 1] /\ i + 1 \in DOMAIN FreeBlocks
        BY <1>0, <1>1, <3>3
      <4>. QED
        BY <1>0, <1>1, <3>3, <4>1
    <3>. QED
      BY <1>0, <1>1, <3>1, <3>2, <3>3
  <2>3. ASSUME NEW i \in DOMAIN FreeBlocks' PROVE FreeBlocks'[i].start < FreeBlocks'[i].end
    <3>1. PICK a \in DOMAIN FreeBlocks :
            /\ (i < k /\ a = i) \/ (i >= k /\ a = i + 1)
            /\ FreeBlocks'[i].end = FreeBlocks[a].end
      BY <2>1
    <3>2. PICK b \in DOMAIN FreeBlocks :
            /\ (i <= k /\ b = i) \/ (i > k /\ b = i + 1)
            /\ FreeBlocks'[i].start = FreeBlocks[b].start
      BY <2>2
    <3>3. b = a \/ b < a
      BY <1>0, <1>1, <3>1, <3>2
    <3>4. /\ FreeBlocks[a].start < FreeBlocks[a].end
          /\ FreeBlocks[b].start < FreeBlocks[b].end
          /\ b < a => FreeBlocks[b].end < FreeBlocks[a].start
      BY DEF Freeing, FreeListApart
    <3>. QED
      BY <1>0, <1>n, <3>1, <3>2, <3>3, <3>4, SMTT(30)
  <2>4. ASSUME NEW i \in DOMAIN FreeBlocks', NEW j \in DOMAIN FreeBlocks', i < j
        PROVE  FreeBlocks'[i].end < FreeBlocks'[j].start
    <3>1. PICK a \in DOMAIN FreeBlocks :
            /\ (i < k /\ a = i) \/ (i >= k /\ a = i + 1)
            /\ FreeBlocks'[i].end = FreeBlocks[a].end
      BY <2>1
    <3>2. PICK b \in DOMAIN FreeBlocks :
            /\ (j <= k /\ b = j) \/ (j > k /\ b = j + 1)
            /\ FreeBlocks'[j].start = FreeBlocks[b].start
      BY <2>2
    <3>3. a < b
      BY <1>0, <1>1, <2>4, <3>1, <3>2
    <3>. QED
      BY <3>1, <3>2, <3>3 DEF Freeing, FreeListApart
  <2>. QED
    BY <2>3, <2>4 DEF FreeListApart
<1>3. WithinABuffer([start |-> FreeBlocks[k].start, end |-> FreeBlocks[k + 1].end])
  <2>1. WithinABuffer([start |-> FreeBlocks[k].start, end |-> newBlock.end])
    BY <1>0, TouchingBlocks DEF Freeing, FreeListApart
  <2>2. [start |-> FreeBlocks[k].start, end |-> newBlock.end] \in Extents
    BY <1>0 DEF Extents
  <2>3. FreeBlocks[k].start < newBlock.end
    BY <1>0, SMTT(30) DEF Freeing, FreeListApart, Extents
  <2> DEFINE p == [start |-> FreeBlocks[k].start, end |-> newBlock.end]
             q == FreeBlocks[k + 1]
  <2>4. p.start = FreeBlocks[k].start /\ p.end = newBlock.end
    OBVIOUS
  <2>5. /\ WithinABuffer(q) /\ q.start < q.end /\ q \in Extents
        /\ MemoryTypes /\ BuffersApart
    BY <1>0 DEF Freeing, FreeListApart
  <2>6. WithinABuffer(p) /\ p \in Extents /\ p.start < p.end /\ p.end = q.start
    BY <2>1, <2>2, <2>3, <2>4
  <2> HIDE DEF p, q
  <2>7. WithinABuffer([start |-> p.start, end |-> q.end])
    BY <2>5, <2>6, TouchingBlocks
  <2>. QED
    BY <2>4, <2>7 DEF q
<1>4. ASSUME NEW i \in DOMAIN FreeBlocks' PROVE WithinABuffer(FreeBlocks'[i])
  <2>1. CASE i < k
    BY <1>0, <1>1, <2>1 DEF Freeing
  <2>2. CASE i = k
    BY <1>3, <2>2
  <2>3. CASE i > k
    <3>1. FreeBlocks'[i] = FreeBlocks[i + 1] /\ i + 1 \in DOMAIN FreeBlocks
      BY <1>0, <1>1, <2>3
    <3>. QED
      BY <3>1 DEF Freeing
  <2>. QED
    BY <1>0, <1>1, <2>1, <2>2, <2>3
<1>5. ASSUME NEW c \in Int, InFreeList(c)' PROVE InFreeList(c) \/ c \in Cells(newBlock)
  <2>1. PICK j \in 1 .. (Len(FreeBlocks) - 1) : c \in Cells(FreeBlocks'[j])
    BY <1>1, <1>5 DEF InFreeList, Cells
  <2>2. CASE j < k
    BY <1>0, <2>1, <2>2, SMTT(30) DEF InFreeList
  <2>3. CASE j = k
    <3>1. \/ c \in Cells(FreeBlocks[k]) \/ c \in Cells(FreeBlocks[k + 1])
          \/ c \in Cells(newBlock)
      <4>1. FreeBlocks[k].start <= c /\ c < FreeBlocks[k + 1].end
        BY <1>0, <1>n, <1>a, <2>1, <2>3 DEF Cells
      <4>2. \/ c < FreeBlocks[k].end \/ FreeBlocks[k + 1].start <= c
            \/ newBlock.start <= c /\ c < newBlock.end
        BY <1>n, <4>1
      <4>. QED
        BY <1>n, <4>1, <4>2, SMTT(30) DEF Cells
    <3>. QED
      BY <3>1 DEF InFreeList
  <2>4. CASE j > k
    BY <1>0, <2>1, <2>4 DEF InFreeList
  <2>. QED
    BY <1>0, <2>2, <2>3, <2>4
<1>6. ASSUME NEW c \in Int, InFreeList(c) \/ c \in Cells(newBlock) PROVE InFreeList(c)'
  <2>0. \A j \in 1 .. (Len(FreeBlocks) - 1) : c \in Cells(FreeBlocks'[j]) => InFreeList(c)'
    BY <1>1 DEF InFreeList, Cells
  <2>a. k \in 1 .. (Len(FreeBlocks) - 1)
    BY <1>0
  <2>b. c \in Cells([start |-> FreeBlocks[k].start, end |-> FreeBlocks[k + 1].end])
          => InFreeList(c)'
    BY <2>0, <2>a
  <2>c. /\ FreeBlocks[k].start < FreeBlocks[k].end
        /\ FreeBlocks[k + 1].start < FreeBlocks[k + 1].end
        /\ newBlock.start < newBlock.end
    BY DEF Freeing, FreeListApart
  <2>1. CASE c \in Cells(newBlock)
    BY <1>0, <2>b, <2>c, <2>1, SMTT(30) DEF Cells, Extents
  <2>2. ASSUME NEW i \in DOMAIN FreeBlocks, c \in Cells(FreeBlocks[i]) PROVE InFreeList(c)'
    <3>1. CASE i < k
      <4>1. i \in 1 .. (Len(FreeBlocks) - 1)
        BY <2>a, <3>1
      <4>2. FreeBlocks'[i] = FreeBlocks[i]
        BY <1>0, <3>1, <4>1
      <4>. QED
        BY <2>0, <2>2, <4>1, <4>2
    <3>2. CASE i = k
      BY <1>0, <2>b, <2>2, <3>2, SMTT(30) DEF Cells, Extents, Freeing, FreeListApart
    <3>3. CASE i = k + 1
      BY <1>0, <2>b, <2>2, <3>3, SMTT(30) DEF Cells, Extents, Freeing, FreeListApart
    <3>4. CASE i > k + 1
      <4>1. /\ i - 1 \in 1 .. (Len(FreeBlocks) - 1) /\ i - 1 > k
            /\ (i - 1) + 1 = i
        BY <1>0, <3>4
      <4>. QED
        BY <2>0, <2>2, <4>1
    <3>. QED
      BY <1>0, <1>n, <3>1, <3>2, <3>3, <3>4
  <2>. QED
    BY <1>6, <2>1, <2>2 DEF InFreeList
<1>. QED
  BY <1>2, <1>4, <1>5, <1>6 DEF Joined

(* One block grows over the new one, to the left or to the right.          *)
LEMMA GrowthJoins ==
  ASSUME Freeing,
         NEW k \in DOMAIN FreeBlocks, NEW grown \in Extents,
         \/ /\ FreeBlocks[k].start = newBlock.end
            /\ grown = [start |-> newBlock.start, end |-> FreeBlocks[k].end]
            /\ k > 1 => FreeBlocks[k - 1].end < newBlock.start
         \/ /\ FreeBlocks[k].end = newBlock.start
            /\ grown = [start |-> FreeBlocks[k].start, end |-> newBlock.end]
            /\ k < Len(FreeBlocks) => newBlock.end < FreeBlocks[k + 1].start,
         FreeBlocks' = [FreeBlocks EXCEPT ![k] = grown]
  PROVE  Joined
<1>0. /\ Len(FreeBlocks) \in Nat /\ DOMAIN FreeBlocks = 1 .. Len(FreeBlocks)
      /\ \A i \in DOMAIN FreeBlocks : FreeBlocks[i] \in Extents
      /\ newBlock \in Extents
  BY FreeBlocksType DEF Freeing
<1>n. /\ \A i \in DOMAIN FreeBlocks :
           FreeBlocks[i].start \in Int /\ FreeBlocks[i].end \in Int
      /\ newBlock.start \in Int /\ newBlock.end \in Int
  BY FreeBlocksNumbers DEF Freeing
<1>1. /\ FreeBlocks' \in Seq(Extents)
      /\ DOMAIN FreeBlocks' = 1 .. Len(FreeBlocks)
      /\ FreeBlocks'[k] = grown
      /\ \A j \in DOMAIN FreeBlocks \ {k} : FreeBlocks'[j] = FreeBlocks[j]
  BY <1>0, ExceptSeq DEF Freeing, MemoryTypes
<1>2. FreeListApart'
  <2>1. grown.start < grown.end
    BY <1>0 DEF Freeing, FreeListApart, Extents
  <2>2. ASSUME NEW i \in DOMAIN FreeBlocks, i < k PROVE FreeBlocks[i].end < grown.start
    <3>1. FreeBlocks[i].end < FreeBlocks[k].start
      BY <2>2 DEF Freeing, FreeListApart
    <3>2. CASE grown.start = FreeBlocks[k].start
      BY <3>1, <3>2
    <3>3. CASE grown.start = newBlock.start /\ (k > 1 => FreeBlocks[k - 1].end < newBlock.start)
      <4>1. k - 1 \in DOMAIN FreeBlocks /\ k > 1 /\ (i = k - 1 \/ i < k - 1)
        BY <1>0, <2>2
      <4>2. i < k - 1 => /\ FreeBlocks[i].end < FreeBlocks[k - 1].start
                         /\ FreeBlocks[k - 1].start < FreeBlocks[k - 1].end
        BY <4>1 DEF Freeing, FreeListApart
      <4>. QED
        BY <1>0, <3>3, <4>1, <4>2 DEF Extents
    <3>. QED
      BY <3>2, <3>3
  <2>3. ASSUME NEW i \in DOMAIN FreeBlocks, k < i PROVE grown.end < FreeBlocks[i].start
    <3>1. FreeBlocks[k].end < FreeBlocks[i].start
      BY <2>3 DEF Freeing, FreeListApart
    <3>2. CASE grown.end = FreeBlocks[k].end
      BY <3>1, <3>2
    <3>3. CASE /\ grown.end = newBlock.end
               /\ k < Len(FreeBlocks) => newBlock.end < FreeBlocks[k + 1].start
      <4>1. k + 1 \in DOMAIN FreeBlocks /\ k < Len(FreeBlocks) /\ (i = k + 1 \/ k + 1 < i)
        BY <1>0, <2>3
      <4>2. k + 1 < i => /\ FreeBlocks[k + 1].end < FreeBlocks[i].start
                         /\ FreeBlocks[k + 1].start < FreeBlocks[k + 1].end
        BY <4>1 DEF Freeing, FreeListApart
      <4>. QED
        BY <1>0, <3>3, <4>1, <4>2 DEF Extents
    <3>. QED
      BY <3>2, <3>3
  <2>. QED
    BY <1>0, <1>1, <2>1, <2>2, <2>3 DEF Freeing, FreeListApart
<1>3. WithinABuffer(grown)
  BY <1>0, TouchingBlocks DEF Freeing, FreeListApart
<1>4. ASSUME NEW i \in DOMAIN FreeBlocks' PROVE WithinABuffer(FreeBlocks'[i])
  BY <1>0, <1>1, <1>3 DEF Freeing
<1>5. \A c \in Int : c \in Cells(grown) <=> c \in Cells(FreeBlocks[k]) \cup Cells(newBlock)
  BY <1>0 DEF Cells, Extents, Freeing, FreeListApart
<1>6. ASSUME NEW c \in Int PROVE InFreeList(c)' <=> InFreeList(c) \/ c \in Cells(newBlock)
  <2>1. InFreeList(c)' <=> \E i \in DOMAIN FreeBlocks' : c \in Cells(FreeBlocks'[i])
    BY DEF InFreeList, Cells
  <2>. QED
    BY <1>0, <1>1, <1>5, <2>1 DEF InFreeList
<1>. QED
  BY <1>1, <1>2, <1>4, <1>6 DEF Joined

(* The new block goes between two blocks that it does not touch.           *)
LEMMA InsertionJoins ==
  ASSUME Freeing,
         NEW k \in 1 .. (Len(FreeBlocks) + 1),
         \A i \in DOMAIN FreeBlocks : i < k => FreeBlocks[i].end < newBlock.start,
         \A i \in DOMAIN FreeBlocks : i >= k => newBlock.end < FreeBlocks[i].start,
         FreeBlocks' = InsertAt(FreeBlocks, k, newBlock)
  PROVE  Joined
<1>0. /\ Len(FreeBlocks) \in Nat /\ DOMAIN FreeBlocks = 1 .. Len(FreeBlocks)
      /\ \A i \in DOMAIN FreeBlocks : FreeBlocks[i] \in Extents
      /\ newBlock \in Extents /\ FreeBlocks \in Seq(Extents)
  BY FreeBlocksType DEF Freeing, MemoryTypes
<1>n. /\ \A i \in DOMAIN FreeBlocks :
           FreeBlocks[i].start \in Int /\ FreeBlocks[i].end \in Int
      /\ newBlock.start \in Int /\ newBlock.end \in Int
  BY FreeBlocksNumbers DEF Freeing
<1>1. /\ FreeBlocks' \in Seq(Extents) /\ Len(FreeBlocks') = Len(FreeBlocks) + 1
      /\ \A j \in 1 .. (Len(FreeBlocks) + 1) : j < k => FreeBlocks'[j] = FreeBlocks[j]
      /\ FreeBlocks'[k] = newBlock
      /\ \A j \in 1 .. (Len(FreeBlocks) + 1) : j > k => FreeBlocks'[j] = FreeBlocks[j - 1]
  <2>1. newBlock \in Extents /\ FreeBlocks \in Seq(Extents)
    BY <1>0
  <2>2. \A s \in Seq(Extents), e \in Extents : k \in 1 .. (Len(s) + 1) =>
          /\ InsertAt(s, k, e) \in Seq(Extents) /\ Len(InsertAt(s, k, e)) = Len(s) + 1
          /\ \A j \in 1 .. (Len(s) + 1) : j < k => InsertAt(s, k, e)[j] = s[j]
          /\ InsertAt(s, k, e)[k] = e
          /\ \A j \in 1 .. (Len(s) + 1) : j > k => InsertAt(s, k, e)[j] = s[j - 1]
    BY InsertAtFacts
  <2>. QED
    BY <2>1, <2>2
<1>2. DOMAIN FreeBlocks' = 1 .. (Len(FreeBlocks) + 1)
  BY <1>1, LenProperties
<1>3. FreeListApart'
  <2>1. ASSUME NEW i \in DOMAIN FreeBlocks', NEW j \in DOMAIN FreeBlocks'
        PROVE  /\ FreeBlocks'[i].start < FreeBlocks'[i].end
               /\ i < j => FreeBlocks'[i].end < FreeBlocks'[j].start
    <3>1. CASE i < k /\ j < k
      <4>1. i \in DOMAIN FreeBlocks /\ j \in DOMAIN FreeBlocks
        BY <1>0, <1>2, <3>1
      <4>. QED
        BY <1>1, <1>2, <3>1, <4>1 DEF Freeing, FreeListApart
    <3>2. CASE i < k /\ j = k
      <4>1. i \in DOMAIN FreeBlocks
        BY <1>0, <1>2, <3>2
      <4>2. FreeBlocks'[i] = FreeBlocks[i] /\ FreeBlocks'[j] = newBlock
        BY <1>1, <1>2, <3>2
      <4>3. FreeBlocks[i].start < FreeBlocks[i].end
        BY <4>1 DEF Freeing, FreeListApart
      <4>4. FreeBlocks[i].end < newBlock.start
        BY <3>2, <4>1
      <4>. QED
        BY <4>2, <4>3, <4>4
    <3>3. CASE i < k /\ j > k
      <4>1. j - 1 \in DOMAIN FreeBlocks /\ i < j - 1 /\ i \in DOMAIN FreeBlocks
        BY <1>0, <1>2, <3>3
      <4>. QED
        BY <1>1, <1>2, <3>3, <4>1 DEF Freeing, FreeListApart
    <3>4. CASE i = k /\ j > k
      <4>1. j - 1 \in DOMAIN FreeBlocks /\ j - 1 >= k
        BY <1>0, <1>2, <3>4
      <4>. QED
        BY <1>1, <1>2, <3>4, <4>1 DEF Freeing
    <3>5. CASE i = k /\ ~(j > k)
      BY <1>0, <1>1, <1>2, <3>5 DEF Freeing
    <3>6. CASE i > k
      <4>1. i - 1 \in DOMAIN FreeBlocks
        BY <1>0, <1>2, <3>6
      <4>2. i < j => j - 1 \in DOMAIN FreeBlocks /\ i - 1 < j - 1 /\ j > k
        BY <1>0, <1>2, <3>6
      <4>. QED
        BY <1>1, <1>2, <3>6, <4>1, <4>2 DEF Freeing, FreeListApart
    <3>. QED
      BY <1>0, <1>2, <3>1, <3>2, <3>3, <3>4, <3>5, <3>6
  <2>. QED
    BY <2>1 DEF FreeListApart
<1>4. ASSUME NEW i \in DOMAIN FreeBlocks' PROVE WithinABuffer(FreeBlocks'[i])
  <2>1. CASE i < k
    BY <1>0, <1>1, <1>2, <2>1 DEF Freeing
  <2>2. CASE i = k
    BY <1>1, <2>2 DEF Freeing
  <2>3. CASE i > k
    <3>1. FreeBlocks'[i] = FreeBlocks[i - 1] /\ i - 1 \in DOMAIN FreeBlocks
      BY <1>0, <1>1, <1>2, <2>3
    <3>. QED
      BY <3>1 DEF Freeing
  <2>. QED
    BY <1>0, <1>2, <2>1, <2>2, <2>3
<1>5. ASSUME NEW c \in Int PROVE InFreeList(c)' <=> InFreeList(c) \/ c \in Cells(newBlock)
  <2>1. InFreeList(c)' <=> \E i \in 1 .. (Len(FreeBlocks) + 1) : c \in Cells(FreeBlocks'[i])
    BY <1>2 DEF InFreeList, Cells
  <2>2. FreeBlocks'[k] = newBlock
    BY <1>1
  <2>3. \A i \in DOMAIN FreeBlocks :
          \E j \in 1 .. (Len(FreeBlocks) + 1) : FreeBlocks'[j] = FreeBlocks[i]
    <3> TAKE i \in DOMAIN FreeBlocks
    <3>1. CASE i < k
      BY <1>0, <1>1, <3>1
    <3>2. CASE ~(i < k)
      <4>1. /\ i + 1 \in 1 .. (Len(FreeBlocks) + 1) /\ i + 1 > k
            /\ (i + 1) - 1 = i
        BY <1>0, <3>2
      <4>. QED
        BY <1>1, <4>1
    <3>. QED
      BY <3>1, <3>2
  <2>4. \A j \in 1 .. (Len(FreeBlocks) + 1) :
          FreeBlocks'[j] = newBlock \/ \E i \in DOMAIN FreeBlocks : FreeBlocks'[j] = FreeBlocks[i]
    <3> TAKE j \in 1 .. (Len(FreeBlocks) + 1)
    <3>1. CASE j < k
      BY <1>0, <1>1, <3>1
    <3>2. CASE j = k
      BY <1>1, <3>2
    <3>3. CASE j > k
      <4>1. FreeBlocks'[j] = FreeBlocks[j - 1] /\ j - 1 \in DOMAIN FreeBlocks
        BY <1>0, <1>1, <3>3
      <4>. QED
        BY <4>1
    <3>. QED
      BY <1>0, <3>1, <3>2, <3>3
  <2>. QED
    BY <2>1, <2>2, <2>3, <2>4 DEF InFreeList
<1>. QED
  BY <1>1, <1>3, <1>4, <1>5 DEF Joined

-----------------------------------------------------------------------------
(* The five ways a call of freeBlock ends or goes on                       *)

(* A free block that does not touch the new one lies wholly on one side.   *)
LEMMA OneSide ==
  ASSUME MemoryTypes, PoolInv, Searching, NEW i \in DOMAIN FreeBlocks
  PROVE  /\ FreeBlocks[i].start < newBlock.end => FreeBlocks[i].end <= newBlock.start
         /\ newBlock.start < FreeBlocks[i].end => newBlock.end <= FreeBlocks[i].start
<1>1. /\ FreeBlocks[i].start < FreeBlocks[i].end /\ newBlock.start < newBlock.end
      /\ FreeBlocks[i].start \in Int /\ FreeBlocks[i].end \in Int
      /\ newBlock.start \in Int /\ newBlock.end \in Int
  BY FreeBlocksNumbers DEF PoolInv, FreeListApart, SearchNarrows
<1>2. \A c \in Cells(FreeBlocks[i]) : c \notin Cells(newBlock)
  BY DEF PoolInv, NothingShared, Pending
<1>3. CASE FreeBlocks[i].start < newBlock.start
  <2>1. FreeBlocks[i].end <= newBlock.start
    BY <1>1, <1>2, <1>3 DEF Cells
  <2>. QED
    BY <1>1, <2>1
<1>4. CASE FreeBlocks[i].start >= newBlock.start
  <2>1. newBlock.end <= FreeBlocks[i].start
    BY <1>1, <1>2, <1>4 DEF Cells
  <2>. QED
    BY <1>1, <2>1
<1>. QED
  BY <1>1, <1>3, <1>4

LEMMA SearchIsFreeing == MemoryTypes /\ PoolInv /\ Searching => Freeing
BY DEF PoolInv, Freeing, SearchNarrows, AllInBuffers

LEMMA ProbeInList ==
  ASSUME MemoryTypes, PoolInv, Searching, minimum < maximum
  PROVE  /\ midPoint \in minimum .. (maximum - 1) /\ midPoint \in Nat
         /\ midPoint + 1 \in DOMAIN FreeBlocks
         /\ maximum <= Len(FreeBlocks) /\ Len(FreeBlocks) \in Nat
         /\ DOMAIN FreeBlocks = 1 .. Len(FreeBlocks)
<1>1. minimum \in Nat /\ maximum \in Nat /\ maximum <= Len(FreeBlocks)
  BY DEF MemoryTypes, PoolInv, SearchNarrows
<1>2. midPoint \in minimum .. (maximum - 1)
  BY <1>1, MidPoint DEF midPoint
<1>. QED
  BY <1>1, <1>2, FreeBlocksType

LEMMA JoinLeftStep ==
  ASSUME MemoryTypes, PoolInv, JoinLeftOfProbe
  PROVE  Joined
<1> DEFINE k == midPoint
<1>0. Searching /\ minimum < maximum /\ Freeing
  BY SearchIsFreeing DEF JoinLeftOfProbe
<1>1. /\ k \in Nat /\ k + 1 \in DOMAIN FreeBlocks
      /\ Len(FreeBlocks) \in Nat /\ DOMAIN FreeBlocks = 1 .. Len(FreeBlocks)
  BY <1>0, ProbeInList
<1>2. FreeBlocks[k + 1].start = newBlock.end
  BY DEF JoinLeftOfProbe, Probe
<1>3. CASE k > 0 /\ FreeBlocks[k].end = newBlock.start
  <2> DEFINE m == [start |-> FreeBlocks[k].start, end |-> FreeBlocks[k + 1].end]
             E == [FreeBlocks EXCEPT ![k] = m]
  <2>0. k \in DOMAIN FreeBlocks
    BY <1>1, <1>3
  <2>1. FreeBlocks' = RemoveAt(E, k + 1)
    BY <1>1, <1>3 DEF JoinLeftOfProbe, Probe
  <2>2. m \in Extents
    BY <1>1, <2>0, FreeBlocksNumbers DEF Extents
  <2>3. /\ E \in Seq(Extents) /\ Len(E) = Len(FreeBlocks) /\ E[k] = m
        /\ \A j \in 1 .. Len(FreeBlocks) : j # k => E[j] = FreeBlocks[j]
    BY <1>1, <2>0, <2>2, ExceptSeq DEF MemoryTypes
  <2> HIDE DEF E, m
  <2>4. /\ FreeBlocks' \in Seq(Extents) /\ Len(FreeBlocks') = Len(FreeBlocks) - 1
        /\ \A j \in 1 .. (Len(FreeBlocks) - 1) : j < k + 1 => FreeBlocks'[j] = E[j]
        /\ \A j \in 1 .. (Len(FreeBlocks) - 1) : ~(j < k + 1) => FreeBlocks'[j] = E[j + 1]
    <3>1. k + 1 \in 1 .. Len(E)
      BY <1>1, <2>0, <2>3
    <3>2. /\ RemoveAt(E, k + 1) \in Seq(Extents) /\ Len(RemoveAt(E, k + 1)) = Len(E) - 1
          /\ \A j \in 1 .. (Len(E) - 1) : j < k + 1 => RemoveAt(E, k + 1)[j] = E[j]
          /\ \A j \in 1 .. (Len(E) - 1) : ~(j < k + 1) => RemoveAt(E, k + 1)[j] = E[j + 1]
      BY <2>3, <3>1, RemoveAtFacts
    <3>. QED
      BY <2>1, <2>3, <3>2
  <2>5. /\ \A j \in 1 .. (Len(FreeBlocks) - 1) : j < k => FreeBlocks'[j] = FreeBlocks[j]
        /\ FreeBlocks'[k] = m
        /\ \A j \in 1 .. (Len(FreeBlocks) - 1) : j > k => FreeBlocks'[j] = FreeBlocks[j + 1]
    <3>1. ASSUME NEW j \in 1 .. (Len(FreeBlocks) - 1), j < k
          PROVE  FreeBlocks'[j] = FreeBlocks[j]
      <4>1. j < k + 1 /\ j # k /\ j # k + 1 /\ j \in 1 .. Len(FreeBlocks)
        BY <1>1, <3>1
      <4>. QED
        BY <2>3, <2>4, <3>1, <4>1
    <3>2. FreeBlocks'[k] = m
      BY <1>1, <2>0, <2>3, <2>4
    <3>3. ASSUME NEW j \in 1 .. (Len(FreeBlocks) - 1), j > k
          PROVE  FreeBlocks'[j] = FreeBlocks[j + 1]
      <4>1. /\ ~(j < k + 1) /\ ~(j < k) /\ j + 1 # k /\ j + 1 # k + 1
            /\ j + 1 \in 1 .. Len(FreeBlocks)
        BY <1>1, <3>3
      <4>. QED
        BY <2>3, <2>4, <4>1
    <3>. QED
      BY <3>1, <3>2, <3>3
  <2>. QED
    BY <1>0, <1>1, <1>2, <1>3, <2>0, <2>4, <2>5, MergeJoins DEF m
<1>4. CASE ~(k > 0 /\ FreeBlocks[k].end = newBlock.start)
  <2> DEFINE m == [start |-> newBlock.start, end |-> FreeBlocks[k + 1].end]
  <2>1. FreeBlocks' = [FreeBlocks EXCEPT ![k + 1] = m]
    <3>1. (midPoint - 1) + 1 = midPoint
      BY <1>1
    <3>. QED
      BY <1>4, <3>1 DEF JoinLeftOfProbe, Probe
  <2>2. m \in Extents
    BY <1>1, FreeBlocksNumbers DEF Extents
  <2>3. k + 1 > 1 => FreeBlocks[(k + 1) - 1].end < newBlock.start
    <3> SUFFICES ASSUME k > 0 PROVE FreeBlocks[k].end < newBlock.start
      BY <1>1
    <3>1. k \in DOMAIN FreeBlocks
      BY <1>1
    <3>2. FreeBlocks[k].end < FreeBlocks[k + 1].start /\ FreeBlocks[k].start < FreeBlocks[k].end
      BY <1>1, <3>1 DEF PoolInv, FreeListApart
    <3>3. FreeBlocks[k].end <= newBlock.start
      BY <1>0, <1>2, <3>1, <3>2, OneSide, FreeBlocksNumbers
    <3>. QED
      BY <1>4, <3>1, <3>3, FreeBlocksNumbers
  <2> HIDE DEF m
  <2>4. m = [start |-> newBlock.start, end |-> FreeBlocks[k + 1].end]
    BY DEF m
  <2>. QED
    BY <1>0, <1>1, <1>2, <2>1, <2>2, <2>3, <2>4, GrowthJoins
<1>. QED
  BY <1>3, <1>4

LEMMA JoinRightStep ==
  ASSUME MemoryTypes, PoolInv, JoinRightOfProbe
  PROVE  Joined
<1> DEFINE k == midPoint + 1
<1>0. Searching /\ minimum < maximum /\ Freeing
  BY SearchIsFreeing DEF JoinRightOfProbe
<1>1. /\ midPoint \in Nat /\ k \in DOMAIN FreeBlocks /\ k <= maximum
      /\ Len(FreeBlocks) \in Nat /\ DOMAIN FreeBlocks = 1 .. Len(FreeBlocks)
      /\ maximum <= Len(FreeBlocks) /\ maximum \in Nat
  BY <1>0, ProbeInList DEF MemoryTypes
<1>2. FreeBlocks[k].end = newBlock.start
  BY DEF JoinRightOfProbe, Probe
<1>3. CASE midPoint < maximum - 1 /\ FreeBlocks[k + 1].start = newBlock.end
  <2> DEFINE m == [start |-> FreeBlocks[k].start, end |-> FreeBlocks[k + 1].end]
             E == [FreeBlocks EXCEPT ![k + 1] = m]
  <2>0. k + 1 \in DOMAIN FreeBlocks
    BY <1>1, <1>3
  <2>1. FreeBlocks' = RemoveAt(E, k)
    <3>1. midPoint + 2 = k + 1 /\ (midPoint + 1) + 1 = k + 1
      BY <1>1
    <3>. QED
      BY <1>3, <3>1 DEF JoinRightOfProbe, Probe
  <2>2. m \in Extents
    BY <1>1, <2>0, FreeBlocksNumbers DEF Extents
  <2>3. /\ E \in Seq(Extents) /\ Len(E) = Len(FreeBlocks) /\ E[k + 1] = m
        /\ \A j \in 1 .. Len(FreeBlocks) : j # k + 1 => E[j] = FreeBlocks[j]
    BY <1>1, <2>0, <2>2, ExceptSeq DEF MemoryTypes
  <2> HIDE DEF E, m
  <2>4. /\ FreeBlocks' \in Seq(Extents) /\ Len(FreeBlocks') = Len(FreeBlocks) - 1
        /\ \A j \in 1 .. (Len(FreeBlocks) - 1) : j < k => FreeBlocks'[j] = E[j]
        /\ \A j \in 1 .. (Len(FreeBlocks) - 1) : ~(j < k) => FreeBlocks'[j] = E[j + 1]
    <3>1. k \in 1 .. Len(E)
      BY <1>1, <2>0, <2>3
    <3>2. /\ RemoveAt(E, k) \in Seq(Extents) /\ Len(RemoveAt(E, k)) = Len(E) - 1
          /\ \A j \in 1 .. (Len(E) - 1) : j < k => RemoveAt(E, k)[j] = E[j]
          /\ \A j \in 1 .. (Len(E) - 1) : ~(j < k) => RemoveAt(E, k)[j] = E[j + 1]
      BY <2>3, <3>1, RemoveAtFacts
    <3>. QED
      BY <2>1, <2>3, <3>2
  <2>5. /\ \A j \in 1 .. (Len(FreeBlocks) - 1) : j < k => FreeBlocks'[j] = FreeBlocks[j]
        /\ FreeBlocks'[k] = m
        /\ \A j \in 1 .. (Len(FreeBlocks) - 1) : j > k => FreeBlocks'[j] = FreeBlocks[j + 1]
    <3>1. ASSUME NEW j \in 1 .. (Len(FreeBlocks) - 1), j < k
          PROVE  FreeBlocks'[j] = FreeBlocks[j]
      <4>1. j < k + 1 /\ j # k /\ j # k + 1 /\ j \in 1 .. Len(FreeBlocks)
        BY <1>1, <3>1
      <4>. QED
        BY <2>3, <2>4, <3>1, <4>1
    <3>2. FreeBlocks'[k] = m
      <4>1. k \in 1 .. (Len(FreeBlocks) - 1) /\ ~(k < k)
        BY <1>1, <2>0
      <4>. QED
        BY <2>3, <2>4, <4>1
    <3>3. ASSUME NEW j \in 1 .. (Len(FreeBlocks) - 1), j > k
          PROVE  FreeBlocks'[j] = FreeBlocks[j + 1]
      <4>1. /\ ~(j < k + 1) /\ ~(j < k) /\ j + 1 # k /\ j + 1 # k + 1
            /\ j + 1 \in 1 .. Len(FreeBlocks)
        BY <1>1, <3>3
      <4>. QED
        BY <2>3, <2>4, <4>1
    <3>. QED
      BY <3>1, <3>2, <3>3
  <2>. QED
    BY <1>0, <1>1, <1>2, <1>3, <2>0, <2>4, <2>5, MergeJoins DEF m
<1>4. CASE ~(midPoint < maximum - 1 /\ FreeBlocks[k + 1].start = newBlock.end)
  <2> DEFINE m == [start |-> FreeBlocks[k].start, end |-> newBlock.end]
  <2>1. FreeBlocks' = [FreeBlocks EXCEPT ![k] = m]
    BY <1>4 DEF JoinRightOfProbe, Probe
  <2>2. m \in Extents
    BY <1>1, FreeBlocksNumbers DEF Extents
  <2>3. k < Len(FreeBlocks) => newBlock.end < FreeBlocks[k + 1].start
    <3> SUFFICES ASSUME k < Len(FreeBlocks) PROVE newBlock.end < FreeBlocks[k + 1].start
      OBVIOUS
    <3>1. k + 1 \in DOMAIN FreeBlocks
      BY <1>1
    <3>2. CASE midPoint < maximum - 1
      <4>1. /\ FreeBlocks[k].end < FreeBlocks[k + 1].start
            /\ FreeBlocks[k + 1].start < FreeBlocks[k + 1].end
        BY <1>1, <3>1 DEF PoolInv, FreeListApart
      <4>2. newBlock.end <= FreeBlocks[k + 1].start
        BY <1>0, <1>2, <3>1, <4>1, OneSide, FreeBlocksNumbers
      <4>. QED
        BY <1>4, <3>1, <3>2, <4>2, FreeBlocksNumbers
    <3>3. CASE ~(midPoint < maximum - 1)
      <4>1. k + 1 > maximum
        BY <1>1, <3>3
      <4>. QED
        BY <1>0, <3>1, <4>1 DEF PoolInv, SearchNarrows
    <3>. QED
      BY <3>2, <3>3
  <2> HIDE DEF m
  <2>4. m = [start |-> FreeBlocks[k].start, end |-> newBlock.end]
    BY DEF m
  <2>. QED
    BY <1>0, <1>1, <1>2, <2>1, <2>2, <2>3, <2>4, GrowthJoins
<1>. QED
  BY <1>3, <1>4

LEMMA InsertStep ==
  ASSUME MemoryTypes, PoolInv, InsertBlock
  PROVE  Joined
<1>0. Searching /\ Freeing
  BY SearchIsFreeing DEF InsertBlock
<1>1. /\ minimum \in Nat /\ minimum = maximum /\ maximum <= Len(FreeBlocks)
      /\ Len(FreeBlocks) \in Nat /\ DOMAIN FreeBlocks = 1 .. Len(FreeBlocks)
  BY <1>0, FreeBlocksType DEF InsertBlock, MemoryTypes, PoolInv, SearchNarrows
<1>2. minimum + 1 \in 1 .. (Len(FreeBlocks) + 1)
  BY <1>1
<1>3. \A i \in DOMAIN FreeBlocks : i < minimum + 1 => FreeBlocks[i].end < newBlock.start
  BY <1>0, <1>1 DEF PoolInv, SearchNarrows
<1>4. \A i \in DOMAIN FreeBlocks : i >= minimum + 1 => newBlock.end < FreeBlocks[i].start
  BY <1>0, <1>1 DEF PoolInv, SearchNarrows
<1>5. FreeBlocks' = InsertAt(FreeBlocks, minimum + 1, newBlock)
  BY DEF InsertBlock
<1>. QED
  BY <1>0, <1>2, <1>3, <1>4, <1>5, InsertionJoins

(* A block has joined the list: nothing else has changed hands.            *)
LEMMA ReturnStep ==
  ASSUME MemoryTypes, PoolInv, Searching, Joined, Return
  PROVE  /\ MemoryTypes' /\ PoolInv'
         /\ NothingLost => NothingLost'
<1>1. MemoryTypes'
  BY DEF MemoryTypes, Joined, Return, active, growth, Searching, NoBlock, Block, Extents
<1>2. pc' \in {"idle", "grow"} /\ ~Searching'
  BY DEF Return, Searching
<1>3. /\ Rest' \subseteq Rest /\ Pending' = {} /\ live' = live
      /\ Rest' = Rest
  BY DEF Return, Searching, Rest, Pending, active
<1>4. NothingShared'
  <2>1. ASSUME NEW i \in DOMAIN FreeBlocks', NEW c \in Cells(FreeBlocks'[i])
        PROVE  c \notin live' \cup Rest' \cup Pending'
    <3>1. c \in Int /\ InFreeList(c)'
      BY <2>1 DEF Cells, InFreeList
    <3>2. InFreeList(c) \/ c \in Cells(newBlock)
      BY <3>1 DEF Joined
    <3>. QED
      BY <1>3, <3>2 DEF InFreeList, PoolInv, NothingShared, Pending
  <2>2. \A i \in DOMAIN FreeBlocks' : \A c \in Cells(FreeBlocks'[i]) :
          c \notin live' \cup Rest' \cup Pending'
    BY <2>1
  <2>. QED
    BY <1>3, <2>2 DEF PoolInv, NothingShared, Cells
<1>5. AllInBuffers' /\ BuffersApart' /\ InHeap'
  BY DEF Joined, Return, PoolInv, AllInBuffers, BuffersApart, InHeap, WithinABuffer, InABuffer,
         active, Block, Cells
<1>6. NothingLost => NothingLost'
  BY <1>3 DEF NothingLost, Joined, Return, Pending, Cells
<1>. QED
  BY <1>1, <1>2, <1>4, <1>5, <1>6 DEF Joined, PoolInv, SearchNarrows

-----------------------------------------------------------------------------
(* The other steps                                                         *)

(* A block is cut from a free one or takes it whole.                       *)
LEMMA ReserveFreeBlockStep ==
  ASSUME MemoryTypes, PoolInv, NEW n \in Nat, ReserveFreeBlock(n)
  PROVE  \E a \in Int :
           /\ Grant(Block(a, n))
           /\ live' = live \cup Cells(Block(a, n))
           /\ WithinABuffer(Block(a, n))
           /\ \A c \in Cells(Block(a, n)) : InFreeList(c)
           /\ FreeBlocks' \in Seq(Extents) /\ FreeListApart'
           /\ \A i \in DOMAIN FreeBlocks' : WithinABuffer(FreeBlocks'[i])
           /\ \A c \in Int : InFreeList(c)' <=> InFreeList(c) /\ c \notin Cells(Block(a, n))
<1>1. PICK i \in DOMAIN FreeBlocks :
        /\ Length(FreeBlocks[i]) >= n
        /\ Grant(Block(FreeBlocks[i].start, n))
        /\ live' = live \cup Cells(Block(FreeBlocks[i].start, n))
        /\ FreeBlocks' =
             IF Length(FreeBlocks[i]) > n
               THEN [FreeBlocks EXCEPT ![i] = [start |-> FreeBlocks[i].start + n,
                                               end |-> FreeBlocks[i].end]]
               ELSE RemoveAt(FreeBlocks, i)
  BY DEF ReserveFreeBlock, FirstFit, Grant
<1> DEFINE a == FreeBlocks[i].start
           z == FreeBlocks[i].end
<1>0. /\ Len(FreeBlocks) \in Nat /\ DOMAIN FreeBlocks = 1 .. Len(FreeBlocks)
      /\ FreeBlocks \in Seq(Extents) /\ n > 0
  BY FreeBlocksType DEF MemoryTypes, ReserveFreeBlock, Exhausted
<1>n. \A j \in DOMAIN FreeBlocks : FreeBlocks[j].start \in Int /\ FreeBlocks[j].end \in Int
  BY FreeBlocksNumbers
<1>2. a \in Int /\ z \in Int /\ a + n <= z /\ FreeBlocks[i] = [start |-> a, end |-> z]
  BY <1>0, <1>1, FreeBlocksType DEF Length, Extents
<1>3. Cells(Block(a, n)) \subseteq Cells(FreeBlocks[i])
  BY <1>2 DEF Cells, Block
<1>4. WithinABuffer(FreeBlocks[i]) /\ \A j \in DOMAIN FreeBlocks : WithinABuffer(FreeBlocks[j])
  BY DEF PoolInv, AllInBuffers
<1>5. WithinABuffer(Block(a, n))
  <2>1. PICK b \in allBuffers : b.start <= a /\ z <= b.end
    BY <1>4 DEF WithinABuffer
  <2>2. b.start \in Int /\ b.end \in Int
    BY DEF MemoryTypes, Extents
  <2>. QED
    BY <1>0, <1>2, <2>1, <2>2 DEF WithinABuffer, Block
<1>6. \A j \in DOMAIN FreeBlocks : j # i =>
        \A c \in Cells(FreeBlocks[j]) : c \notin Cells(FreeBlocks[i])
  <2> SUFFICES ASSUME NEW j \in DOMAIN FreeBlocks, j # i,
                      NEW c \in Cells(FreeBlocks[j]), c \in Cells(FreeBlocks[i])
               PROVE  FALSE
    OBVIOUS
  <2>1. /\ j < i => FreeBlocks[j].end < FreeBlocks[i].start
        /\ i < j => FreeBlocks[i].end < FreeBlocks[j].start
    BY DEF PoolInv, FreeListApart
  <2>2. j < i \/ i < j
    BY <1>0
  <2>. QED
    BY <1>n, <2>1, <2>2 DEF Cells
<1>7. CASE Length(FreeBlocks[i]) > n
  <2> DEFINE r == [start |-> a + n, end |-> z]
  <2>1. FreeBlocks' = [FreeBlocks EXCEPT ![i] = r]
    BY <1>1, <1>7
  <2>2. r \in Extents /\ r.start = a + n /\ r.end = z /\ a + n < z
    BY <1>0, <1>2, <1>7 DEF Extents, Length
  <2> HIDE DEF r
  <2>3. /\ FreeBlocks' \in Seq(Extents) /\ DOMAIN FreeBlocks' = DOMAIN FreeBlocks
        /\ FreeBlocks'[i] = r
        /\ \A j \in DOMAIN FreeBlocks : j # i => FreeBlocks'[j] = FreeBlocks[j]
    BY <1>0, <2>1, <2>2, ExceptSeq
  <2>4. FreeListApart'
    <3>1. ASSUME NEW j \in DOMAIN FreeBlocks, NEW k \in DOMAIN FreeBlocks
          PROVE  /\ FreeBlocks'[j].start < FreeBlocks'[j].end
                 /\ j < k => FreeBlocks'[j].end < FreeBlocks'[k].start
      <4>1. /\ FreeBlocks[j].start < FreeBlocks[j].end
            /\ j < k => FreeBlocks[j].end < FreeBlocks[k].start
        BY DEF PoolInv, FreeListApart
      <4>2. /\ FreeBlocks'[j].end = FreeBlocks[j].end
            /\ FreeBlocks'[j].start < FreeBlocks'[j].end
        BY <2>2, <2>3, <4>1
      <4>3. FreeBlocks'[k].start >= FreeBlocks[k].start
        BY <1>0, <1>2, <1>n, <2>2, <2>3
      <4>4. FreeBlocks'[k].start \in Int
        BY <1>0, <1>2, <1>n, <2>2, <2>3
      <4>. QED
        BY <1>n, <4>1, <4>2, <4>3, <4>4
    <3>. QED
      BY <2>3, <3>1 DEF FreeListApart
  <2>5. WithinABuffer(r)
    <3>1. PICK b \in allBuffers : b.start <= a /\ z <= b.end
      BY <1>4 DEF WithinABuffer
    <3>2. b.start \in Int /\ b.end \in Int
      BY DEF MemoryTypes, Extents
    <3>. QED
      BY <1>0, <1>2, <2>2, <3>1, <3>2 DEF WithinABuffer
  <2>6. ASSUME NEW j \in DOMAIN FreeBlocks' PROVE WithinABuffer(FreeBlocks'[j])
    BY <1>4, <2>3, <2>5
  <2>7. \A c \in Int :
          c \in Cells(r) <=> c \in Cells(FreeBlocks[i]) /\ c \notin Cells(Block(a, n))
    BY <1>0, <1>2, <2>2 DEF Cells, Block
  <2>8. \A c \in Int : InFreeList(c)' <=> \E j \in DOMAIN FreeBlocks' : c \in Cells(FreeBlocks'[j])
    BY DEF InFreeList, Cells
  <2>9. \A c \in Int : InFreeList(c)' <=> InFreeList(c) /\ c \notin Cells(Block(a, n))
    BY <1>3, <1>6, <2>3, <2>7, <2>8 DEF InFreeList
  <2>. QED
    BY <1>1, <1>2, <1>3, <1>5, <2>3, <2>4, <2>6, <2>9 DEF InFreeList
<1>8. CASE ~(Length(FreeBlocks[i]) > n)
  <2>1. FreeBlocks' = RemoveAt(FreeBlocks, i)
    BY <1>1, <1>8
  <2>2. Cells(Block(a, n)) = Cells(FreeBlocks[i])
    BY <1>0, <1>1, <1>2, <1>8 DEF Cells, Block, Length
  <2>3. /\ FreeBlocks' \in Seq(Extents) /\ Len(FreeBlocks') = Len(FreeBlocks) - 1
        /\ \A j \in 1 .. (Len(FreeBlocks) - 1) : j < i => FreeBlocks'[j] = FreeBlocks[j]
        /\ \A j \in 1 .. (Len(FreeBlocks) - 1) : ~(j < i) => FreeBlocks'[j] = FreeBlocks[j + 1]
    <3>1. i \in 1 .. Len(FreeBlocks)
      BY <1>0
    <3>. QED
      BY <1>0, <2>1, <3>1, RemoveAtFacts
  <2>4. DOMAIN FreeBlocks' = 1 .. (Len(FreeBlocks) - 1)
    BY <2>3, LenProperties
  <2>5. \A j \in DOMAIN FreeBlocks' : \E m \in DOMAIN FreeBlocks :
          ((j < i /\ m = j) \/ (j >= i /\ m = j + 1)) /\ FreeBlocks'[j] = FreeBlocks[m]
    <3> TAKE j \in DOMAIN FreeBlocks'
    <3>1. CASE j < i
      <4>0. j \in 1 .. (Len(FreeBlocks) - 1) /\ j \in DOMAIN FreeBlocks
        BY <1>0, <2>4
      <4>1. FreeBlocks'[j] = FreeBlocks[j] /\ j \in DOMAIN FreeBlocks
        BY <2>3, <3>1, <4>0
      <4>. QED
        BY <3>1, <4>1
    <3>2. CASE j >= i
      <4>1. FreeBlocks'[j] = FreeBlocks[j + 1] /\ j + 1 \in DOMAIN FreeBlocks
        BY <1>0, <2>3, <2>4, <3>2
      <4>. QED
        BY <3>2, <4>1
    <3>. QED
      BY <1>0, <2>4, <3>1, <3>2
  <2>6. FreeListApart'
    <3>1. ASSUME NEW j \in DOMAIN FreeBlocks', NEW k \in DOMAIN FreeBlocks'
          PROVE  /\ FreeBlocks'[j].start < FreeBlocks'[j].end
                 /\ j < k => FreeBlocks'[j].end < FreeBlocks'[k].start
      <4>1. PICK m \in DOMAIN FreeBlocks :
              ((j < i /\ m = j) \/ (j >= i /\ m = j + 1)) /\ FreeBlocks'[j] = FreeBlocks[m]
        BY <2>5
      <4>2. PICK l \in DOMAIN FreeBlocks :
              ((k < i /\ l = k) \/ (k >= i /\ l = k + 1)) /\ FreeBlocks'[k] = FreeBlocks[l]
        BY <2>5
      <4>3. j < k => m < l
        BY <1>0, <2>4, <4>1, <4>2
      <4>. QED
        BY <4>1, <4>2, <4>3 DEF PoolInv, FreeListApart
    <3>. QED
      BY <3>1 DEF FreeListApart
  <2>7. ASSUME NEW j \in DOMAIN FreeBlocks' PROVE WithinABuffer(FreeBlocks'[j])
    BY <1>4, <2>5
  <2>8. \A c \in Int : InFreeList(c)' <=> \E j \in DOMAIN FreeBlocks' : c \in Cells(FreeBlocks'[j])
    BY DEF InFreeList, Cells
  <2>9. ASSUME NEW c \in Int
        PROVE  InFreeList(c)' <=> InFreeList(c) /\ c \notin Cells(Block(a, n))
    <3>1. ASSUME NEW j \in DOMAIN FreeBlocks', c \in Cells(FreeBlocks'[j])
          PROVE  InFreeList(c) /\ c \notin Cells(Block(a, n))
      <4>1. PICK m \in DOMAIN FreeBlocks :
              ((j < i /\ m = j) \/ (j >= i /\ m = j + 1)) /\ FreeBlocks'[j] = FreeBlocks[m]
        BY <2>5
      <4>2. m # i
        BY <1>0, <2>4, <4>1
      <4>. QED
        BY <1>6, <2>2, <3>1, <4>1, <4>2 DEF InFreeList
    <3>2. ASSUME NEW m \in DOMAIN FreeBlocks, m # i, c \in Cells(FreeBlocks[m])
          PROVE  InFreeList(c)'
      <4>1. CASE m < i
        BY <1>0, <2>3, <2>4, <2>8, <3>2, <4>1
      <4>2. CASE m > i
        <5>1. m - 1 \in DOMAIN FreeBlocks' /\ ~(m - 1 < i) /\ (m - 1) + 1 = m
          BY <1>0, <2>4, <4>2
        <5>. QED
          BY <2>3, <2>4, <2>8, <3>2, <5>1
      <4>. QED
        BY <1>0, <3>2, <4>1, <4>2
    <3>. QED
      BY <2>2, <2>8, <3>1, <3>2 DEF InFreeList
  <2>. QED
    BY <1>1, <1>2, <1>3, <1>5, <2>3, <2>6, <2>7, <2>9 DEF InFreeList
<1>. QED
  BY <1>7, <1>8

-----------------------------------------------------------------------------
(* The invariant                                                           *)

IInv == MemoryTypes /\ PoolInv /\ NothingLost

LEMMA BufferNumbers ==
  ASSUME MemoryTypes, NEW b \in allBuffers
  PROVE  b.start \in Int /\ b.end \in Int
BY DEF MemoryTypes, Extents

(* A new buffer keeps its distance from everything there is.               *)
LEMMA FreshIsApart ==
  ASSUME MemoryTypes, PoolInv, NEW a \in Int, NEW n \in Nat, Fresh(a, n)
  PROVE  /\ \A i \in DOMAIN FreeBlocks : \A c \in Cells(FreeBlocks[i]) :
              c \notin Cells(Block(a, n))
         /\ \A c \in live : c \notin Cells(Block(a, n))
         /\ \A b \in allBuffers : \A c \in Cells(b) : c \notin Cells(Block(a, n))
<1>1. \A b \in allBuffers : \A c \in Cells(b) : c \notin Cells(Block(a, n))
  BY BufferNumbers DEF Fresh, Cells, Block
<1>2. \A c \in live : c \notin Cells(Block(a, n))
  BY <1>1 DEF PoolInv, AllInBuffers, InABuffer
<1>3. ASSUME NEW i \in DOMAIN FreeBlocks, NEW c \in Cells(FreeBlocks[i])
      PROVE  c \notin Cells(Block(a, n))
  <2>1. PICK b \in allBuffers : b.start <= FreeBlocks[i].start /\ FreeBlocks[i].end <= b.end
    BY DEF PoolInv, AllInBuffers, WithinABuffer
  <2>2. c \in Cells(b)
    BY <2>1, BufferNumbers, FreeBlocksNumbers DEF Cells
  <2>. QED
    BY <1>1, <2>2
<1>. QED
  BY <1>1, <1>2, <1>3

(* A larger set of buffers with a fresh one in it.                         *)
LEMMA FreshBuffers ==
  ASSUME MemoryTypes, PoolInv, NEW a \in Int, NEW n \in Nat, Fresh(a, n),
         allBuffers' = allBuffers \cup {Block(a, n)}
  PROVE  /\ Block(a, n) \in Extents /\ allBuffers' \subseteq Extents
         /\ BuffersApart' /\ InHeap'
         /\ \A block : WithinABuffer(block) => WithinABuffer(block)'
         /\ \A c : InABuffer(c) => InABuffer(c)'
         /\ \A c \in Cells(Block(a, n)) : InABuffer(c)'
<1>1. Block(a, n) \in Extents /\ allBuffers' \subseteq Extents
  BY DEF Block, Extents, MemoryTypes
<1>2. InHeap'
  BY DEF Fresh, InHeap, PoolInv, Cells
<1>3. BuffersApart'
  BY BufferNumbers DEF Fresh, BuffersApart, PoolInv, Block
<1>4. /\ \A block : WithinABuffer(block) => WithinABuffer(block)'
      /\ \A c : InABuffer(c) => InABuffer(c)'
      /\ \A c \in Cells(Block(a, n)) : InABuffer(c)'
  BY DEF WithinABuffer, InABuffer, Cells
<1>. QED
  BY <1>1, <1>2, <1>3, <1>4

LEMMA ReserveInBufferStep ==
  ASSUME IInv, NEW n \in Nat, ReserveInBuffer(n)
  PROVE  IInv'
<1> USE DEF IInv, ReserveInBuffer, search, growth
<1> DEFINE block == Block(buffer + used, n)
<1>1. /\ buffer \in Int /\ used \in Nat /\ max \in Nat /\ used + n <= max /\ n > 0
      /\ used <= max
  BY DEF MemoryTypes
<1>2. /\ Rest = Cells(block) \cup Rest' /\ Cells(block) \cap Rest' = {}
      /\ Pending = {} /\ Pending' = {}
  BY <1>1 DEF Rest, Pending, Searching, Cells, Block
<1>3. live' = live \cup Cells(block)
  BY DEF Grant
<1>4. MemoryTypes'
  <2>1. Cells(block) \subseteq Int
    BY DEF Cells
  <2>2. used' \in 0 .. max'
    BY <1>1
  <2>. QED
    BY <1>3, <2>1, <2>2 DEF MemoryTypes
<1>5. NothingShared'
  <2>1. Rest' \subseteq Rest /\ Cells(block) \subseteq Rest
    BY <1>2
  <2>2. \A i \in DOMAIN FreeBlocks' : \A c \in Cells(FreeBlocks'[i]) :
          c \notin live' \cup Rest' \cup Pending'
    BY <1>2, <1>3, <2>1 DEF PoolInv, NothingShared
  <2>3. live' \cap Rest' = {}
    BY <1>2, <1>3, <2>1 DEF PoolInv, NothingShared
  <2>. QED
    BY <1>2, <2>2, <2>3 DEF NothingShared, Cells
<1>6. AllInBuffers'
  <2>1. PICK b \in allBuffers : b.start <= buffer /\ buffer + max <= b.end
    BY <1>1 DEF PoolInv, AllInBuffers, WithinABuffer, Block
  <2>2. \A c \in Cells(block) : c \in Cells(b)
    BY <1>1, <2>1, BufferNumbers DEF Cells, Block
  <2>3. \A c \in live' : InABuffer(c)
    BY <1>3, <2>2 DEF PoolInv, AllInBuffers, InABuffer
  <2>. QED
    BY <2>3 DEF PoolInv, AllInBuffers, InABuffer, WithinABuffer, Block, Cells
<1>7. NothingLost'
  BY <1>2, <1>3 DEF NothingLost, InFreeList, Cells
<1>. QED
  BY <1>4, <1>5, <1>6, <1>7
  DEF PoolInv, FreeListApart, InHeap, BuffersApart, SearchNarrows, Searching, Cells

LEMMA ReserveFreeBlockInv ==
  ASSUME IInv, NEW n \in Nat, ReserveFreeBlock(n)
  PROVE  IInv'
<1> USE DEF IInv
<1>1. PICK a \in Int :
           /\ live' = live \cup Cells(Block(a, n))
           /\ WithinABuffer(Block(a, n))
           /\ \A c \in Cells(Block(a, n)) : InFreeList(c)
           /\ FreeBlocks' \in Seq(Extents) /\ FreeListApart'
           /\ \A i \in DOMAIN FreeBlocks' : WithinABuffer(FreeBlocks'[i])
           /\ \A c \in Int : InFreeList(c)' <=> InFreeList(c) /\ c \notin Cells(Block(a, n))
  BY ReserveFreeBlockStep
<1> DEFINE taken == Cells(Block(a, n))
<1>2. /\ UNCHANGED <<allBuffers, buffer, max, used, pc, newBlock, minimum, maximum,
                      capacity, request>>
      /\ pc = "idle"
  BY DEF ReserveFreeBlock, Exhausted, active, search, growth
<1>3. Rest' = Rest /\ Pending' = {} /\ Pending = {}
  BY <1>2 DEF Rest, Pending, Searching
<1>4. taken \subseteq Int /\ \A c \in taken : c \notin live \cup Rest
  BY <1>1 DEF PoolInv, NothingShared, InFreeList, Cells
<1> HIDE DEF taken
<1>5. MemoryTypes'
  BY <1>1, <1>2, <1>4 DEF MemoryTypes, taken
<1>6. NothingShared'
  <2>1. ASSUME NEW i \in DOMAIN FreeBlocks', NEW c \in Cells(FreeBlocks'[i])
        PROVE  c \notin live' \cup Rest' \cup Pending'
    <3>1. c \in Int /\ InFreeList(c)'
      BY <2>1 DEF Cells, InFreeList
    <3>2. InFreeList(c) /\ c \notin taken
      BY <1>1, <3>1 DEF taken
    <3>. QED
      BY <1>1, <1>3, <3>2 DEF taken, InFreeList, PoolInv, NothingShared
  <2>2. \A i \in DOMAIN FreeBlocks' : \A c \in Cells(FreeBlocks'[i]) :
          c \notin live' \cup Rest' \cup Pending'
    BY <2>1
  <2>3. live' \cap Rest' = {}
    BY <1>1, <1>3, <1>4 DEF taken, PoolInv, NothingShared
  <2>. QED
    BY <1>3, <2>2, <2>3 DEF NothingShared, Cells
<1>7. AllInBuffers'
  <2>1. PICK b \in allBuffers : b.start <= a /\ a + n <= b.end
    BY <1>1 DEF WithinABuffer, Block
  <2>2. \A c \in taken : c \in Cells(b)
    BY <2>1, BufferNumbers DEF taken, Cells, Block
  <2>3. \A c \in live' : InABuffer(c)
    BY <1>1, <2>2 DEF taken, PoolInv, AllInBuffers, InABuffer
  <2>. QED
    BY <1>1, <1>2, <2>3 DEF PoolInv, AllInBuffers, InABuffer, WithinABuffer, Block, Cells
<1>8. NothingLost'
  BY <1>1, <1>2, <1>3 DEF NothingLost, Cells
<1>. QED
  BY <1>1, <1>2, <1>5, <1>6, <1>7, <1>8
  DEF PoolInv, InHeap, BuffersApart, SearchNarrows, Searching, Cells

LEMMA ReserveOwnBufferStep ==
  ASSUME IInv, NEW n \in Nat, ReserveOwnBuffer(n)
  PROVE  IInv'
<1> USE DEF IInv
<1>1. PICK a \in Addresses :
        /\ Fresh(a, n)
        /\ allBuffers' = allBuffers \cup {Block(a, n)}
        /\ live' = live \cup Cells(Block(a, n))
  BY DEF ReserveOwnBuffer, Grant
<1>2. /\ UNCHANGED <<FreeBlocks, buffer, max, used, pc, newBlock, minimum, maximum,
                      capacity, request>>
      /\ pc = "idle" /\ a \in Int
  BY ConstantsAssumption DEF ReserveOwnBuffer, Exhausted, active, search, growth
<1> DEFINE own == Cells(Block(a, n))
<1>3. Rest' = Rest /\ Pending' = {} /\ Pending = {} /\ own \subseteq Int
  BY <1>2 DEF Rest, Pending, Searching, Cells
<1>4. /\ \A i \in DOMAIN FreeBlocks : \A c \in Cells(FreeBlocks[i]) : c \notin own
      /\ \A c \in live : c \notin own
      /\ \A b \in allBuffers : \A c \in Cells(b) : c \notin own
  BY <1>1, <1>2, FreshIsApart
<1>5. /\ allBuffers' \subseteq Extents /\ BuffersApart' /\ InHeap'
      /\ \A block : WithinABuffer(block) => WithinABuffer(block)'
      /\ \A c : InABuffer(c) => InABuffer(c)'
      /\ \A c \in own : InABuffer(c)'
  BY <1>1, <1>2, FreshBuffers
<1>6. \A c \in Rest : c \notin own
  <2>1. max > 0 => \E b \in allBuffers : Rest \subseteq Cells(b)
    <3> SUFFICES ASSUME max > 0 PROVE \E b \in allBuffers : Rest \subseteq Cells(b)
      OBVIOUS
    <3>1. PICK b \in allBuffers : b.start <= buffer /\ buffer + max <= b.end
      BY DEF PoolInv, AllInBuffers, WithinABuffer, Block
    <3>2. Rest \subseteq Cells(b)
      <4>1. buffer \in Int /\ used \in Nat /\ max \in Nat /\ b.start \in Int /\ b.end \in Int
        BY BufferNumbers DEF MemoryTypes
      <4>. QED
        BY <3>1, <4>1 DEF Rest, Cells, Block
    <3>. QED
      BY <3>2
  <2>2. ~(max > 0) => Rest = {}
    BY DEF MemoryTypes, Rest, Cells, Block
  <2>. QED
    BY <1>4, <2>1, <2>2
<1> HIDE DEF own
<1>7. MemoryTypes'
  BY <1>1, <1>2, <1>3, <1>5 DEF MemoryTypes, own
<1>8. NothingShared'
  BY <1>1, <1>2, <1>3, <1>4, <1>6 DEF own, PoolInv, NothingShared, Cells
<1>9. AllInBuffers'
  BY <1>1, <1>2, <1>5 DEF own, PoolInv, AllInBuffers, Block
<1>10. NothingLost'
  BY <1>1, <1>2, <1>3 DEF own, NothingLost, InFreeList, Cells
<1>. QED
  BY <1>2, <1>5, <1>7, <1>8, <1>9, <1>10
  DEF PoolInv, FreeListApart, SearchNarrows, Searching, Cells

(* What is left of the active buffer is on its way to the free list.       *)
LEMMA RetireStep ==
  ASSUME IInv, pc = "idle", NEW c \in Nat, NEW r \in 0 .. c, Retire(c, r),
         UNCHANGED <<FreeBlocks, allBuffers, active, live>>
  PROVE  IInv'
<1> USE DEF IInv
<1>0. /\ UNCHANGED <<FreeBlocks, allBuffers, buffer, max, used, live>>
      /\ buffer \in Int /\ used \in Nat /\ max \in Nat /\ used <= max
      /\ Pending = {} /\ Rest' = {} /\ Rest = Cells(Block(buffer + used, max - used))
  BY DEF active, MemoryTypes, Pending, Searching, Rest, Retire, StartSearch, Cells
<1>1. CASE used < max
  <2>1. /\ pc' = "retire" /\ minimum' = 0 /\ maximum' = Len(FreeBlocks)
        /\ newBlock' = [start |-> buffer + used, end |-> buffer + max]
        /\ capacity' = c /\ request' = r
    BY <1>1 DEF Retire, StartSearch
  <2>2. newBlock'.start = buffer + used /\ newBlock'.end = buffer + max
    BY <2>1
  <2>3. Pending' = Rest
    <3>1. Pending' = (buffer + used) .. (buffer + max - 1)
      BY <1>0, <2>1, <2>2 DEF Pending, Searching, Cells
    <3>. QED
      BY <1>0, <3>1 DEF Cells, Block
  <2>4. WithinABuffer(newBlock)'
    <3>1. PICK b \in allBuffers : b.start <= buffer /\ buffer + max <= b.end
      BY <1>0, <1>1 DEF PoolInv, AllInBuffers, WithinABuffer, Block
    <3>2. b.start <= newBlock'.start /\ newBlock'.end <= b.end
      BY <1>0, <2>2, <3>1, BufferNumbers
    <3>. QED
      BY <1>0, <3>2 DEF WithinABuffer
  <2>5. MemoryTypes'
    <3>1. newBlock' \in Extents
      BY <1>0, <2>1 DEF Extents
    <3>. QED
      BY <1>0, <2>1, <3>1, FreeBlocksType DEF MemoryTypes
  <2>6. SearchNarrows'
    <3>1. newBlock'.start < newBlock'.end
      BY <1>0, <1>1, <2>2
    <3>2. /\ minimum' <= maximum' /\ maximum' <= Len(FreeBlocks')
          /\ \A i \in DOMAIN FreeBlocks' : ~(i <= minimum') /\ ~(i > maximum')
      BY <1>0, <2>1, FreeBlocksType
    <3>. QED
      BY <2>4, <3>1, <3>2 DEF SearchNarrows
  <2>7. NothingShared' /\ NothingLost'
    BY <1>0, <2>3 DEF PoolInv, NothingShared, NothingLost, InFreeList, Cells
  <2>. QED
    BY <1>0, <2>5, <2>6, <2>7
    DEF PoolInv, FreeListApart, InHeap, BuffersApart, AllInBuffers, WithinABuffer,
        InABuffer, Block, Cells
<1>2. CASE ~(used < max)
  <2>1. /\ pc' = "grow" /\ UNCHANGED <<newBlock, minimum, maximum>>
        /\ capacity' = c /\ request' = r
    BY <1>2 DEF Retire, search
  <2>2. Rest = {} /\ Pending' = {}
    BY <1>0, <1>2, <2>1 DEF Pending, Searching, Cells, Block
  <2>3. MemoryTypes'
    BY <1>0, <2>1 DEF MemoryTypes
  <2>4. NothingShared' /\ NothingLost'
    BY <1>0, <2>2 DEF PoolInv, NothingShared, NothingLost, InFreeList, Cells
  <2>. QED
    BY <1>0, <2>1, <2>3, <2>4
    DEF PoolInv, FreeListApart, InHeap, BuffersApart, AllInBuffers, WithinABuffer,
        InABuffer, Block, Cells, SearchNarrows, Searching
<1>. QED
  BY <1>1, <1>2

LEMMA GrowStep ==
  ASSUME IInv, Grow
  PROVE  IInv'
<1> USE DEF IInv
<1>1. PICK a \in Addresses :
        /\ Fresh(a, capacity)
        /\ allBuffers' = allBuffers \cup {Block(a, capacity)}
        /\ buffer' = a /\ max' = capacity /\ used' = request
        /\ live' = live \cup Cells(Block(a, request))
  BY DEF Grow, Grant
<1>2. /\ UNCHANGED <<FreeBlocks, newBlock, minimum, maximum>>
      /\ pc = "grow" /\ pc' = "idle" /\ capacity' = 0 /\ request' = 0
      /\ a \in Int /\ capacity \in Nat /\ request \in 0 .. capacity
      /\ request \in Nat /\ request <= capacity
  BY ConstantsAssumption DEF Grow, search, MemoryTypes
<1> DEFINE own == Cells(Block(a, capacity))
           got == Cells(Block(a, request))
<1>3. /\ Rest = {} /\ Pending = {} /\ Pending' = {}
      /\ Rest' = Cells(Block(a + request, capacity - request))
  BY <1>1, <1>2 DEF Rest, Pending, Searching, Cells, Block
<1>4. own = got \cup Rest' /\ got \cap Rest' = {} /\ own \subseteq Int
  BY <1>2, <1>3 DEF Cells, Block
<1>5. /\ \A i \in DOMAIN FreeBlocks : \A c \in Cells(FreeBlocks[i]) : c \notin own
      /\ \A c \in live : c \notin own
      /\ \A b \in allBuffers : \A c \in Cells(b) : c \notin own
  BY <1>1, <1>2, FreshIsApart
<1>6. /\ allBuffers' \subseteq Extents /\ BuffersApart' /\ InHeap'
      /\ \A block : WithinABuffer(block) => WithinABuffer(block)'
      /\ \A c : InABuffer(c) => InABuffer(c)'
      /\ \A c \in own : InABuffer(c)'
  BY <1>1, <1>2, FreshBuffers
<1>7. WithinABuffer(Block(buffer, max))'
  <2>1. Block(buffer, max)' = Block(a, capacity)
    BY <1>1 DEF Block
  <2>2. Block(a, capacity) \in allBuffers' /\ Block(a, capacity) \in Extents
    BY <1>1, <1>6
  <2>3. /\ Block(a, capacity).start \in Int /\ Block(a, capacity).end \in Int
    BY <2>2 DEF Extents
  <2>. QED
    BY <2>1, <2>2, <2>3 DEF WithinABuffer
<1> HIDE DEF own, got
<1>8. MemoryTypes'
  <2>1. /\ max' \in Nat /\ used' \in 0 .. max' /\ buffer' \in Int
        /\ capacity' \in Nat /\ request' \in 0 .. capacity'
    BY <1>1, <1>2
  <2>2. live' \in SUBSET Int
    BY <1>1, <1>4 DEF got, MemoryTypes
  <2>. QED
    BY <1>2, <1>6, <2>1, <2>2 DEF MemoryTypes
<1>9. NothingShared'
  BY <1>1, <1>2, <1>3, <1>4, <1>5 DEF got, PoolInv, NothingShared, Cells
<1>10. AllInBuffers'
  BY <1>1, <1>2, <1>4, <1>6, <1>7 DEF got, PoolInv, AllInBuffers
<1>11. NothingLost'
  BY <1>1, <1>2, <1>3, <1>4 DEF got, own, NothingLost, InFreeList, Cells
<1>. QED
  BY <1>2, <1>6, <1>8, <1>9, <1>10, <1>11
  DEF PoolInv, FreeListApart, SearchNarrows, Searching, Cells

(* Elements in use that follow one another lie in one buffer, for there is *)
(* something between any two buffers.                                      *)
LEMMA LiveWithinABuffer ==
  ASSUME IInv, NEW a \in Int, NEW n \in Nat, n > 0, Cells(Block(a, n)) \subseteq live
  PROVE  WithinABuffer(Block(a, n))
<1> USE DEF IInv
<1>1. a \in Cells(Block(a, n))
  BY DEF Cells, Block
<1>2. PICK b \in allBuffers : a \in Cells(b)
  BY <1>1 DEF PoolInv, AllInBuffers, InABuffer
<1>3. b.start \in Int /\ b.end \in Int /\ b.start <= a /\ a < b.end
  BY <1>2, BufferNumbers DEF Cells
<1>4. ASSUME b.end < a + n PROVE FALSE
  <2>1. b.end \in Cells(Block(a, n))
    BY <1>3, <1>4 DEF Cells, Block
  <2>2. PICK b2 \in allBuffers : b.end \in Cells(b2)
    BY <2>1 DEF PoolInv, AllInBuffers, InABuffer
  <2>3. b2.start \in Int /\ b2.end \in Int /\ b2.start <= b.end /\ b.end < b2.end
    BY <2>2, BufferNumbers DEF Cells
  <2>4. b = b2 \/ b.end < b2.start \/ b2.end < b.start
    BY DEF PoolInv, BuffersApart
  <2>. QED
    BY <1>3, <2>3, <2>4
<1>5. a + n <= b.end
  BY <1>3, <1>4
<1>. QED
  BY <1>3, <1>5 DEF WithinABuffer, Block

LEMMA FreeBlockStep ==
  ASSUME IInv, NEW a \in Int, NEW n \in Nat, FreeBlock(a, n)
  PROVE  IInv'
<1> USE DEF IInv
<1>1. /\ UNCHANGED <<FreeBlocks, allBuffers, buffer, max, used, capacity, request>>
      /\ pc = "idle" /\ pc' = "free" /\ n > 0
      /\ minimum' = 0 /\ maximum' = Len(FreeBlocks) /\ newBlock' = Block(a, n)
      /\ Cells(Block(a, n)) \subseteq live /\ live' = live \ Cells(Block(a, n))
  BY DEF FreeBlock, StartSearch, active, growth
<1>2. newBlock'.start = a /\ newBlock'.end = a + n /\ newBlock' \in Extents
  BY <1>1 DEF Block, Extents
<1>3. Pending = {} /\ Rest' = Rest /\ Pending' = Cells(Block(a, n))
  BY <1>1 DEF Pending, Searching, Rest, Cells, Block
<1>4. WithinABuffer(newBlock)'
  BY <1>1, LiveWithinABuffer DEF WithinABuffer
<1>5. SearchNarrows'
  <2>1. newBlock'.start < newBlock'.end
    BY <1>1, <1>2
  <2>2. /\ minimum' <= maximum' /\ maximum' <= Len(FreeBlocks')
        /\ \A i \in DOMAIN FreeBlocks' : ~(i <= minimum') /\ ~(i > maximum')
    BY <1>1, FreeBlocksType
  <2>. QED
    BY <1>4, <2>1, <2>2 DEF SearchNarrows
<1>6. MemoryTypes'
  BY <1>1, <1>2, FreeBlocksType DEF MemoryTypes
<1>7. NothingShared' /\ NothingLost'
  BY <1>1, <1>3 DEF PoolInv, NothingShared, NothingLost, InFreeList, Cells
<1>8. AllInBuffers'
  BY <1>1 DEF PoolInv, AllInBuffers, InABuffer, WithinABuffer, Block, Cells
<1>. QED
  BY <1>1, <1>5, <1>6, <1>7, <1>8 DEF PoolInv, FreeListApart, InHeap, BuffersApart, Cells

(* The half of the list that is given up lies wholly on one side of the    *)
(* new block and does not touch it.                                        *)
LEMMA SearchStep ==
  ASSUME IInv, SearchLeft \/ SearchRight
  PROVE  IInv'
<1> USE DEF IInv
<1> DEFINE k == midPoint + 1
<1>0. /\ Searching /\ minimum < maximum /\ ~Touches
      /\ UNCHANGED <<FreeBlocks, allBuffers, buffer, max, used, live, pc, newBlock,
                      capacity, request>>
  BY DEF SearchLeft, SearchRight, active, growth
<1>1. /\ midPoint \in minimum .. (maximum - 1) /\ midPoint \in Nat /\ k \in DOMAIN FreeBlocks
      /\ maximum <= Len(FreeBlocks) /\ Len(FreeBlocks) \in Nat
      /\ DOMAIN FreeBlocks = 1 .. Len(FreeBlocks) /\ minimum \in Nat /\ maximum \in Nat
  BY <1>0, ProbeInList DEF MemoryTypes
<1>n. /\ \A i \in DOMAIN FreeBlocks :
           FreeBlocks[i].start \in Int /\ FreeBlocks[i].end \in Int
      /\ newBlock.start \in Int /\ newBlock.end \in Int
  BY FreeBlocksNumbers
<1>2. FreeBlocks[k].start # newBlock.end /\ FreeBlocks[k].end # newBlock.start
  BY <1>0 DEF Touches, Probe
<1>3. /\ minimum' \in Nat /\ maximum' \in Nat /\ minimum' <= maximum'
      /\ maximum' <= Len(FreeBlocks)
  <2>1. CASE SearchLeft
    BY <1>1, <2>1 DEF SearchLeft
  <2>2. CASE SearchRight
    BY <1>1, <2>2 DEF SearchRight
  <2>. QED
    BY <2>1, <2>2
<1>4. ASSUME NEW i \in DOMAIN FreeBlocks, i <= minimum'
      PROVE  FreeBlocks[i].end < newBlock.start
  <2>1. CASE SearchLeft
    BY <1>0, <1>4, <2>1 DEF SearchLeft, PoolInv, SearchNarrows
  <2>2. CASE SearchRight
    <3>1. FreeBlocks[k].start <= newBlock.end /\ i <= k
      BY <1>4, <2>2 DEF SearchRight, Probe
    <3>2. FreeBlocks[k].end < newBlock.start
      <4>1. FreeBlocks[k].start < newBlock.end
        BY <1>1, <1>2, <1>n, <3>1
      <4>2. FreeBlocks[k].end <= newBlock.start
        BY <1>0, <1>1, <4>1, OneSide
      <4>. QED
        BY <1>1, <1>2, <1>n, <4>2
    <3>3. /\ i < k => FreeBlocks[i].end < FreeBlocks[k].start
          /\ FreeBlocks[k].start < FreeBlocks[k].end
      BY <1>1 DEF PoolInv, FreeListApart
    <3>. QED
      BY <1>1, <1>n, <3>1, <3>2, <3>3, SMTT(30)
  <2>. QED
    BY <2>1, <2>2
<1>5. ASSUME NEW i \in DOMAIN FreeBlocks, i > maximum'
      PROVE  newBlock.end < FreeBlocks[i].start
  <2>1. CASE SearchLeft
    <3>1. FreeBlocks[k].start > newBlock.end /\ i >= k
      BY <1>1, <1>5, <2>1 DEF SearchLeft, Probe
    <3>2. /\ k < i => FreeBlocks[k].end < FreeBlocks[i].start
          /\ FreeBlocks[k].start < FreeBlocks[k].end
      BY <1>1 DEF PoolInv, FreeListApart
    <3>. QED
      BY <1>1, <1>n, <3>1, <3>2, SMTT(30)
  <2>2. CASE SearchRight
    BY <1>0, <1>5, <2>2 DEF SearchRight, PoolInv, SearchNarrows
  <2>. QED
    BY <2>1, <2>2
<1>6. MemoryTypes'
  BY <1>0, <1>3 DEF MemoryTypes
<1>7. SearchNarrows'
  BY <1>0, <1>3, <1>4, <1>5 DEF PoolInv, SearchNarrows, WithinABuffer
<1>8. Rest' = Rest /\ Pending' = Pending
  BY <1>0 DEF Rest, Pending, Searching, Cells, Block
<1>. QED
  BY <1>0, <1>6, <1>7, <1>8
  DEF PoolInv, FreeListApart, InHeap, BuffersApart, AllInBuffers, WithinABuffer, InABuffer,
      NothingShared, NothingLost, InFreeList, Block, Cells

-----------------------------------------------------------------------------
(* Every reachable state satisfies the inductive invariant.                *)
LEMMA InitInvariant == Init => IInv
<1> SUFFICES ASSUME Init PROVE IInv
  OBVIOUS
<1>1. MemoryTypes
  BY DEF Init, MemoryTypes, NoBlock, Block, Extents
<1>2. Rest = {} /\ Pending = {} /\ DOMAIN FreeBlocks = {}
  BY DEF Init, Rest, Pending, Searching, Cells, Block
<1>. QED
  BY <1>1, <1>2
  DEF Init, IInv, PoolInv, FreeListApart, InHeap, BuffersApart, SearchNarrows, Searching,
      AllInBuffers, NothingShared, NothingLost

LEMMA StepInvariant == IInv /\ [Next]_vars => IInv'
<1> SUFFICES ASSUME IInv, [Next]_vars PROVE IInv'
  OBVIOUS
<1>0. MemoryTypes /\ PoolInv
  BY DEF IInv
<1>1. ASSUME NEW n \in Sizes, Reserve(n) PROVE IInv'
  <2>0. n \in Nat /\ NewBufferLength \in Nat
    BY ConstantsAssumption
  <2>1. CASE ReserveInBuffer(n)
    BY <2>0, <2>1, ReserveInBufferStep
  <2>2. CASE ReserveFreeBlock(n)
    BY <2>0, <2>2, ReserveFreeBlockInv
  <2>3. CASE ReserveOwnBuffer(n)
    BY <2>0, <2>3, ReserveOwnBufferStep
  <2>4. CASE ReserveNewBuffer(n)
    BY <2>0, <2>4, RetireStep DEF ReserveNewBuffer, Exhausted
  <2>. QED
    BY <1>1, <2>1, <2>2, <2>3, <2>4 DEF Reserve
<1>2. ASSUME NEW n \in Sizes, NEW a \in live, FreeBlock(a, n) PROVE IInv'
  <2>1. n \in Nat /\ a \in Int
    BY <1>0, ConstantsAssumption DEF MemoryTypes
  <2>. QED
    BY <1>2, <2>1, FreeBlockStep
<1>3. ASSUME NEW c \in Capacities, SetActiveBuffer(c) PROVE IInv'
  <2>1. c \in Nat /\ 0 \in 0 .. c
    BY ConstantsAssumption
  <2>. QED
    BY <1>3, <2>1, RetireStep DEF SetActiveBuffer
<1>4. CASE JoinLeftOfProbe
  BY <1>0, <1>4, JoinLeftStep, ReturnStep DEF IInv, JoinLeftOfProbe
<1>5. CASE JoinRightOfProbe
  BY <1>0, <1>5, JoinRightStep, ReturnStep DEF IInv, JoinRightOfProbe
<1>6. CASE InsertBlock
  BY <1>0, <1>6, InsertStep, ReturnStep DEF IInv, InsertBlock
<1>7. CASE SearchLeft \/ SearchRight
  BY <1>7, SearchStep
<1>8. CASE Grow
  BY <1>8, GrowStep
<1>9. CASE UNCHANGED vars
  BY <1>9
  DEF vars, active, search, growth, IInv, MemoryTypes, PoolInv, FreeListApart, InHeap, BuffersApart,
      SearchNarrows, Searching, AllInBuffers, WithinABuffer, InABuffer, NothingShared,
      NothingLost, InFreeList, Rest, Pending, Block, Cells
<1>. QED
  BY <1>1, <1>2, <1>3, <1>4, <1>5, <1>6, <1>7, <1>8, <1>9 DEF Next, Internal

THEOREM AllocatorInvariant == Spec => []IInv
<1>. QED
  BY InitInvariant, StepInvariant, PTL DEF Spec

(* What the users count as theirs grows and shrinks by whole blocks.       *)
LEMMA HeldStep ==
  ASSUME IInv, held \in Int, [Next]_vars
  PROVE  held' \in Int
<1>0. MemoryTypes
  BY DEF IInv
<1>1. \A a, n \in Int : Grant(Block(a, n)) => held' \in Int
  BY DEF Grant, Length, Block
<1>2. ASSUME NEW n \in Sizes, Reserve(n) PROVE held' \in Int
  <2>0. n \in Int
    BY ConstantsAssumption
  <2>1. CASE ReserveInBuffer(n)
    <3>1. buffer + used \in Int
      BY <1>0 DEF MemoryTypes
    <3>. QED
      BY <1>1, <2>0, <2>1, <3>1 DEF ReserveInBuffer
  <2>2. CASE ReserveFreeBlock(n)
    <3>1. \A i \in DOMAIN FreeBlocks : FreeBlocks[i].start \in Int
      BY <1>0, FreeBlocksNumbers
    <3>2. PICK i \in DOMAIN FreeBlocks : Grant(Block(FreeBlocks[i].start, n))
      BY <2>2 DEF ReserveFreeBlock
    <3>. QED
      BY <1>1, <2>0, <3>1, <3>2
  <2>3. CASE ReserveOwnBuffer(n)
    <3>1. PICK a \in Addresses : Grant(Block(a, n))
      BY <2>3 DEF ReserveOwnBuffer
    <3>. QED
      BY <1>1, <2>0, <3>1, ConstantsAssumption
  <2>4. CASE ReserveNewBuffer(n)
    BY <2>4 DEF ReserveNewBuffer
  <2>. QED
    BY <1>2, <2>1, <2>2, <2>3, <2>4 DEF Reserve
<1>3. ASSUME NEW n \in Sizes, NEW a \in live, FreeBlock(a, n) PROVE held' \in Int
  BY <1>3, ConstantsAssumption DEF FreeBlock
<1>4. CASE Grow
  <2>1. PICK a \in Addresses : Grant(Block(a, request))
    BY <1>4 DEF Grow
  <2>2. a \in Int /\ request \in Int
    BY <1>0, ConstantsAssumption DEF MemoryTypes
  <2>. QED
    BY <1>1, <2>1, <2>2
<1>5. ASSUME \/ \E c \in Capacities : SetActiveBuffer(c)
             \/ JoinLeftOfProbe \/ JoinRightOfProbe \/ SearchLeft \/ SearchRight
             \/ InsertBlock \/ UNCHANGED vars
      PROVE  held' \in Int
  BY <1>5
  DEF SetActiveBuffer, JoinLeftOfProbe, JoinRightOfProbe, SearchLeft, SearchRight, InsertBlock,
      Return, vars
<1>. QED
  BY <1>2, <1>3, <1>4, <1>5 DEF Next, Internal

(* TypeOK: every variable keeps its type, for every heap and every request.*)
THEOREM TypeCorrect == Spec => []TypeOK
<1>1. Init => TypeOK
  BY InitInvariant DEF Init, IInv, TypeOK
<1>2. IInv /\ TypeOK /\ [Next]_vars => TypeOK'
  BY StepInvariant, HeldStep DEF IInv, TypeOK
<1>. QED
  BY <1>1, <1>2, AllocatorInvariant, PTL DEF Spec

(* FreeListApart: after any sequence of reservations and frees the free    *)
(* list of freeBlock is in address order and no two of its blocks touch.   *)
THEOREM FreeListApartTheorem == Spec => []FreeListApart
<1>1. IInv => FreeListApart
  BY DEF IInv, PoolInv
<1>. QED
  BY <1>1, AllocatorInvariant, PTL

(* NothingShared: reserveBlock never hands out an element that is in use,  *)
(* and freeBlock never lists one twice.                                    *)
THEOREM NothingSharedTheorem == Spec => []NothingShared
<1>1. IInv => NothingShared
  BY DEF IInv, PoolInv
<1>. QED
  BY <1>1, AllocatorInvariant, PTL

(* NothingLost: every element of every buffer setActiveBuffer or           *)
(* reserveBlock made is in use or can be handed out again.                 *)
THEOREM NothingLostTheorem == Spec => []NothingLost
<1>1. IInv => NothingLost
  BY DEF IInv
<1>. QED
  BY <1>1, AllocatorInvariant, PTL

-----------------------------------------------------------------------------
(* The refinement                                                          *)

(* A block inside a buffer runs from one address of the heap to another.   *)
LEMMA BlockAddresses ==
  ASSUME IInv, NEW a \in Int, NEW n \in Nat, n > 0, WithinABuffer(Block(a, n))
  PROVE  a \in Addresses /\ a + n - 1 \in Addresses
<1>1. PICK b \in allBuffers : b.start <= a /\ a + n <= b.end
  BY DEF WithinABuffer, Block
<1>2. b.start \in Int /\ b.end \in Int /\ Cells(b) \subseteq Addresses
  BY BufferNumbers DEF IInv, PoolInv, InHeap
<1>3. a \in Cells(b) /\ a + n - 1 \in Cells(b)
  BY <1>1, <1>2 DEF Cells
<1>. QED
  BY <1>2, <1>3

LEMMA TakeStep ==
  ASSUME IInv', NEW a \in Int, NEW n \in Nat, n > 0, WithinABuffer(Block(a, n))',
         allBuffers \subseteq allBuffers', Cells(Block(a, n)) \cap live = {},
         Grant(Block(a, n))
  PROVE  Pool!Next
<1>1. a \in Addresses /\ a + n - 1 \in Addresses
  <2>1. PICK b \in allBuffers' : b.start <= a /\ a + n <= b.end
    BY DEF WithinABuffer, Block
  <2>2. b.start \in Int /\ b.end \in Int /\ Cells(b) \subseteq Addresses
    BY DEF IInv, MemoryTypes, PoolInv, InHeap, Extents, Cells
  <2>3. a \in Cells(b) /\ a + n - 1 \in Cells(b)
    BY <2>1, <2>2 DEF Cells
  <2>. QED
    BY <2>2, <2>3
<1>2. Block(a, n) = [start |-> a, end |-> (a + n - 1) + 1] /\ a <= a + n - 1
  BY DEF Block
<1>3. Pool!Take(Block(a, n))
  <2>1. /\ Pool!Cells(Block(a, n)) = Cells(Block(a, n))
        /\ Pool!Length(Block(a, n)) = Length(Block(a, n))
    BY DEF Pool!Cells, Cells, Pool!Length, Length
  <2>2. \E b \in allBuffers' : b.start <= Block(a, n).start /\ Block(a, n).end <= b.end
    BY DEF WithinABuffer, Block
  <2>. QED
    BY <2>1, <2>2 DEF Pool!Take, Grant
<1>. QED
  BY <1>1, <1>2, <1>3 DEF Pool!Next

LEMMA GiveStep ==
  ASSUME IInv, NEW a \in Int, NEW n \in Nat, FreeBlock(a, n)
  PROVE  Pool!Next
<1>1. /\ n > 0 /\ allBuffers' = allBuffers /\ live' = live \ Cells(Block(a, n))
      /\ held' = held - n /\ Cells(Block(a, n)) \subseteq live
  BY DEF FreeBlock
<1>2. a \in Addresses /\ a + n - 1 \in Addresses
  BY <1>1, LiveWithinABuffer, BlockAddresses
<1>3. Block(a, n) = [start |-> a, end |-> (a + n - 1) + 1] /\ a <= a + n - 1
  BY <1>1 DEF Block
<1>4. Pool!Give(Block(a, n))
  <2>1. Pool!Length(Block(a, n)) = n /\ Pool!Cells(Block(a, n)) = Cells(Block(a, n))
    BY DEF Pool!Length, Pool!Cells, Cells, Block
  <2>. QED
    BY <1>1, <2>1 DEF Pool!Give
<1>. QED
  BY <1>2, <1>3, <1>4 DEF Pool!Next

LEMMA StepImplements ==
  ASSUME IInv, IInv', held \in Int, [Next]_vars
  PROVE  [Pool!Next]_<<allBuffers, live, held>>
<1>0. MemoryTypes /\ PoolInv
  BY DEF IInv
<1>1. ASSUME NEW n \in Sizes, Reserve(n) PROVE [Pool!Next]_<<allBuffers, live, held>>
  <2>0. n \in Nat
    BY ConstantsAssumption
  <2>1. CASE ReserveInBuffer(n)
    <3>a. PICK a \in Int : a = buffer + used
      BY <1>0 DEF MemoryTypes
    <3>0. /\ Grant(Block(a, n)) /\ allBuffers' = allBuffers
          /\ used + n <= max /\ n > 0 /\ pc = "idle"
          /\ buffer \in Int /\ used \in Nat /\ max \in Nat /\ a \in Int
      BY <1>0, <2>1, <3>a DEF ReserveInBuffer, MemoryTypes
    <3>1. WithinABuffer(Block(a, n))'
      <4>1. PICK b \in allBuffers : b.start <= buffer /\ buffer + max <= b.end
        BY <1>0, <2>0, <3>0 DEF PoolInv, AllInBuffers, WithinABuffer, Block
      <4>2. b.start <= a /\ a + n <= b.end
        BY <1>0, <2>0, <3>0, <3>a, <4>1, BufferNumbers
      <4>. QED
        BY <3>0, <4>2 DEF WithinABuffer, Block
    <3>2. Cells(Block(a, n)) \cap live = {}
      <4>1. Cells(Block(a, n)) \subseteq Rest
        BY <2>0, <3>0, <3>a DEF Rest, Cells, Block
      <4>. QED
        BY <1>0, <4>1 DEF PoolInv, NothingShared
    <3>. QED
      BY <2>0, <3>0, <3>1, <3>2, TakeStep
  <2>2. CASE ReserveFreeBlock(n)
    <3>1. PICK a \in Int :
            /\ Grant(Block(a, n))
            /\ WithinABuffer(Block(a, n))
            /\ \A c \in Cells(Block(a, n)) : InFreeList(c)
      BY <1>0, <2>0, <2>2, ReserveFreeBlockStep
    <3>2. allBuffers' = allBuffers /\ n > 0
      BY <2>2 DEF ReserveFreeBlock, Exhausted
    <3>3. Cells(Block(a, n)) \cap live = {}
      BY <1>0, <3>1 DEF PoolInv, NothingShared, InFreeList
    <3>4. WithinABuffer(Block(a, n))'
      BY <3>1, <3>2 DEF WithinABuffer
    <3>. QED
      BY <2>0, <3>1, <3>2, <3>3, <3>4, TakeStep
  <2>3. CASE ReserveOwnBuffer(n)
    <3>1. PICK a \in Addresses :
            /\ Fresh(a, n)
            /\ allBuffers' = allBuffers \cup {Block(a, n)}
            /\ Grant(Block(a, n))
      BY <2>3 DEF ReserveOwnBuffer
    <3>2. a \in Int /\ n > 0
      BY <2>3, ConstantsAssumption DEF ReserveOwnBuffer, Exhausted
    <3>3. Cells(Block(a, n)) \cap live = {}
      BY <1>0, <2>0, <3>1, <3>2, FreshIsApart
    <3>4. WithinABuffer(Block(a, n))'
      BY <2>0, <3>1, <3>2 DEF WithinABuffer, Block
    <3>. QED
      BY <2>0, <3>1, <3>2, <3>3, <3>4, TakeStep
  <2>4. CASE ReserveNewBuffer(n)
    BY <2>4 DEF ReserveNewBuffer
  <2>. QED
    BY <1>1, <2>1, <2>2, <2>3, <2>4 DEF Reserve
<1>2. ASSUME NEW n \in Sizes, NEW a \in live, FreeBlock(a, n) PROVE Pool!Next
  <2>1. n \in Nat /\ a \in Int
    BY <1>0, ConstantsAssumption DEF MemoryTypes
  <2>. QED
    BY <1>2, <2>1, GiveStep
<1>3. CASE Grow
  <2>1. PICK a \in Addresses :
          /\ Fresh(a, capacity)
          /\ allBuffers' = allBuffers \cup {Block(a, capacity)}
          /\ Grant(Block(a, request))
    BY <1>3 DEF Grow
  <2>2. /\ a \in Int /\ capacity \in Nat /\ request \in Nat /\ request <= capacity
    BY <1>0, ConstantsAssumption DEF MemoryTypes
  <2>3. CASE request = 0
    <3>1. live' = live /\ held' = held
      BY <2>1, <2>2, <2>3 DEF Grant, Length, Cells, Block
    <3>. QED
      BY <2>1, <3>1 DEF Pool!Next, Pool!Extend
  <2>4. CASE request > 0
    <3>0. PICK n \in Nat : n = request
      BY <2>2
    <3>1. Cells(Block(a, n)) \cap live = {}
      <4>1. Cells(Block(a, n)) \subseteq Cells(Block(a, capacity))
        BY <2>2, <3>0 DEF Cells, Block
      <4>. QED
        BY <1>0, <2>1, <2>2, <4>1, FreshIsApart
    <3>2. WithinABuffer(Block(a, n))'
      <4>1. PICK b \in allBuffers' : b = Block(a, capacity)
        BY <2>1
      <4>2. b.start <= Block(a, n).start /\ Block(a, n).end <= b.end
        BY <2>2, <3>0, <4>1 DEF Block
      <4>. QED
        BY <4>2 DEF WithinABuffer
    <3>. QED
      BY <2>1, <2>2, <2>4, <3>0, <3>1, <3>2, TakeStep
  <2>. QED
    BY <2>2, <2>3, <2>4
<1>4. ASSUME \/ \E c \in Capacities : SetActiveBuffer(c)
             \/ JoinLeftOfProbe \/ JoinRightOfProbe \/ SearchLeft \/ SearchRight
             \/ InsertBlock \/ UNCHANGED vars
      PROVE  UNCHANGED <<allBuffers, live, held>>
  BY <1>4
  DEF SetActiveBuffer, JoinLeftOfProbe, JoinRightOfProbe, SearchLeft, SearchRight, InsertBlock,
      Return, vars
<1>. QED
  BY <1>1, <1>2, <1>3, <1>4 DEF Next, Internal

(* ImplementsPool: reserveBlock, freeBlock and setActiveBuffer do to the   *)
(* memory of their users what the pool of BlockPool does, and no more.     *)
THEOREM PoolRefinement == Spec => ImplementsPool
<1>1. Init => Pool!Init
  BY DEF Init, Pool!Init
<1>2. IInv /\ IInv' /\ held \in Int /\ [Next]_vars => [Pool!Next]_<<allBuffers, live, held>>
  BY StepImplements
<1>3. TypeOK => held \in Int
  BY DEF TypeOK
<1>. QED
  BY <1>1, <1>2, <1>3, AllocatorInvariant, TypeCorrect, PTL DEF Spec, ImplementsPool, Pool!Spec
=============================================================================
