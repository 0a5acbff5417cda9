--------------------------- MODULE BlockAllocator ---------------------------
(***************************************************************************)
(* The pool allocator of the parser (GenericBlockAllocator.h).  Blocks are *)
(* bump-allocated from an active buffer; what is freed goes into a sorted  *)
(* list of free blocks, found by binary search and merged with neighbours. *)
(* The allocator does not remember what it handed out: its users keep the  *)
(* starts and lengths, and may give back any part of what they hold.       *)
(*                                                                         *)
(* Addresses are integers counted in elements.  freeBlock's binary search  *)
(* is one action per probe; every other operation is one action, except    *)
(* that a call of setActiveBuffer passes through freeBlock first.          *)
(***************************************************************************)
EXTENDS Integers, SequencesExt

CONSTANTS
  NewBufferLength,  \* newBufferLength: default capacity of new buffers
  Capacities,       \* what the users pass to setActiveBuffer
  Sizes,            \* how many elements the users reserve or free at once
  Addresses         \* the addresses of the heap

ASSUME ConstantsAssumption ==
  /\ NewBufferLength \in Nat
  /\ Capacities \subseteq Nat
  /\ Sizes \subseteq Nat
  /\ Addresses \subseteq Int

VARIABLES
  FreeBlocks,  \* all free blocks [start, end), in address order
  allBuffers,  \* the extent of every buffer made
  buffer,      \* start of the active buffer
  max,         \* its capacity
  used,        \* number of its elements used
  live,        \* elements the users hold
  held,        \* how many they hold by their own count (history)
  pc,          \* "idle", "free" or "retire" (searching), or "grow"
  newBlock,    \* freeBlock's newBlock
  minimum,     \* freeBlock's minimum
  maximum,     \* freeBlock's maximum
  capacity,    \* capacity of the buffer setActiveBuffer is to make
  request      \* elements reserveBlock takes from it, 0 if called directly

active == <<buffer, max, used>>
search == <<newBlock, minimum, maximum>>
growth == <<capacity, request>>
vars   == <<FreeBlocks, allBuffers, active, live, held, pc, search, growth>>

Block(a, n) == [start |-> a, end |-> a + n]
Length(b)   == b.end - b.start
Cells(b)    == b.start .. (b.end - 1)
NoBlock     == Block(0, 0)

Init ==
  /\ FreeBlocks = <<>>
  /\ allBuffers = {}
  /\ buffer = 0 /\ max = 0 /\ used = 0
  /\ live = {} /\ held = 0
  /\ pc = "idle"
  /\ newBlock = NoBlock /\ minimum = 0 /\ maximum = 0
  /\ capacity = 0 /\ request = 0

-----------------------------------------------------------------------------
(* new T[n] where the heap has room: it keeps data of its own between any  *)
(* two buffers.  Where it has none, bad_alloc ends the program.            *)
Fresh(a, n) ==
  /\ Cells(Block(a, n)) \subseteq Addresses
  /\ \A b \in allBuffers : b.end < a \/ a + n < b.start

Grant(block) ==
  live' = live \cup Cells(block) /\ held' = held + Length(block)

-----------------------------------------------------------------------------
(* reserveBlock; a request for 0 elements is answered with nullptr.        *)

Exhausted(n) == pc = "idle" /\ n > 0 /\ used + n > max

(* Faulty variant: one element too many is taken from the buffer's end.    *)
ReserveInBufferOffByOne(n) ==
  /\ pc = "idle" /\ n > 0
  /\ used + n <= max + 1
  /\ Grant(Block(buffer + used, n))
  /\ used' = used + n
  /\ UNCHANGED <<FreeBlocks, allBuffers, buffer, max, pc, search, growth>>

ReserveInBuffer(n) ==
  /\ pc = "idle" /\ n > 0
  /\ used + n <= max
  /\ Grant(Block(buffer + used, n))
  /\ used' = used + n
  /\ UNCHANGED <<FreeBlocks, allBuffers, buffer, max, pc, search, growth>>

FirstFit(i, n) ==
  /\ Length(FreeBlocks[i]) >= n
  /\ \A j \in 1 .. (i - 1) : Length(FreeBlocks[j]) < n

ReserveFreeBlock(n) ==
  /\ Exhausted(n)
  /\ \E i \in DOMAIN FreeBlocks :
       LET fb == FreeBlocks[i] IN
         /\ FirstFit(i, n)
         /\ Grant(Block(fb.start, n))
         /\ FreeBlocks' =
              IF Length(fb) > n
                THEN [FreeBlocks EXCEPT ![i] = [start |-> fb.start + n, end |-> fb.end]]
                ELSE RemoveAt(FreeBlocks, i)
  /\ UNCHANGED <<allBuffers, active, pc, search, growth>>

NoFit(n) == \A i \in DOMAIN FreeBlocks : Length(FreeBlocks[i]) < n

(* A request larger than new buffers are gets a buffer of its own; the     *)
(* active buffer stays.                                                    *)
ReserveOwnBuffer(n) ==
  /\ Exhausted(n) /\ NoFit(n)
  /\ n > NewBufferLength
  /\ \E a \in Addresses :
       /\ Fresh(a, n)
       /\ allBuffers' = allBuffers \cup {Block(a, n)}
       /\ Grant(Block(a, n))
  /\ UNCHANGED <<FreeBlocks, active, pc, search, growth>>

StartSearch(block) ==
  /\ newBlock' = block
  /\ minimum' = 0
  /\ maximum' = Len(FreeBlocks)

(* Faulty variant: the rest of the active buffer is forgotten.             *)
RetireForgetful(c, r) ==
  /\ capacity' = c /\ request' = r
  /\ pc' = "grow" /\ UNCHANGED search

(* setActiveBuffer: what is left of the active buffer becomes a free block *)
(* before the new buffer is made.                                          *)
Retire(c, r) ==
  /\ capacity' = c /\ request' = r
  /\ IF used < max
       THEN pc' = "retire" /\ StartSearch([start |-> buffer + used, end |-> buffer + max])
       ELSE pc' = "grow" /\ UNCHANGED search

ReserveNewBuffer(n) ==
  /\ Exhausted(n) /\ NoFit(n)
  /\ n <= NewBufferLength
  /\ Retire(NewBufferLength, n)
  /\ UNCHANGED <<FreeBlocks, allBuffers, active, live, held>>

SetActiveBuffer(c) ==
  /\ pc = "idle"
  /\ Retire(c, 0)
  /\ UNCHANGED <<FreeBlocks, allBuffers, active, live, held>>

(* Faulty variant: the elements reserved from the new buffer still count   *)
(* as unused.                                                              *)
GrowUnused ==
  /\ pc = "grow"
  /\ \E a \in Addresses :
       /\ Fresh(a, capacity)
       /\ allBuffers' = allBuffers \cup {Block(a, capacity)}
       /\ buffer' = a /\ max' = capacity /\ used' = 0
       /\ Grant(Block(a, request))
  /\ pc' = "idle" /\ capacity' = 0 /\ request' = 0
  /\ UNCHANGED <<FreeBlocks, search>>

Grow ==
  /\ pc = "grow"
  /\ \E a \in Addresses :
       /\ Fresh(a, capacity)
       /\ allBuffers' = allBuffers \cup {Block(a, capacity)}
       /\ buffer' = a /\ max' = capacity /\ used' = request
       /\ Grant(Block(a, request))
  /\ pc' = "idle" /\ capacity' = 0 /\ request' = 0
  /\ UNCHANGED <<FreeBlocks, search>>

-----------------------------------------------------------------------------
(* freeBlock; freeing 0 elements does nothing.                             *)

FreeBlock(a, n) ==
  /\ pc = "idle" /\ n > 0
  /\ Cells(Block(a, n)) \subseteq live
  /\ live' = live \ Cells(Block(a, n)) /\ held' = held - n
  /\ pc' = "free"
  /\ StartSearch(Block(a, n))
  /\ UNCHANGED <<FreeBlocks, allBuffers, active, growth>>

Searching == pc \in {"free", "retire"}
midPoint  == (minimum + maximum) \div 2
Probe(k)  == FreeBlocks[k + 1]

Touches == Probe(midPoint).start = newBlock.end \/ Probe(midPoint).end = newBlock.start

(* freeBlock returns to its caller.                                        *)
Return ==
  /\ pc' = (IF pc = "free" THEN "idle" ELSE "grow")
  /\ newBlock' = NoBlock /\ minimum' = 0 /\ maximum' = 0
  /\ UNCHANGED <<allBuffers, active, live, held, growth>>

(* Faulty variant: the block is joined to one neighbour only.              *)
JoinLeftOfProbeOnly ==
  /\ Searching /\ minimum < maximum
  /\ LET fb == Probe(midPoint) IN
       /\ fb.start = newBlock.end
       /\ FreeBlocks' = [FreeBlocks EXCEPT ![midPoint + 1] =
                           [start |-> newBlock.start, end |-> fb.end]]
  /\ Return

(* The probed block begins where the new one ends.                         *)
JoinLeftOfProbe ==
  /\ Searching /\ minimum < maximum
  /\ LET fb == Probe(midPoint) IN
       /\ fb.start = newBlock.end
       /\ FreeBlocks' =
            IF midPoint > 0 /\ Probe(midPoint - 1).end = newBlock.start
              THEN RemoveAt([FreeBlocks EXCEPT ![midPoint] =
                               [start |-> FreeBlocks[midPoint].start, end |-> fb.end]],
                            midPoint + 1)
              ELSE [FreeBlocks EXCEPT ![midPoint + 1] =
                      [start |-> newBlock.start, end |-> fb.end]]
  /\ Return

(* The probed block ends where the new one begins.                         *)
JoinRightOfProbe ==
  /\ Searching /\ minimum < maximum
  /\ LET fb == Probe(midPoint) IN
       /\ fb.start # newBlock.end
       /\ fb.end = newBlock.start
       /\ FreeBlocks' =
            IF midPoint < maximum - 1 /\ Probe(midPoint + 1).start = newBlock.end
              THEN RemoveAt([FreeBlocks EXCEPT ![midPoint + 2] =
                               [start |-> fb.start, end |-> FreeBlocks[midPoint + 2].end]],
                            midPoint + 1)
              ELSE [FreeBlocks EXCEPT ![midPoint + 1] =
                      [start |-> fb.start, end |-> newBlock.end]]
  /\ Return

SearchLeft ==
  /\ Searching /\ minimum < maximum
  /\ ~Touches
  /\ Probe(midPoint).start > newBlock.end
  /\ maximum' = midPoint
  /\ UNCHANGED <<FreeBlocks, allBuffers, active, live, held, pc, newBlock, minimum, growth>>

(* Faulty variant: the search goes on from the middle, not from after it.  *)
SearchRightFromProbe ==
  /\ Searching /\ minimum < maximum
  /\ ~Touches
  /\ Probe(midPoint).start <= newBlock.end
  /\ minimum' = midPoint
  /\ UNCHANGED <<FreeBlocks, allBuffers, active, live, held, pc, newBlock, maximum, growth>>

SearchRight ==
  /\ Searching /\ minimum < maximum
  /\ ~Touches
  /\ Probe(midPoint).start <= newBlock.end
  /\ minimum' = midPoint + 1
  /\ UNCHANGED <<FreeBlocks, allBuffers, active, live, held, pc, newBlock, maximum, growth>>

InsertBlock ==
  /\ Searching /\ minimum >= maximum
  /\ FreeBlocks' = InsertAt(FreeBlocks, minimum + 1, newBlock)
  /\ Return

-----------------------------------------------------------------------------
Reserve(n) ==
  \/ ReserveInBuffer(n) \/ ReserveFreeBlock(n)
  \/ ReserveOwnBuffer(n) \/ ReserveNewBuffer(n)

Internal ==
  JoinLeftOfProbe \/ JoinRightOfProbe \/ SearchLeft \/ SearchRight \/ InsertBlock \/ Grow

Next ==
  \/ \E n \in Sizes : Reserve(n) \/ \E a \in live : FreeBlock(a, n)
  \/ \E c \in Capacities : SetActiveBuffer(c)
  \/ Internal

Spec == Init /\ [][Next]_vars

(* An operation once called runs until it returns.                         *)
FairSpec == Spec /\ WF_vars(Internal)

-----------------------------------------------------------------------------
(* Properties                                                              *)

Extents == [start : Int, end : Int]

MemoryTypes ==
  /\ FreeBlocks \in Seq(Extents)
  /\ allBuffers \in SUBSET Extents
  /\ buffer \in Int /\ max \in Nat /\ used \in 0 .. max
  /\ live \in SUBSET Int
  /\ pc \in {"idle", "free", "retire", "grow"}
  /\ newBlock \in Extents
  /\ minimum \in Nat /\ maximum \in Nat
  /\ capacity \in Nat /\ request \in 0 .. capacity

(* Every variable keeps its type.                                          *)
TypeOK == MemoryTypes /\ held \in Int

(* The free list is in address order and no two of its blocks touch: after *)
(* any sequence of frees the binary search still finds every neighbour,    *)
(* also those outside the part of the list it has narrowed to.             *)
FreeListApart ==
  \A i, j \in DOMAIN FreeBlocks :
    /\ FreeBlocks[i].start < FreeBlocks[i].end
    /\ i < j => FreeBlocks[i].end < FreeBlocks[j].start

(* What the active buffer has left, unless it is already being freed.      *)
Rest == IF pc \in {"retire", "grow"} THEN {} ELSE Cells(Block(buffer + used, max - used))

(* The block being freed.                                                  *)
Pending == IF Searching THEN Cells(newBlock) ELSE {}

InFreeList(c) == \E i \in DOMAIN FreeBlocks : c \in Cells(FreeBlocks[i])
InABuffer(c)  == \E b \in allBuffers : c \in Cells(b)

(* No element is at once in use, on the free list, in the rest of the      *)
(* active buffer or on its way to the free list: no block is ever handed   *)
(* out twice.                                                              *)
NothingShared ==
  /\ live \cap Rest = {} /\ live \cap Pending = {} /\ Rest \cap Pending = {}
  /\ \A i \in DOMAIN FreeBlocks : \A c \in Cells(FreeBlocks[i]) :
       c \notin live \cup Rest \cup Pending

(* Every element of every buffer is in use or can be handed out again:     *)
(* retiring a buffer, splitting and merging free blocks lose nothing.      *)
NothingLost ==
  \A b \in allBuffers : \A c \in Cells(b) :
    c \in live \cup Rest \cup Pending \/ InFreeList(c)

(* freeBlock's search ends: every call returns.                            *)
CallsReturn == Searching ~> ~Searching

(* Users see a pool that hands out every element at most once at a time.   *)
Pool == INSTANCE BlockPool WITH buffers <- allBuffers
ImplementsPool == Pool!Spec

-----------------------------------------------------------------------------
(* Inductive strengthening, used by the proofs                             *)

WithinABuffer(block) ==
  \E b \in allBuffers : b.start <= block.start /\ block.end <= b.end

InHeap == \A b \in allBuffers : Cells(b) \subseteq Addresses

BuffersApart ==
  \A b1, b2 \in allBuffers : b1 = b2 \/ b1.end < b2.start \/ b2.end < b1.start

(* What lies left of minimum is left of the new block, and what lies from  *)
(* maximum on is right of it; neither touches it.                          *)
SearchNarrows ==
  Searching =>
    /\ newBlock.start < newBlock.end /\ WithinABuffer(newBlock)
    /\ minimum <= maximum /\ maximum <= Len(FreeBlocks)
    /\ \A i \in DOMAIN FreeBlocks :
         /\ i <= minimum => FreeBlocks[i].end < newBlock.start
         /\ i > maximum  => newBlock.end < FreeBlocks[i].start

AllInBuffers ==
  /\ \A i \in DOMAIN FreeBlocks : WithinABuffer(FreeBlocks[i])
  /\ \A c \in live : InABuffer(c)
  /\ max > 0 => WithinABuffer(Block(buffer, max))

PoolInv ==
  FreeListApart /\ InHeap /\ BuffersApart /\ SearchNarrows /\ AllInBuffers /\ NothingShared
=============================================================================
