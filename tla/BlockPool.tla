----------------------------- MODULE BlockPool -----------------------------
(***************************************************************************)
(* What BlockAllocator (GenericBlockAllocator.h) promises its users: a     *)
(* block handed out lies inside one buffer and shares no element with a    *)
(* block still in use; giving a block back takes nothing else away.        *)
(***************************************************************************)
EXTENDS Integers

CONSTANT Addresses  \* the addresses of the heap

VARIABLES
  buffers,  \* every buffer obtained from the heap, as extents [start, end)
  live,     \* the elements the users hold
  held      \* how many they hold by their own count

Cells(b)  == b.start .. (b.end - 1)
Length(b) == b.end - b.start

Init ==
  /\ buffers = {}
  /\ live = {} /\ held = 0

(* The block handed out may come from a buffer obtained for it.            *)
Take(block) ==
  /\ buffers \subseteq buffers'
  /\ \E b \in buffers' : b.start <= block.start /\ block.end <= b.end
  /\ Cells(block) \cap live = {}
  /\ live' = live \cup Cells(block) /\ held' = held + Length(block)

Give(block) ==
  /\ Cells(block) \subseteq live
  /\ live' = live \ Cells(block) /\ held' = held - Length(block)
  /\ UNCHANGED buffers

Extend ==
  /\ buffers \subseteq buffers'
  /\ UNCHANGED <<live, held>>

Next ==
  \/ \E first, last \in Addresses :
       LET block == [start |-> first, end |-> last + 1] IN
         first <= last /\ (Take(block) \/ Give(block))
  \/ Extend

Spec == Init /\ [][Next]_<<buffers, live, held>>
=============================================================================
