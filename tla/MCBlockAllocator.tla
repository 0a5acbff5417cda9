-------------------------- MODULE MCBlockAllocator --------------------------
(***************************************************************************)
(* The allocator on a heap of a few elements.                              *)
(***************************************************************************)
EXTENDS BlockAllocator

CONSTANT HeapSize   \* bound: elements of the heap, buffers and gaps together

MCAddresses == 1 .. HeapSize
=============================================================================
