----------------------------- MODULE MCFreeList -----------------------------
(* FreeListAllocator on small instances: pointers are interchangeable.     *)
EXTENDS FreeListAllocator, TLC

PointerSymmetry == Permutations(Handles)
=============================================================================
