------------------------------- MODULE MCPool -------------------------------
(* PoolAllocator on small instances: pointers are interchangeable.         *)
EXTENDS PoolAllocator, TLC

PointerSymmetry == Permutations(Handles)

(* Pointers before the buffer and past its end.                            *)
Outside == {-1, ChunksNum + 1}
=============================================================================
