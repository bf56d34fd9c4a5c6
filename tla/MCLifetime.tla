----------------------------- MODULE MCLifetime -----------------------------
(* AllocatorLifetime on a small instance.                                  *)
EXTENDS AllocatorLifetime, TLC

LifetimeSymmetry == Permutations(Objects) \cup Permutations(Buffers)
=============================================================================
