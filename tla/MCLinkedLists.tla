--------------------------- MODULE MCLinkedLists ----------------------------
(* LinkedLists on a small instance.                                        *)
EXTENDS LinkedLists, TLC

NodeSymmetry == Permutations(Nodes) \cup Permutations(Lists)

(* Every remainder of every alignment, and both sides of 2^8.              *)
SomeAddresses == 0..520

SomeAlignments == {1, 2, 3, 4, 8, 16, 32, 64, 127, 128, 256}
=============================================================================
