------------------------------ MODULE MCPools -------------------------------
(* PoolAllocators on small instances.                                      *)
EXTENDS PoolAllocators

TwoPools == <<8, 16>>

(* malloc put something between the pools.                                 *)
Separate == [p \in Pools |-> Nowhere]

(* malloc put the first buffer right behind the last one.                  *)
FirstBehindLast ==
  [p \in Pools |-> IF p = PoolsNum THEN [pool |-> 1, chunk |-> 0] ELSE Nowhere]
=============================================================================
