--------------------------- MODULE BumpAllocators ---------------------------
(***************************************************************************)
(* An allocator of either class, in a build with or without asserts.       *)
(***************************************************************************)
EXTENDS BumpAllocation

VARIABLE class

Stack  == INSTANCE StackAllocator
Linear == INSTANCE LinearAllocator

BumpInit == Init /\ class \in {"StackAllocator", "LinearAllocator"}

BumpNext ==
  /\ class' = class
  /\ \/ class = "StackAllocator" /\ Stack!Next
     \/ class = "LinearAllocator" /\ Linear!Next

BumpSpec == BumpInit /\ [][BumpNext]_<<class, vars>>

-----------------------------------------------------------------------------
(* Every call that changes what is live, or m_used, leaves GetUsedSize()   *)
(* where the last live block ends, also when that was elsewhere before.    *)
(* Two do not: Init, which leaves m_used stale, and Free(nullptr) of a     *)
(* stack with a buffer, which takes it out of the buffer.                  *)
UsedFollowsLive ==
  [][\/ used' = Top'
     \/ UNCHANGED <<used, live>>
     \/ CallInit
     \/ class = "StackAllocator" /\ mapped /\ Stack!FreeNull]_<<class, vars>>

(* For a client of the stack that frees in LIFO order, and one of either   *)
(* class that calls Init when nothing is live and never frees nullptr, the *)
(* allocator keeps the promise of the base class: extents apart, used      *)
(* counts them, Free returns one extent or, if linear, none.               *)
ImplementsInterface ==
  /\ Interface!IfaceInit
  /\ [][/\ used = Top
        /\ \/ class = "StackAllocator" /\ Stack!LifoStep
           \/ class = "LinearAllocator" /\ Linear!FreshStep
        => [Interface!IfaceNext]_(Interface!ifaceVars)]_<<class, vars>>
=============================================================================
