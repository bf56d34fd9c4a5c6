--------------------------- MODULE StackAllocator ---------------------------
(***************************************************************************)
(* StackAllocator (src/StackAllocator.h): Free moves the offset back to    *)
(* the pointer it is given, which gives up everything allocated since.     *)
(***************************************************************************)
EXTENDS BumpAllocation

(* Mutant: m_used keeps its value.                                         *)
FreeKeepsUsed(k) ==
  /\ Running
  /\ offset' = live[k].offset
  /\ live' = SubSeq(live, 1, k - 1)
  /\ UNCHANGED <<ndebug, status, mapped, used>>

Free(k) ==
  /\ Running
  /\ offset' = live[k].offset
  /\ used' = offset'
  /\ live' = SubSeq(live, 1, k - 1)
  /\ UNCHANGED <<ndebug, status, mapped>>

(* Mutant: nullptr is taken for the start of the buffer.                   *)
FreeNullToStart ==
  /\ Running
  /\ offset' = 0
  /\ used' = offset'
  /\ UNCHANGED <<ndebug, status, mapped, live>>

(* A refused Allocate leaves the client with nullptr, which the test frees *)
(* like any other.  Without a buffer it is the first pointer handed out.   *)
FreeNull ==
  /\ Running
  /\ offset' = IF mapped THEN NullOffset ELSE 0
  /\ used' = offset'
  /\ live' = IF mapped THEN live ELSE <<>>
  /\ UNCHANGED <<ndebug, status, mapped>>

Reset ==
  /\ Running
  /\ offset' = 0
  /\ used' = 0
  /\ live' = <<>>
  /\ UNCHANGED <<ndebug, status, mapped>>

Next ==
  \/ CallInit
  \/ Reset
  \/ \E size \in Sizes, alignment \in Alignments : Allocate(size, alignment)
  \/ \E k \in 1..Len(live) : Free(k)
  \/ FreeNull
  \/ Stopped

Spec == Init /\ [][Next]_vars

-----------------------------------------------------------------------------
(* The test's client frees in LIFO order, and calls Init when nothing is   *)
(* live.                                                                   *)
LifoStep ==
  \/ live = <<>> /\ CallInit
  \/ Reset
  \/ \E size \in Sizes, alignment \in Alignments : Allocate(size, alignment)
  \/ live # <<>> /\ Free(Len(live))
=============================================================================
