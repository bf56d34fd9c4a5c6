-------------------------- MODULE LinearAllocator ---------------------------
(***************************************************************************)
(* LinearAllocator (src/LinearAllocator.h): nothing is freed before        *)
(* Reset, and Reset also gives the buffer back to the system: what         *)
(* Allocate returns until the next Init is counted from nullptr.           *)
(***************************************************************************)
EXTENDS BumpAllocation

(* Free() fails its assert, or does nothing and returns false.             *)
Free ==
  /\ Running
  /\ live # <<>>
  /\ AssertFails("not supported")
  /\ UNCHANGED <<mapped, offset, used, live>>

(* Mutant: m_used keeps its value.                                         *)
ResetKeepsUsed ==
  /\ Running
  /\ mapped' = FALSE
  /\ offset' = 0
  /\ live' = <<>>
  /\ UNCHANGED <<ndebug, status, used>>

Reset ==
  /\ Running
  /\ mapped' = FALSE
  /\ offset' = 0
  /\ used' = 0
  /\ live' = <<>>
  /\ UNCHANGED <<ndebug, status>>

Next ==
  \/ CallInit
  \/ Reset
  \/ \E size \in Sizes, alignment \in Alignments : Allocate(size, alignment)
  \/ Free
  \/ Stopped

Spec == Init /\ [][Next]_vars

-----------------------------------------------------------------------------
(* A client that calls Init when nothing is live, as it should.            *)
FreshStep ==
  \/ live = <<>> /\ CallInit
  \/ Reset
  \/ \E size \in Sizes, alignment \in Alignments : Allocate(size, alignment)
  \/ Free
=============================================================================
