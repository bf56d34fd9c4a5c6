--------------------------- MODULE BumpAllocation ---------------------------
(***************************************************************************)
(* What StackAllocator and LinearAllocator (src/StackAllocator.h,          *)
(* src/LinearAllocator.h) have in common, line for line: a buffer and an   *)
(* offset; Allocate hands out what is at the offset and moves it up.       *)
(*                                                                         *)
(* live lists the pointers the client got since the last Init or Reset,    *)
(* oldest first, without the null pointers.  Addresses are offsets from    *)
(* m_start_ptr, which malloc aligned for every alignment in Alignments.    *)
(***************************************************************************)
EXTENDS Integers, Sequences

CONSTANTS
  TotalSize,    \* m_totalSize
  SizeT,        \* 2^64, the modulus of std::size_t
  Start,        \* what malloc(m_totalSize) returns, as a number
  Sizes,        \* sizes the client asks for
  Alignments,   \* alignments the client asks for
  MaxLive,      \* bound on the pointers the client keeps
  MallocResults \* what malloc may return: subset of BOOLEAN, TRUE for success

ASSUME BumpAssumption ==
  /\ TotalSize \in Nat
  /\ SizeT \in Nat \ {0}
  /\ Start \in 1..(SizeT - TotalSize)
  /\ Sizes \subseteq Nat
  /\ Alignments \subseteq Nat \ {0}
  /\ MaxLive \in Nat
  /\ MallocResults \subseteq BOOLEAN

VARIABLES
  ndebug,     \* the build: TRUE when assert() is compiled out
  status,     \* "running", or how the program stopped
  mapped,     \* m_start_ptr # nullptr
  offset,     \* m_offset
  used,       \* m_used
  live        \* the client's pointers: where, how many bytes, asked for with
              \* which alignment, and whether they point into a buffer

vars == <<ndebug, status, mapped, offset, used, live>>

Block == [offset : Nat, size : Nat, request : Nat, alignment : Nat, real : BOOLEAN]

End(b) == b.offset + b.size

(* Mutant: the remainder is padded, not what is missing to a multiple.     *)
PaddingRemainder(size, alignment) == size % alignment

(* Mutant: the size is rounded down.                                       *)
PaddingRoundsDown(size, alignment) == 0 - (size % alignment)

(* Never 0: an aligned size is padded by a whole alignment.                *)
Padding(size, alignment) == alignment - (size % alignment)

(* Mutant: the bytes already handed out are forgotten.                     *)
RequiredSizeFromZero(size, alignment) == (Padding(size, alignment) + size) % SizeT

RequiredSize(size, alignment) == (offset + Padding(size, alignment) + size) % SizeT

Running == status = "running"

AssertFails(how) == ndebug' = ndebug /\ status' = IF ndebug THEN status ELSE how

(* The offset starts over; m_used does not.                                *)
CallInit ==
  /\ Running
  /\ mapped' \in MallocResults
  /\ offset' = 0
  /\ live' = <<>>
  /\ UNCHANGED <<ndebug, status, used>>

AllocateRefused(size, alignment) ==
  /\ Running
  /\ RequiredSize(size, alignment) > TotalSize
  /\ AssertFails("full")
  /\ UNCHANGED <<mapped, offset, used, live>>

(* The assert on the address comes after the update.                       *)
AllocateGranted(size, alignment) ==
  LET taken == (Padding(size, alignment) + size) % SizeT
  IN  /\ Running
      /\ Len(live) < MaxLive
      /\ RequiredSize(size, alignment) <= TotalSize
      /\ offset' = (offset + taken) % SizeT
      /\ used' = offset'
      /\ live' = Append(live, [offset |-> offset, size |-> taken,
                               request |-> size, alignment |-> alignment,
                               real |-> mapped])
      /\ IF offset % alignment = 0
         THEN UNCHANGED <<ndebug, status>>
         ELSE AssertFails("misaligned")
      /\ UNCHANGED mapped

Allocate(size, alignment) ==
  AllocateRefused(size, alignment) \/ AllocateGranted(size, alignment)

Stopped == ~Running /\ UNCHANGED vars

Init ==
  /\ ndebug \in BOOLEAN
  /\ status = "running"
  /\ mapped = FALSE
  /\ offset = 0
  /\ used = 0
  /\ live = <<>>

-----------------------------------------------------------------------------
(* What both allocators promise about the blocks they hand out.            *)

Top == IF live = <<>> THEN 0 ELSE End(live[Len(live)])

(* nullptr - m_start_ptr, as a std::size_t.                                *)
NullOffset == SizeT - Start

(* The live blocks fill the buffer from its start up to the offset, each   *)
(* next to the one before: none overlaps another and none is lost.  After  *)
(* Free(nullptr) the offset is so far out that nothing is granted until a  *)
(* live pointer is freed, which brings it back.                            *)
Stacked ==
  /\ \A k \in 1..Len(live) :
        live[k].offset = IF k = 1 THEN 0 ELSE End(live[k - 1])
  /\ Top <= TotalSize
  /\ offset \in {Top, NullOffset}

(* A block is as large as was asked for.                                   *)
GrantCoversRequest == \A k \in 1..Len(live) : live[k].size >= live[k].request

(* Padding rounds sizes and not addresses: a block is aligned if all that  *)
(* lie below it asked for multiples of its alignment.                      *)
Aligned ==
  \A k \in 1..Len(live) :
    (\A j \in 1..k : live[j].alignment % live[k].alignment = 0)
      => live[k].offset % live[k].alignment = 0

(* Every pointer handed out points into the malloc'ed buffer.              *)
PointersAreReal == \A k \in 1..Len(live) : live[k].real

(* The client's pointer variables: h holds the block of that place in live.*)
Extents == [h \in 1..MaxLive |->
  IF h <= Len(live) THEN [offset |-> live[h].offset, size |-> live[h].size]
  ELSE [offset |-> 0, size |-> 0]]

(* What the base class promises, of the live blocks.                       *)
Interface == INSTANCE AllocatorInterface WITH
  Handles  <- 1..MaxLive,
  Capacity <- TotalSize,
  extent   <- Extents
=============================================================================
