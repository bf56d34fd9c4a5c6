---------------------------- MODULE PoolAllocator ----------------------------
(***************************************************************************)
(* PoolAllocator (src/PoolAllocator.h): a buffer cut into chunks of one    *)
(* size, and an array m_freeChunks used as a stack of the free ones.       *)
(*                                                                         *)
(* A pointer is the number of chunks between m_start_ptr and it; malloc    *)
(* aligned m_start_ptr for every alignment in Alignments.  One thread      *)
(* makes the calls, each an action; PoolAllocators has threads.            *)
(***************************************************************************)
EXTENDS Integers, FiniteSets

CONSTANTS
  ChunksNum,    \* m_chunksNum
  ChunkSize,    \* m_chunkSize
  SizeT,        \* 2^64, the modulus of std::size_t
  ThreadPolicy, \* cPoolAllocThreadPolicy
  NDEBUG,       \* TRUE when assert() is compiled out
  Handles,      \* pointer variables of the client: bounds the live chunks
  Sizes,        \* sizes the client asks for
  Alignments,   \* alignments the client asks for
  Foreign,      \* pointers from elsewhere that Free is called with
  MallocResults \* what malloc may return: subset of BOOLEAN, TRUE for success

ASSUME PoolAssumption ==
  /\ ChunksNum \in Nat \ {0}
  /\ ChunkSize \in Nat \ {0}
  /\ SizeT \in Nat \ {0}
  /\ ChunksNum * ChunkSize < SizeT
  /\ ThreadPolicy \in {"NONE", "ENABLE_SPIN_LOCK"}
  /\ NDEBUG \in BOOLEAN
  /\ IsFiniteSet(Handles)
  /\ Sizes \subseteq Nat
  /\ Alignments \subseteq Nat \ {0}
  /\ Foreign \subseteq Int
  /\ MallocResults \subseteq BOOLEAN

VARIABLES
  status,     \* "running", or how the program stopped
  listed,     \* m_freeChunks # nullptr
  freeChunks, \* m_freeChunks
  current,    \* m_currFreeChunksIdx
  used,       \* m_used
  locked,     \* m_spinlock, as the last call left it
  held        \* handle -> the chunk the client holds there

vars == <<status, listed, freeChunks, current, used, locked, held>>

Chunks == 0..(ChunksNum - 1)

(* One past the last chunk: m_start_ptr + m_totalSize.                     *)
PastEnd == ChunksNum

Pointers == Chunks \cup {PastEnd}

Held == [chunk : Pointers, request : Nat]

NoChunk == [chunk |-> PastEnd, request |-> 0]

Holding == {h \in Handles : held[h] # NoChunk}

Running == status = "running"

(* lock() returns at once, or never: nobody else is there to unlock.       *)
LockTaken == ThreadPolicy = "ENABLE_SPIN_LOCK" => ~locked

(* An early return skips unlock().                                         *)
LeaveLocked == locked' = (ThreadPolicy = "ENABLE_SPIN_LOCK")

AssertFails(how) == status' = IF NDEBUG THEN status ELSE how

(* The range check of Free lets the end of the buffer pass.                *)
InBuffer(p) == p * ChunkSize \in 0..(ChunksNum * ChunkSize)

-----------------------------------------------------------------------------
(* Mutant: m_used keeps its value.                                         *)
ResetListKeepsUsed ==
  /\ freeChunks' = [i \in Chunks |-> i]
  /\ current' = ChunksNum - 1
  /\ held' = [h \in Handles |-> NoChunk]
  /\ UNCHANGED used

(* What Reset does between lock() and unlock().                            *)
ResetList ==
  /\ used' = 0
  /\ freeChunks' = [i \in Chunks |-> i]
  /\ current' = ChunksNum - 1
  /\ held' = [h \in Handles |-> NoChunk]

(* Init() requests both arrays anew, whether or not it had some.  Here the *)
(* request for m_freeChunks may fail, and in AllocatorLifetime either.     *)
CallInit ==
  /\ Running /\ LockTaken
  /\ listed' \in MallocResults
  /\ IF listed'
     THEN ResetList /\ UNCHANGED status
     ELSE /\ status' = "null list"
          /\ UNCHANGED <<freeChunks, current, used, held>>
  /\ UNCHANGED locked

Reset ==
  /\ Running /\ LockTaken
  /\ IF listed
     THEN ResetList /\ UNCHANGED status
     ELSE /\ status' = "null list"
          /\ UNCHANGED <<freeChunks, current, used, held>>
  /\ UNCHANGED <<listed, locked>>

(* Allocate: the first assert, before the lock is taken.                   *)
AllocateTooLarge(size) ==
  /\ Running
  /\ ~NDEBUG
  /\ size > ChunkSize
  /\ status' = "too large"
  /\ UNCHANGED <<listed, freeChunks, current, used, locked, held>>

Accepted(size) == Running /\ LockTaken /\ (NDEBUG \/ size <= ChunkSize)

AllocateFull(size) ==
  /\ Accepted(size)
  /\ current < 0
  /\ AssertFails("full")
  /\ LeaveLocked
  /\ UNCHANGED <<listed, freeChunks, current, used, held>>

(* Before Init, m_freeChunks is null and m_currFreeChunksIdx is not -1.    *)
AllocateUndefined(size) ==
  /\ Accepted(size)
  /\ current >= 0
  /\ ~listed
  /\ status' = "null list"
  /\ UNCHANGED <<listed, freeChunks, current, used, locked, held>>

(* Mutant: the index moves before the slot is read, as in Free.            *)
PopBefore == IF current > 0 THEN freeChunks[current - 1] ELSE freeChunks[0]

(* m_freeChunks[m_currFreeChunksIdx--]                                     *)
Pop == freeChunks[current]

AllocateChunk(h, size, alignment) ==
  /\ Accepted(size)
  /\ held[h] = NoChunk
  /\ current >= 0
  /\ listed
  /\ held' = [held EXCEPT ![h] = [chunk |-> Pop, request |-> size]]
  /\ current' = current - 1
  /\ used' = (used + ChunkSize) % SizeT
  /\ IF (Pop * ChunkSize) % alignment = 0
     THEN UNCHANGED status
     ELSE AssertFails("misaligned")
  /\ UNCHANGED <<listed, freeChunks, locked>>

(* Mutants: the slot is written before the index moves; m_used stays.      *)
PushBefore(p) ==
  /\ used' = (used - ChunkSize) % SizeT
  /\ current' = current + 1
  /\ IF current \in Chunks
     THEN freeChunks' = [freeChunks EXCEPT ![current] = p] /\ UNCHANGED status
     ELSE UNCHANGED <<status, freeChunks>>

PushKeepsUsed(p) ==
  /\ current' = current + 1
  /\ IF current + 1 \in Chunks
     THEN freeChunks' = [freeChunks EXCEPT ![current + 1] = p] /\ UNCHANGED status
     ELSE status' = "overflow" /\ UNCHANGED freeChunks
  /\ UNCHANGED used

(* What Free does with a pointer that passes the range check: nothing      *)
(* stops it from writing past the end of m_freeChunks.                     *)
Push(p) ==
  /\ used' = (used - ChunkSize) % SizeT
  /\ current' = current + 1
  /\ IF current + 1 \in Chunks
     THEN freeChunks' = [freeChunks EXCEPT ![current + 1] = p] /\ UNCHANGED status
     ELSE status' = "overflow" /\ UNCHANGED freeChunks

Free(h) ==
  /\ Running /\ LockTaken
  /\ held[h] # NoChunk
  /\ IF InBuffer(held[h].chunk)
     THEN /\ Push(held[h].chunk)
          /\ held' = [held EXCEPT ![h] = NoChunk]
          /\ UNCHANGED locked
     ELSE /\ LeaveLocked
          /\ UNCHANGED <<status, freeChunks, current, used, held>>
  /\ UNCHANGED listed

(* Free is called with a pointer that is not the client's to free here, as *)
(* PoolAllocators does to find out whose it is.                            *)
FreeForeign(p) ==
  /\ Running /\ LockTaken
  /\ listed
  /\ IF InBuffer(p)
     THEN Push(p) /\ UNCHANGED locked
     ELSE LeaveLocked /\ UNCHANGED <<status, freeChunks, current, used>>
  /\ UNCHANGED <<listed, held>>

(* The program has stopped, or its thread spins on the lock it holds.      *)
Stopped == (~Running \/ ~LockTaken) /\ UNCHANGED vars

-----------------------------------------------------------------------------
Init ==
  /\ status = "running"
  /\ listed = FALSE
  /\ freeChunks = [i \in Chunks |-> i]
  /\ current = ChunksNum - 1
  /\ used = 0
  /\ locked = FALSE
  /\ held = [h \in Handles |-> NoChunk]

Next ==
  \/ CallInit
  \/ Reset
  \/ \E size \in Sizes :
       \/ AllocateTooLarge(size) \/ AllocateFull(size) \/ AllocateUndefined(size)
       \/ \E h \in Handles, alignment \in Alignments : AllocateChunk(h, size, alignment)
  \/ \E h \in Handles : Free(h)
  \/ \E p \in Foreign : FreeForeign(p)
  \/ Stopped

Spec == Init /\ [][Next]_vars

-----------------------------------------------------------------------------
(* Properties, for clients that free what they hold, and pointers that lie *)
(* outside of the buffer and not at its end.                               *)

TypeOK ==
  /\ status \in {"running", "null list", "too large", "full", "misaligned", "overflow"}
  /\ listed \in BOOLEAN
  /\ freeChunks \in [Chunks -> Pointers]
  /\ current \in -1..(ChunksNum - 1)
  /\ used \in 0..(ChunksNum * ChunkSize)
  /\ locked \in BOOLEAN
  /\ held \in [Handles -> Held]

FreeSlots == 0..current

(* Every chunk is on the stack of free ones or held, exactly once; so      *)
(* m_freeChunks never overflows and a chunk is never handed out twice.     *)
ChunksConserved ==
  /\ status # "overflow"
  /\ \A i, j \in FreeSlots : i # j => freeChunks[i] # freeChunks[j]
  /\ \A g, h \in Holding : g # h => held[g].chunk # held[h].chunk
  /\ \A i \in FreeSlots, h \in Holding : freeChunks[i] # held[h].chunk
  /\ {freeChunks[i] : i \in FreeSlots} \cup {held[h].chunk : h \in Holding} = Chunks

(* GetUsedSize() is what the client holds.                                 *)
UsedIsHeld == used = ChunkSize * Cardinality(Holding)

Extents == [h \in Handles |-> IF held[h] = NoChunk
                               THEN [offset |-> 0, size |-> 0]
                               ELSE [offset |-> held[h].chunk * ChunkSize,
                                     size |-> ChunkSize]]

Interface == INSTANCE AllocatorInterface WITH
  Capacity <- ChunksNum * ChunkSize,
  extent   <- Extents

(* Every call is a step of the abstract allocator, or none.                *)
ImplementsInterface == Interface!IfaceSpec
=============================================================================
