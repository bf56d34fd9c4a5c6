-------------------------- MODULE FreeListAllocator --------------------------
(***************************************************************************)
(* FreeListAllocator (src/FreeListAllocator.h): one malloc'ed buffer whose *)
(* free blocks are recorded, unordered, in a fixed array m_freeMemBlocks;  *)
(* only its first m_currSize slots are the free list, what lies beyond is  *)
(* stale.  A block handed out starts with a header that holds its size.    *)
(*                                                                         *)
(* Addresses are byte offsets from m_start_ptr.  One client thread makes   *)
(* the calls; each call is one action, except FullMergeMemBlocks, whose    *)
(* loop runs one iteration per MergeStep while no other call can start.    *)
(***************************************************************************)
EXTENDS Integers, FiniteSetsExt

CONSTANTS
  TotalSize,    \* m_totalSize
  HeaderSize,   \* cAllocationHeaderSize
  Slots,        \* m_freeMemBlocks.size()
  Uint32,       \* 2^32, the modulus of static_cast<uint32_t>
  SizeT,        \* 2^64, the modulus of std::size_t
  MergePolicy,  \* cMergePolicy
  ThreadPolicy, \* cFreeListThreadPolicy
  NDEBUG,       \* TRUE when assert() is compiled out
  Handles,      \* pointer variables of the client: bounds the live blocks
  Sizes,        \* sizes the client asks for
  Alignments,   \* alignments the client asks for
  MallocResults \* what malloc may return: subset of BOOLEAN, TRUE for success

ASSUME ConstantsAssumption ==
  /\ TotalSize \in Nat
  /\ HeaderSize \in Nat \ {0}
  /\ Slots \in Nat \ {0}
  /\ Uint32 \in Nat \ {0}
  /\ SizeT \in Nat \ {0}
  /\ MergePolicy \in {"FAST_MERGE", "FULL_MERGE", "FULL_MERGE_IF_NO_SPACE"}
  /\ ThreadPolicy \in {"NONE", "ENABLE_SPIN_LOCK"}
  /\ NDEBUG \in BOOLEAN
  /\ Sizes \subseteq Nat
  /\ Alignments \subseteq Nat \ {0}
  /\ MallocResults \subseteq BOOLEAN

VARIABLES
  status,     \* "running", or how the program stopped
  mapped,     \* m_start_ptr # nullptr
  slots,      \* m_freeMemBlocks
  currSize,   \* m_currSize
  used,       \* m_used
  locked,     \* m_spinlock, as the last call left it
  merge,      \* index i of FullMergeMemBlocks' loop, -1 when it is not running
  block,      \* handle -> the block the client holds there, header included
  exactFit,   \* history: the branch restSize = 0 ran since the list was reset
  coalesced   \* history: no block was freed since FullMergeMemBlocks returned

vars == <<status, mapped, slots, currSize, used, locked, merge, block,
          exactFit, coalesced>>

Idle == -1

U32(x) == x % Uint32

(* The bytes Reset() puts on the free list.                                *)
Usable == U32(TotalSize)

MemBlock == [offset : Nat, size : Nat]

EmptySlot == [offset |-> 0, size |-> 0]

(* request is the size the client asked for; header is what the header at  *)
(* offset holds, Clobbered once another live block's data overwrote it.    *)
Held == [offset : Nat, size : Nat, request : Nat, header : Nat]

NoBlock == [offset |-> 0, size |-> 0, request |-> 0, header |-> 0]

Clobbered == 0

FreeIndices == 0..(currSize - 1)

End(b) == b.offset + b.size

(* a and b share a byte.                                                   *)
Overlap(a, b) ==
  a.size > 0 /\ b.size > 0 /\ a.offset < End(b) /\ b.offset < End(a)

(* Bytes of block b that belong to its client: all but the header.         *)
Payload(b) == [offset |-> b.offset + HeaderSize, size |-> b.size - HeaderSize]

Header(b) == [offset |-> b.offset, size |-> HeaderSize]

-----------------------------------------------------------------------------
(* The search.                                                             *)

(* Never 0: an aligned size is padded by a whole alignment.                *)
Padding(size, alignment) == alignment - ((HeaderSize + size) % alignment)

(* Mutants: the header, or the padding, is left out.                       *)
RequiredSizeNoHeader(size, alignment) == U32(size) + Padding(size, alignment)

RequiredSizeNoPadding(size, alignment) == HeaderSize + U32(size)

RequiredSize(size, alignment) ==
  HeaderSize + U32(size) + Padding(size, alignment)

ShouldFullMerge == currSize = Slots

Fitting(n) == {i \in FreeIndices : slots[i].size >= n}

(* Mutant: a cast to a type two bits narrower.                             *)
WideNarrower(i) == slots[i].size >= Uint32 \div 8

(* static_cast<int> turns a size of 2^31 or more into a huge difference.   *)
Wide(i) == slots[i].size >= Uint32 \div 2

(* The loop runs from the last slot down and moves to a slot only when its *)
(* difference is strictly smaller, so a tie stays with the higher index; a *)
(* wide slot is taken only while nothing has been found yet.               *)
Preferred(i, j) ==
  \/ Wide(j) /\ (Wide(i) => i > j)
  \/ /\ ~Wide(i) /\ ~Wide(j)
     /\ \/ slots[i].size < slots[j].size
        \/ slots[i].size = slots[j].size /\ i > j

SearchGivesUp == currSize = 0 \/ ShouldFullMerge \/ used = TotalSize

(* FindFreeMemBlockIndex(n) returns i, of blocks below 2^32 bytes.         *)
FindFreeMemBlockIndex(n, i) ==
  /\ ~SearchGivesUp
  /\ i \in Fitting(n)
  /\ \A j \in Fitting(n) \ {i} : Preferred(i, j)

(* FindFreeMemBlockIndex(n) returns -1.                                    *)
NothingFound(n) == SearchGivesUp \/ Fitting(n) = {}

(* static_cast<int>                                                        *)
AsInt(size) == IF U32(size) < Uint32 \div 2 THEN U32(size) ELSE U32(size) - Uint32

(* Mutant: an equally good slot that is met later replaces the first one.  *)
SearchLoopTies(n) ==
  LET after[k \in 0..currSize] ==
        IF k = 0 THEN [bestIndex |-> -1, smallestDiff |-> SizeT - 1]
        ELSE LET i == currSize - k
             IN  IF /\ slots[i].size >= n
                    /\ (AsInt(slots[i].size) - n) % SizeT <= after[k - 1].smallestDiff
                 THEN [bestIndex |-> i, smallestDiff |-> slots[i].size - n]
                 ELSE after[k - 1]
  IN  after[currSize].bestIndex

(* The loop itself, in the arithmetic of the code: after[k] is what it has *)
(* found when it has looked at k slots, from the last one down.            *)
SearchLoop(n) ==
  LET after[k \in 0..currSize] ==
        IF k = 0 THEN [bestIndex |-> -1, smallestDiff |-> SizeT - 1]
        ELSE LET i == currSize - k
             IN  IF /\ slots[i].size >= n
                    /\ (AsInt(slots[i].size) - n) % SizeT < after[k - 1].smallestDiff
                 THEN [bestIndex |-> i, smallestDiff |-> slots[i].size - n]
                 ELSE after[k - 1]
  IN  after[currSize].bestIndex

-----------------------------------------------------------------------------
(* Merging.                                                                *)

Swap(s, i, j) == [s EXCEPT ![i] = s[j], ![j] = s[i]]

Touching(a, b) == End(a) = b.offset \/ End(b) = a.offset

(* Mutants: only a block that ends where p starts is found; the loop stops *)
(* before index 0.                                                         *)
NeighboursBefore(s, p) == {i \in 0..(p - 1) : End(s[i]) = s[p].offset}

NeighboursNotFirst(s, p) == {i \in 1..(p - 1) : Touching(s[i], s[p])}

(* The slots below p whose block touches block p, in list s.               *)
Neighbours(s, p) == {i \in 0..(p - 1) : Touching(s[i], s[p])}

(* Mutant: the offset of the surviving slot is never moved.                *)
JoinedInPlace(a, b) == [offset |-> a.offset, size |-> a.size + b.size]

Joined(a, b) ==
  [offset |-> IF End(a) = b.offset THEN a.offset ELSE b.offset,
   size   |-> a.size + b.size]

(* Mutant: the absorbed block stays on the list.                           *)
FastMergeNoRemoval(s, n, p) ==
  /\ currSize' = n
  /\ slots' = IF Neighbours(s, p) = {} THEN s
              ELSE LET i == Max(Neighbours(s, p)) IN [s EXCEPT ![i] = Joined(s[i], s[p])]

(* FastMergeMemBlocks(p) on the list of the first n slots of s: block p is *)
(* joined to the neighbour that the downward loop meets first, and the     *)
(* last slot takes its place.                                              *)
FastMergeMemBlocks(s, n, p) ==
  \/ /\ Neighbours(s, p) = {}
     /\ slots' = s
     /\ currSize' = n
  \/ \E i \in Neighbours(s, p) :
       /\ \A j \in Neighbours(s, p) : j <= i
       /\ slots' = Swap([s EXCEPT ![i] = Joined(s[i], s[p])], p, n - 1)
       /\ currSize' = n - 1

(* Mutant: the last slot is thought to be left, one policy is forgotten.   *)
MergesAllLate(n) == MergePolicy = "FULL_MERGE_IF_NO_SPACE" /\ n > Slots

(* Free() merges everything once the list has n slots in use.              *)
MergesAll(n) ==
  \/ MergePolicy = "FULL_MERGE"
  \/ MergePolicy = "FULL_MERGE_IF_NO_SPACE" /\ n = Slots

-----------------------------------------------------------------------------
(* Calls.                                                                  *)

Running == status = "running" /\ merge = Idle

(* lock() returns at once, or never: nobody else is there to unlock.       *)
LockTaken == ThreadPolicy = "ENABLE_SPIN_LOCK" => ~locked

(* An early return skips unlock().                                         *)
LeaveLocked == locked' = (ThreadPolicy = "ENABLE_SPIN_LOCK")

(* assert(FALSE): the program aborts as `how`, unless asserts are off.     *)
AssertFails(how) == status' = IF NDEBUG THEN status ELSE how

(* Reset() as called by the client or by Init().                           *)
ResetList ==
  /\ used' = 0
  /\ slots' = [slots EXCEPT ![0] = [offset |-> 0, size |-> Usable]]
  /\ currSize' = 1
  /\ block' = [h \in Handles |-> NoBlock]
  /\ exactFit' = FALSE
  /\ coalesced' = TRUE
  /\ UNCHANGED <<status, locked, merge>>

(* Init(): the old buffer is freed and a new one requested; the result of  *)
(* malloc is not looked at.                                                *)
CallInit ==
  /\ Running
  /\ mapped' \in MallocResults
  /\ ResetList

Reset ==
  /\ Running
  /\ ResetList
  /\ UNCHANGED mapped

(* Allocate: no block found.                                               *)
AllocateRefused(h, size, alignment) ==
  /\ Running /\ LockTaken
  /\ block[h] = NoBlock
  /\ NothingFound(RequiredSize(size, alignment))
  /\ AssertFails("not enough memory")
  /\ LeaveLocked
  /\ UNCHANGED <<mapped, slots, currSize, used, merge, block, exactFit, coalesced>>

(* What a header reads after n was written as the header at offset.        *)
HeaderAfter(b, n, offset) ==
  CASE b.offset = offset -> n
    [] b.offset # offset /\ Overlap(Header(b), [offset |-> offset, size |-> HeaderSize])
       -> Clobbered
    [] OTHER -> b.header

(* The rest of Allocate, once freeMemBlock is chosen: the header is        *)
(* written at its start, over whatever the client holds there.             *)
HandOut(h, size, n, offset) ==
  /\ used' = (used + n) % SizeT
  /\ block' = [g \in Handles |->
       IF g = h THEN [offset |-> offset, size |-> n, request |-> size, header |-> n]
       ELSE IF block[g] = NoBlock THEN NoBlock
       ELSE [block[g] EXCEPT !.header = HeaderAfter(block[g], n, offset)]]
  /\ UNCHANGED <<status, mapped, locked, merge>>

DataAligned(offset, alignment) == (offset + HeaderSize) % alignment = 0

(* Allocate: block i is found, and nothing stops the call half-way.        *)
Found(h, size, alignment, i) ==
  /\ Running /\ LockTaken
  /\ block[h] = NoBlock
  /\ FindFreeMemBlockIndex(RequiredSize(size, alignment), i)

(* Allocate splits the block it found: restSize > 0.                       *)
AllocateSplit(h, size, alignment, i) ==
  LET n == RequiredSize(size, alignment)
      b == slots[i]
  IN  /\ Found(h, size, alignment, i)
      /\ mapped
      /\ NDEBUG \/ DataAligned(b.offset, alignment)
      /\ b.size > n
      /\ slots' = [slots EXCEPT
                     ![i] = [offset |-> b.offset + U32(n), size |-> U32(b.size - n)]]
      /\ HandOut(h, size, n, b.offset)
      /\ UNCHANGED <<currSize, exactFit, coalesced>>

(* Allocate takes a block whole: restSize = 0.  The code swaps the slot    *)
(* BEFORE the one it found with the slot AFTER the last one in use.        *)
AllocateExact(h, size, alignment, i) ==
  LET n == RequiredSize(size, alignment)
      b == slots[i]
  IN  /\ Found(h, size, alignment, i)
      /\ mapped
      /\ NDEBUG \/ DataAligned(b.offset, alignment)
      /\ b.size = n
      /\ i > 0
      /\ slots' = Swap(slots, i - 1, currSize)
      /\ currSize' = currSize - 1
      /\ exactFit' = TRUE
      /\ HandOut(h, size, n, b.offset)
      /\ UNCHANGED coalesced

(* Allocate runs into undefined behaviour: it indexes m_freeMemBlocks at   *)
(* -1, or writes a header at an offset from nullptr.                       *)
AllocateUndefined(h, size, alignment, i) ==
  /\ Found(h, size, alignment, i)
  /\ \/ i = 0 /\ slots[i].size = RequiredSize(size, alignment)
        /\ status' = "index -1"
     \/ ~mapped /\ status' = "null buffer"
  /\ UNCHANGED <<mapped, slots, currSize, used, locked, merge, block, exactFit, coalesced>>

(* Allocate stops at assert(resultPtr % alignment == 0).                   *)
AllocateMisaligned(h, size, alignment, i) ==
  /\ Found(h, size, alignment, i)
  /\ ~NDEBUG
  /\ ~DataAligned(slots[i].offset, alignment)
  /\ status' = "misaligned"
  /\ UNCHANGED <<mapped, slots, currSize, used, locked, merge, block, exactFit, coalesced>>

(* Free: the array is full, false is returned; the client keeps the block. *)
FreeRefused(h) ==
  /\ Running /\ LockTaken
  /\ block[h] # NoBlock
  /\ ShouldFullMerge
  /\ AssertFails("no free slot")
  /\ LeaveLocked
  /\ UNCHANGED <<mapped, slots, currSize, used, merge, block, exactFit, coalesced>>

(* Free reads a header that no longer holds what Allocate wrote.           *)
FreeUndefined(h) ==
  /\ Running /\ LockTaken
  /\ block[h] # NoBlock
  /\ ~ShouldFullMerge
  /\ block[h].header = Clobbered
  /\ status' = "bad header"
  /\ UNCHANGED <<mapped, slots, currSize, used, locked, merge, block, exactFit, coalesced>>

(* Mutant: the header is not given back.                                   *)
UsedWithoutPayload(n) == (used - (n - HeaderSize)) % SizeT

(* m_used -= n                                                             *)
UsedWithout(n) == (used - n) % SizeT

(* Free: the block goes to the end of the list, then the policy merges.    *)
Free(h) ==
  LET freed  == [offset |-> U32(block[h].offset), size |-> block[h].header]
      pushed == [slots EXCEPT ![currSize] = freed]
      count  == currSize + 1
  IN  /\ Running /\ LockTaken
      /\ block[h] # NoBlock
      /\ ~ShouldFullMerge
      /\ block[h].header # Clobbered
      /\ used' = UsedWithout(block[h].header)
      /\ block' = [block EXCEPT ![h] = NoBlock]
      /\ coalesced' = FALSE
      /\ \/ /\ MergePolicy = "FAST_MERGE"
            /\ FastMergeMemBlocks(pushed, count, currSize)
            /\ UNCHANGED merge
         \/ /\ MergePolicy # "FAST_MERGE"
            /\ slots' = pushed
            /\ currSize' = count
            /\ merge' = IF MergesAll(count) THEN currSize ELSE Idle
      /\ UNCHANGED <<status, mapped, locked, exactFit>>

(* Mutant: the loop starts one slot too far.                               *)
FullMergeFromEnd ==
  /\ Running
  /\ merge' = currSize
  /\ coalesced' = FALSE
  /\ UNCHANGED <<status, mapped, slots, currSize, used, locked, block, exactFit>>

(* The client calls FullMergeMemBlocks(), which takes no lock.             *)
FullMergeMemBlocks ==
  /\ Running
  /\ merge' = currSize - 1
  /\ coalesced' = (currSize = 0)
  /\ UNCHANGED <<status, mapped, slots, currSize, used, locked, block, exactFit>>

(* One iteration of FullMergeMemBlocks' loop.                              *)
MergeStep ==
  /\ status = "running"
  /\ merge # Idle
  /\ FastMergeMemBlocks(slots, currSize, merge)
  /\ merge' = merge - 1
  /\ coalesced' = (merge = 0)
  /\ UNCHANGED <<status, mapped, used, locked, block, exactFit>>

(* The client writes to the memory it was given at h.                      *)
ClientWrite(h) ==
  LET hit == {g \in Handles \ {h} : /\ block[g] # NoBlock
                                    /\ Overlap(Payload(block[h]), Header(block[g]))}
  IN  /\ Running
      /\ block[h] # NoBlock
      /\ hit # {}
      /\ block' = [g \in Handles |-> IF g \in hit THEN [block[g] EXCEPT !.header = Clobbered]
                                                  ELSE block[g]]
      /\ UNCHANGED <<status, mapped, slots, currSize, used, locked, merge, exactFit, coalesced>>

(* The program has stopped.                                                *)
Stopped == status # "running" /\ UNCHANGED vars

-----------------------------------------------------------------------------
Init ==
  /\ status = "running"
  /\ mapped = FALSE
  /\ slots = [i \in 0..(Slots - 1) |-> EmptySlot]
  /\ currSize = 0
  /\ used = 0
  /\ locked = FALSE
  /\ merge = Idle
  /\ block = [h \in Handles |-> NoBlock]
  /\ exactFit = FALSE
  /\ coalesced = TRUE

Allocate(h, size, alignment) ==
  \/ AllocateRefused(h, size, alignment)
  \/ \E i \in FreeIndices :
        \/ AllocateSplit(h, size, alignment, i)
        \/ AllocateExact(h, size, alignment, i)
        \/ AllocateUndefined(h, size, alignment, i)
        \/ AllocateMisaligned(h, size, alignment, i)

Next ==
  \/ CallInit
  \/ Reset
  \/ FullMergeMemBlocks
  \/ MergeStep
  \/ \E h \in Handles, size \in Sizes, alignment \in Alignments :
        Allocate(h, size, alignment)
  \/ \E h \in Handles : Free(h) \/ FreeRefused(h) \/ FreeUndefined(h) \/ ClientWrite(h)
  \/ Stopped

Spec == Init /\ [][Next]_vars

-----------------------------------------------------------------------------
(* Properties.  An exact fit (AllocateExact) breaks the list, so what      *)
(* follows promises something only until one happens; Reset and Init       *)
(* rebuild the list and with it the promises.                              *)

FlagsOK ==
  /\ mapped \in BOOLEAN
  /\ locked \in BOOLEAN
  /\ exactFit \in BOOLEAN
  /\ coalesced \in BOOLEAN

DataOK ==
  /\ status \in {"running", "not enough memory", "no free slot", "misaligned",
                 "index -1", "null buffer", "bad header"}
  /\ slots \in [0..(Slots - 1) -> MemBlock]
  /\ currSize \in 0..Slots
  /\ used \in Nat
  /\ merge \in Idle..(Slots - 1)
  /\ merge < currSize
  /\ block \in [Handles -> Held]

(* Every variable has its type, and FullMergeMemBlocks' loop index is one  *)
(* of a slot in use.                                                       *)
TypeOK == FlagsOK /\ DataOK

(* No byte is on the free list twice.                                      *)
FreeApart == \A i, j \in FreeIndices : i # j => ~Overlap(slots[i], slots[j])

(* No byte a client holds is on the free list: it cannot be handed out     *)
(* again before it is freed.                                               *)
FreeNotHeld == \A i \in FreeIndices, h \in Handles : ~Overlap(slots[i], block[h])

(* No two pointers the client holds share a byte, headers included.        *)
HeldApart == \A g, h \in Handles : g # h => ~Overlap(block[g], block[h])

(* Everything lies within the buffer.                                      *)
InBuffer ==
  /\ \A i \in FreeIndices : End(slots[i]) <= Usable
  /\ \A h \in Handles : End(block[h]) <= Usable

Contains(b, a) == b.offset <= a /\ a < End(b)

(* No byte is lost: each is free or held.                                  *)
NothingLost ==
  \A a \in 0..(Usable - 1) :
     \/ \E i \in FreeIndices : Contains(slots[i], a)
     \/ \E h \in Handles : Contains(block[h], a)

(* Allocate, Free and both merge functions keep the buffer partitioned     *)
(* into free and held blocks, at every iteration of the merge loop too.    *)
Partitioned ==
  ~exactFit /\ currSize > 0 =>
     FreeApart /\ FreeNotHeld /\ HeldApart /\ InBuffer /\ NothingLost

(* Free always reads the size Allocate wrote, whatever the clients write   *)
(* to their memory in between.                                             *)
HeadersIntact ==
  ~exactFit => \A h \in Handles : block[h].header = block[h].size

(* Two free blocks touch: FastMergeMemBlocks could join them.              *)
SomeTouch == \E i, j \in FreeIndices : i # j /\ Touching(slots[i], slots[j])

(* One pass of FullMergeMemBlocks' loop, from the last slot down, joins    *)
(* everything that can be joined, though the loop moves and removes slots  *)
(* as it goes; splitting blocks afterwards leaves nothing to join.         *)
OnePassMergesAll == ~exactFit /\ coalesced /\ merge = Idle => ~SomeTouch

IsFullyMerged ==
  currSize = 1 /\ slots[0].offset = 0 /\ slots[0].size = TotalSize

(* Once the client has freed all it held and called FullMergeMemBlocks,    *)
(* IsFullyMerged() returns true, as the test of the allocator expects.     *)
FullMergeRestoresBuffer ==
  (/\ ~exactFit /\ coalesced /\ merge = Idle /\ currSize > 0
   /\ \A h \in Handles : block[h] = NoBlock)
  => IsFullyMerged

(* The slot array never stays full between two calls, so Free is never     *)
(* refused, when it has more slots than the client has pointers and Free   *)
(* merges at the latest when the array fills up.                           *)
ArrayNeverFull == ~exactFit /\ merge = Idle => currSize < Slots

(* The search returns a smallest block that fits, although the cast to int *)
(* makes it pass over a wide one: two of those never fit into the buffer.  *)
SmallestFitChosen ==
  ~exactFit =>
    \A size \in Sizes, alignment \in Alignments, i, j \in FreeIndices :
       LET n == RequiredSize(size, alignment) IN
         FindFreeMemBlockIndex(n, i) /\ j \in Fitting(n)
           => slots[i].size <= slots[j].size

(* A block is large enough for its header and for what was asked for.      *)
GrantCoversRequest ==
  \A h \in Handles :
     block[h] # NoBlock => block[h].size >= HeaderSize + block[h].request

(* The search loop, with its mixture of int and size_t, its ties and its   *)
(* initial maximum, finds what FindFreeMemBlockIndex and NothingFound say. *)
SearchLoopAgrees ==
  \A size \in Sizes, alignment \in Alignments :
    LET n == RequiredSize(size, alignment)
        i == SearchLoop(n)
    IN  IF SearchGivesUp \/ i = -1 THEN NothingFound(n) ELSE FindFreeMemBlockIndex(n, i)

(* With every assert compiled in, one alignment and fewer pointers than    *)
(* slots, no assert but "Not enough memory" fails before an exact fit, and *)
(* no Free meets an overwritten header.                                    *)
AssertsHold ==
  ~exactFit => status \notin {"no free slot", "misaligned", "bad header"}

(* The test of the allocator expects the buffer back in one piece once     *)
(* everything was freed and merged (FreeListAllocatorTest.cpp:53-61).      *)
FullMergeTestPasses ==
  (/\ status = "running" /\ coalesced /\ merge = Idle /\ currSize > 0
   /\ \A h \in Handles : block[h] = NoBlock)
  => IsFullyMerged

(* The behaviours of the allocator up to its first exact fit.              *)
SpecNoExactFit == Init /\ [][Next /\ ~exactFit']_vars

(* Up to the first exact fit the allocator implements what the base class  *)
(* promises: extents come from free memory, used counts them.              *)
Interface == INSTANCE AllocatorInterface WITH
  Capacity <- Usable,
  extent   <- [h \in Handles |-> [offset |-> block[h].offset, size |-> block[h].size]]

ImplementsInterface == Interface!IfaceSpec
=============================================================================
