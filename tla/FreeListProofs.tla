--------------------------- MODULE FreeListProofs ---------------------------
(***************************************************************************)
(* FreeListAllocator.tla, for every buffer, array, policy and client:      *)
(*   - the types of the variables;                                         *)
(*   - the buffer stays partitioned into free and held blocks;             *)
(*   - one pass of FullMergeMemBlocks joins what can be joined;            *)
(*   - the slot array has room, blocks are aligned, asserts hold;          *)
(*   - the search loop does what FindFreeMemBlockIndex says;               *)
(*   - the allocator implements what the base class promises.              *)
(* All but the first until an exact fit of Allocate breaks the list.       *)
(***************************************************************************)
EXTENDS FreeListAllocator, FiniteSetTheorems, WellFoundedInduction, TLAPS

-----------------------------------------------------------------------------
(* Arithmetic, and the types of the variables.                            *)

LEMMA ModRange ==
  ASSUME NEW x \in Int, NEW m \in Nat \ {0}
  PROVE  x % m \in 0..(m - 1)
OBVIOUS

LEMMA ModNat ==
  ASSUME NEW x \in Int, NEW m \in Nat \ {0}
  PROVE  x % m \in Nat
BY ModRange

LEMMA Sizings == Slots \in Nat \ {0} /\ SizeT \in Nat \ {0} /\ Uint32 \in Nat \ {0}
BY ConstantsAssumption

LEMMA ModSmall ==
  ASSUME NEW m \in Nat \ {0}, NEW x \in 0..(m - 1)
  PROVE  x % m = x
OBVIOUS

LEMMA RequiredSizeType ==
  ASSUME NEW size \in Sizes, NEW alignment \in Alignments
  PROVE  /\ RequiredSize(size, alignment) \in Nat
         /\ RequiredSize(size, alignment) > HeaderSize
<1>1. U32(size) \in Nat
  BY ConstantsAssumption, ModRange DEF U32
<1>2. (HeaderSize + size) % alignment \in 0..(alignment - 1)
  <2>1. HeaderSize + size \in Int /\ alignment \in Nat \ {0}
    BY ConstantsAssumption
  <2> QED
    BY <2>1, ModRange
<1>3. Padding(size, alignment) \in Nat \ {0}
  BY <1>2, ConstantsAssumption DEF Padding
<1> QED
  BY <1>1, <1>3, ConstantsAssumption DEF RequiredSize

SlotArray == [0..(Slots - 1) -> MemBlock]

LEMMA JoinedType ==
  ASSUME NEW a \in MemBlock, NEW b \in MemBlock
  PROVE  Joined(a, b) \in MemBlock
BY DEF Joined, MemBlock

LEMMA SwapType ==
  ASSUME NEW s \in SlotArray, NEW i \in 0..(Slots - 1), NEW j \in 0..(Slots - 1)
  PROVE  Swap(s, i, j) \in SlotArray
BY DEF Swap, SlotArray

LEMMA FastMergeType ==
  ASSUME NEW s \in SlotArray, NEW n \in 1..Slots, NEW p \in 0..(n - 1),
         FastMergeMemBlocks(s, n, p)
  PROVE  /\ slots' \in SlotArray
         /\ currSize' \in 1..Slots
         /\ currSize' >= p
<1>1. CASE Neighbours(s, p) = {}
  BY <1>1 DEF FastMergeMemBlocks
<1>2. CASE Neighbours(s, p) # {}
  <2>1. PICK i \in Neighbours(s, p) :
          /\ slots' = Swap([s EXCEPT ![i] = Joined(s[i], s[p])], p, n - 1)
          /\ currSize' = n - 1
    BY <1>2 DEF FastMergeMemBlocks
  <2>2. /\ i \in 0..(p - 1)
        /\ i \in 0..(Slots - 1) /\ p \in 0..(Slots - 1) /\ n - 1 \in 0..(Slots - 1)
    BY ConstantsAssumption DEF Neighbours
  <2>3. Joined(s[i], s[p]) \in MemBlock
    BY <2>2, JoinedType DEF SlotArray
  <2>4. [s EXCEPT ![i] = Joined(s[i], s[p])] \in SlotArray
    BY <2>2, <2>3 DEF SlotArray
  <2>5. slots' \in SlotArray
    BY <2>1, <2>2, <2>4, SwapType
  <2> QED
    BY <2>1, <2>2, <2>5, ConstantsAssumption
<1> QED
  BY <1>1, <1>2

-----------------------------------------------------------------------------
(* Type correctness.                                                       *)

LEMMA SizesTyped ==
  ASSUME DataOK
  PROVE  /\ slots \in SlotArray
         /\ currSize \in 0..Slots
         /\ used \in Nat
         /\ block \in [Handles -> Held]
BY DEF DataOK, SlotArray

(* A slot in use is a slot of the array.                                   *)
LEMMA SlotInUse ==
  ASSUME DataOK, NEW i \in FreeIndices
  PROVE  i \in 0..(Slots - 1) /\ i < currSize /\ slots[i] \in MemBlock
<1>1. i \in 0..(Slots - 1) /\ i < currSize
  BY SizesTyped, Sizings DEF FreeIndices
<1> QED
  BY <1>1, SizesTyped DEF SlotArray

LEMMA EmptyTypes == NoBlock \in Held /\ EmptySlot \in MemBlock
BY DEF NoBlock, Held, EmptySlot, MemBlock

LEMMA InitData == Init => DataOK
BY ConstantsAssumption, EmptyTypes DEF Init, DataOK, Idle

LEMMA FlagsStep == FlagsOK /\ [Next]_vars => FlagsOK'
<1> SUFFICES ASSUME FlagsOK, [Next]_vars PROVE FlagsOK'
  OBVIOUS
<1>1. CASE CallInit
  BY <1>1, ConstantsAssumption, Zenon DEF FlagsOK, CallInit, ResetList
<1>2. CASE Reset
  BY <1>2, Zenon DEF FlagsOK, Reset, ResetList
<1>3. CASE FullMergeMemBlocks
  BY <1>3, Zenon DEF FlagsOK, FullMergeMemBlocks
<1>4. CASE MergeStep
  BY <1>4, Zenon DEF FlagsOK, MergeStep
<1>5. ASSUME NEW h \in Handles, NEW size \in Sizes, NEW alignment \in Alignments,
             Allocate(h, size, alignment)
      PROVE  FlagsOK'
  BY <1>5, Zenon DEF FlagsOK, Allocate, AllocateRefused, AllocateSplit, AllocateExact,
             AllocateUndefined, AllocateMisaligned, HandOut, LeaveLocked
<1>6. ASSUME NEW h \in Handles,
             Free(h) \/ FreeRefused(h) \/ FreeUndefined(h) \/ ClientWrite(h)
      PROVE  FlagsOK'
  BY <1>6, Zenon DEF FlagsOK, Free, FreeRefused, FreeUndefined, ClientWrite, LeaveLocked
<1>7. CASE Stopped \/ UNCHANGED vars
  BY <1>7, Zenon DEF FlagsOK, Stopped, vars
<1> QED
  BY <1>1, <1>2, <1>3, <1>4, <1>5, <1>6, <1>7 DEF Next

LEMMA ResetListData ==
  ASSUME DataOK, Running, ResetList
  PROVE  DataOK'
<1>1. Usable \in Nat
  BY ConstantsAssumption, ModRange DEF Usable, U32
<1>2. slots' \in [0..(Slots - 1) -> MemBlock]
  <2>1. [offset |-> 0, size |-> Usable] \in MemBlock
    BY <1>1 DEF MemBlock
  <2> QED
    BY <2>1 DEF ResetList, DataOK
<1>3. block' \in [Handles -> Held]
  BY EmptyTypes DEF ResetList
<1> QED
  BY <1>2, <1>3, ConstantsAssumption DEF ResetList, DataOK, Running, Idle

LEMMA HandOutData ==
  ASSUME DataOK, NEW h \in Handles, NEW size \in Sizes, NEW n \in Nat,
         NEW offset \in Nat, HandOut(h, size, n, offset)
  PROVE  used' \in Nat /\ block' \in [Handles -> Held]
<1>1. used' \in Nat
  <2>1. used + n \in Int /\ SizeT \in Nat \ {0}
    BY SizesTyped, Sizings
  <2>2. (used + n) % SizeT \in Nat
    BY <2>1, ModNat
  <2>3. used' = (used + n) % SizeT
    BY DEF HandOut
  <2> QED
    BY <2>1, <2>2, <2>3
<1>2. size \in Nat
  BY ConstantsAssumption
<1>3. ASSUME NEW g \in Handles
      PROVE  [block[g] EXCEPT !.header = HeaderAfter(block[g], n, offset)] \in Held
  <2>1. block[g] \in Held
    BY DEF DataOK
  <2>2. HeaderAfter(block[g], n, offset) \in Nat
    <3>1. HeaderAfter(block[g], n, offset) \in {n, Clobbered, block[g].header}
      BY Zenon DEF HeaderAfter
    <3> QED
      BY <2>1, <3>1 DEF Held, Clobbered
  <2> QED
    BY <2>1, <2>2 DEF Held
<1>4. [offset |-> offset, size |-> n, request |-> size, header |-> n] \in Held
  BY <1>2 DEF Held
<1> QED
  BY <1>1, <1>3, <1>4, EmptyTypes DEF HandOut

LEMMA AllocateData ==
  ASSUME DataOK, NEW h \in Handles, NEW size \in Sizes, NEW alignment \in Alignments,
         Allocate(h, size, alignment)
  PROVE  DataOK'
<1> DEFINE n == RequiredSize(size, alignment)
<1>1. n \in Nat
  BY RequiredSizeType
<1>2. CASE AllocateRefused(h, size, alignment)
  BY <1>2 DEF AllocateRefused, AssertFails, DataOK
<1>3. ASSUME NEW i \in FreeIndices, AllocateSplit(h, size, alignment, i)
      PROVE  DataOK'
  <2>1. i \in 0..(Slots - 1) /\ i < currSize /\ slots[i] \in MemBlock
    BY SlotInUse
  <2>2. HandOut(h, size, n, slots[i].offset)
        /\ slots' = [slots EXCEPT
                 ![i] = [offset |-> slots[i].offset + U32(n), size |-> U32(slots[i].size - n)]]
        /\ currSize' = currSize
    BY <1>3 DEF AllocateSplit
  <2>3. U32(n) \in Nat /\ U32(slots[i].size - n) \in Nat
    <3>1. n \in Int /\ slots[i].size - n \in Int
      BY <1>1, <2>1 DEF MemBlock
    <3> QED
      BY <3>1, ModNat, Sizings DEF U32
  <2>4. slots' \in [0..(Slots - 1) -> MemBlock]
    <3>1. [offset |-> slots[i].offset + U32(n), size |-> U32(slots[i].size - n)] \in MemBlock
      BY <2>1, <2>3 DEF MemBlock
    <3> QED
      BY <2>1, <2>2, <3>1 DEF DataOK
  <2>5. used' \in Nat /\ block' \in [Handles -> Held]
    BY <1>1, <2>1, <2>2, HandOutData DEF MemBlock
  <2>6. UNCHANGED <<status, merge>>
    BY <2>2 DEF HandOut
  <2> QED
    BY <2>2, <2>4, <2>5, <2>6 DEF DataOK
<1>4. ASSUME NEW i \in FreeIndices, AllocateExact(h, size, alignment, i)
      PROVE  DataOK'
  <2>1. i \in 0..(Slots - 1) /\ i < currSize /\ slots[i] \in MemBlock
    BY SlotInUse
  <2>2. /\ HandOut(h, size, n, slots[i].offset)
        /\ slots' = Swap(slots, i - 1, currSize)
        /\ currSize' = currSize - 1
        /\ i > 0
        /\ ~ShouldFullMerge
        /\ merge = Idle
    BY <1>4 DEF AllocateExact, Found, FindFreeMemBlockIndex, SearchGivesUp, Running
  <2>3. i - 1 \in 0..(Slots - 1) /\ currSize \in 1..(Slots - 1)
    BY <2>1, <2>2, SizesTyped, Sizings DEF ShouldFullMerge
  <2>4. slots' \in [0..(Slots - 1) -> MemBlock]
    <3>1. currSize \in 0..(Slots - 1)
      BY <2>3
    <3> QED
      BY <2>2, <2>3, <3>1, SwapType DEF DataOK, SlotArray
  <2>5. used' \in Nat /\ block' \in [Handles -> Held]
    BY <1>1, <2>1, <2>2, HandOutData DEF MemBlock
  <2>6. UNCHANGED <<status, merge>>
    BY <2>2 DEF HandOut
  <2>7. currSize' \in 0..Slots /\ merge' < currSize'
    BY <2>2, <2>3, <2>6, ConstantsAssumption DEF Idle
  <2> QED
    BY <2>4, <2>5, <2>6, <2>7 DEF DataOK
<1>5. ASSUME NEW i \in FreeIndices,
             \/ AllocateUndefined(h, size, alignment, i)
             \/ AllocateMisaligned(h, size, alignment, i)
      PROVE  DataOK'
  BY <1>5 DEF AllocateUndefined, AllocateMisaligned, DataOK
<1> QED
  BY <1>2, <1>3, <1>4, <1>5 DEF Allocate

LEMMA FreeData ==
  ASSUME DataOK, NEW h \in Handles, Free(h)
  PROVE  DataOK'
<1> DEFINE freed  == [offset |-> U32(block[h].offset), size |-> block[h].header]
           pushed == [slots EXCEPT ![currSize] = freed]
<1>1. block[h] \in Held /\ currSize \in 0..(Slots - 1)
  <2>1. currSize # Slots
    BY DEF Free, ShouldFullMerge
  <2> QED
    BY <2>1, SizesTyped, Sizings
<1>2. freed \in MemBlock
  <2>1. block[h].offset \in Int /\ block[h].header \in Nat
    BY <1>1 DEF Held
  <2>2. U32(block[h].offset) \in Nat
    BY <2>1, ModRange, ConstantsAssumption DEF U32
  <2> QED
    BY <2>1, <2>2 DEF MemBlock
<1>3. pushed \in SlotArray
  BY <1>1, <1>2, SizesTyped DEF SlotArray
<1>4. used' \in Nat
  <2>1. used - block[h].header \in Int /\ SizeT \in Nat \ {0}
    BY <1>1, SizesTyped, Sizings DEF Held
  <2>2. (used - block[h].header) % SizeT \in Nat
    BY <2>1, ModNat
  <2>3. used' = (used - block[h].header) % SizeT
    BY DEF Free, UsedWithout
  <2> QED
    BY <2>1, <2>2, <2>3
<1>5. block' \in [Handles -> Held]
  BY EmptyTypes, SizesTyped DEF Free
<1>6. CASE MergePolicy = "FAST_MERGE"
  <2>1. FastMergeMemBlocks(pushed, currSize + 1, currSize) /\ UNCHANGED <<status, merge>>
    BY <1>6 DEF Free
  <2>2. currSize + 1 \in 1..Slots /\ currSize \in 0..((currSize + 1) - 1)
    BY <1>1, ConstantsAssumption
  <2>3. slots' \in SlotArray /\ currSize' \in 1..Slots /\ currSize' >= currSize
    BY <1>3, <2>1, <2>2, FastMergeType
  <2>4. merge < currSize'
    <3>1. merge = Idle
      BY DEF Free, Running
    <3> QED
      BY <1>1, <2>3, <3>1 DEF Idle
  <2> QED
    <3>1. currSize' \in 0..Slots
      BY <2>3, Sizings
    <3> QED
      BY <1>4, <1>5, <2>1, <2>3, <2>4, <3>1 DEF DataOK, SlotArray
<1>7. CASE MergePolicy # "FAST_MERGE"
  <2>1. /\ slots' = pushed
        /\ currSize' = currSize + 1
        /\ merge' = (IF MergesAll(currSize + 1) THEN currSize ELSE Idle)
        /\ status' = status
    BY <1>7 DEF Free
  <2>2. merge' \in Idle..(Slots - 1) /\ merge' < currSize' /\ currSize' \in 0..Slots
    BY <1>1, <2>1, ConstantsAssumption DEF Idle
  <2> QED
    BY <1>3, <1>4, <1>5, <2>1, <2>2 DEF DataOK, SlotArray
<1> QED
  BY <1>6, <1>7

LEMMA MergeStepData ==
  ASSUME DataOK, MergeStep
  PROVE  DataOK'
<1>1. merge \in 0..(currSize - 1) /\ currSize \in 1..Slots
  BY DEF DataOK, MergeStep, Idle
<1>2. slots' \in SlotArray /\ currSize' \in 1..Slots /\ currSize' >= merge
  BY <1>1, FastMergeType DEF DataOK, MergeStep, SlotArray
<1>3. merge' = merge - 1 /\ UNCHANGED <<status, used, block>>
  BY DEF MergeStep
<1>4. merge' \in Idle..(Slots - 1) /\ merge' < currSize' /\ currSize' \in 0..Slots
  BY <1>1, <1>2, <1>3, Sizings DEF Idle
<1> QED
  BY <1>2, <1>3, <1>4 DEF DataOK, SlotArray

LEMMA ClientWriteData ==
  ASSUME DataOK, NEW h \in Handles, ClientWrite(h)
  PROVE  DataOK'
<1>1. \A g \in Handles : [block[g] EXCEPT !.header = Clobbered] \in Held
  BY DEF DataOK, Held, Clobbered
<1>2. block' \in [Handles -> Held]
  BY <1>1 DEF DataOK, ClientWrite
<1> QED
  BY <1>2 DEF DataOK, ClientWrite

LEMMA DataStep == DataOK /\ [Next]_vars => DataOK'
<1> SUFFICES ASSUME DataOK, [Next]_vars PROVE DataOK'
  OBVIOUS
<1>1. CASE CallInit \/ Reset
  BY <1>1, ResetListData DEF CallInit, Reset
<1>2. CASE FullMergeMemBlocks
  <2>1. merge' = currSize - 1 /\ UNCHANGED <<status, slots, currSize, used, block>>
    BY <1>2 DEF FullMergeMemBlocks
  <2>2. currSize \in 0..Slots
    BY DEF DataOK
  <2>3. merge' \in Idle..(Slots - 1) /\ merge' < currSize'
    BY <2>1, <2>2, Sizings DEF Idle
  <2> QED
    BY <2>1, <2>3 DEF DataOK
<1>3. CASE MergeStep
  BY <1>3, MergeStepData
<1>4. ASSUME NEW h \in Handles, NEW size \in Sizes, NEW alignment \in Alignments,
             Allocate(h, size, alignment)
      PROVE  DataOK'
  BY <1>4, AllocateData
<1>5. ASSUME NEW h \in Handles, Free(h) \/ ClientWrite(h)
      PROVE  DataOK'
  BY <1>5, FreeData, ClientWriteData
<1>6. ASSUME NEW h \in Handles, FreeRefused(h) \/ FreeUndefined(h)
      PROVE  DataOK'
  BY <1>6 DEF FreeRefused, FreeUndefined, AssertFails, DataOK
<1>7. CASE Stopped \/ UNCHANGED vars
  BY <1>7 DEF Stopped, vars, DataOK
<1> QED
  BY <1>1, <1>2, <1>3, <1>4, <1>5, <1>6, <1>7 DEF Next

(* The allocator's variables always have their types, whatever the client  *)
(* calls and in whatever order: in particular m_currSize never exceeds the *)
(* array, and the merge loop's index never leaves the list.                *)
THEOREM TypeCorrect == Spec => []TypeOK
<1>1. Init => TypeOK
  <2>1. Init => FlagsOK
    BY Zenon DEF Init, FlagsOK
  <2> QED
    BY <2>1, InitData DEF TypeOK
<1>2. TypeOK /\ [Next]_vars => TypeOK'
  BY FlagsStep, DataStep DEF TypeOK
<1> QED
  BY <1>1, <1>2, PTL DEF Spec

-----------------------------------------------------------------------------
(* Geometry of one block.                                                  *)

(* Only the bytes of a block matter below, not its request or header.      *)
Region(b) == b.offset \in Nat /\ b.size \in Nat

LEMMA RegionTypes ==
  ASSUME NEW b, b \in MemBlock \/ b \in Held
  PROVE  Region(b)
BY DEF MemBlock, Held, Region

LEMMA OverlapSymmetric ==
  ASSUME NEW a, NEW b, Overlap(a, b)
  PROVE  Overlap(b, a)
BY DEF Overlap

(* Two touching blocks joined cover the bytes of both and no other.        *)
LEMMA JoinedCovers ==
  ASSUME NEW a, NEW b, Region(a), Region(b), Touching(a, b)
  PROVE  /\ \A c : Region(c) => (Overlap(Joined(a, b), c) <=> Overlap(a, c) \/ Overlap(b, c))
         /\ \A x \in Nat : Contains(Joined(a, b), x) <=> Contains(a, x) \/ Contains(b, x)
         /\ \A m \in Nat : End(a) <= m /\ End(b) <= m => End(Joined(a, b)) <= m
         /\ Region(Joined(a, b))
BY DEF Region, Touching, Joined, Overlap, Contains, End

(* A block cut in two: the parts cover its bytes and are apart.            *)
LEMMA SplitCovers ==
  ASSUME NEW b, Region(b), NEW n \in Nat, n < b.size,
         NEW head, head.offset = b.offset, head.size = n,
         NEW rest, rest.offset = b.offset + n, rest.size = b.size - n
  PROVE  /\ Region(head) /\ Region(rest)
         /\ ~Overlap(head, rest)
         /\ \A c : Region(c) => (Overlap(head, c) => Overlap(b, c))
         /\ \A c : Region(c) => (Overlap(rest, c) => Overlap(b, c))
         /\ \A x \in Nat : Contains(b, x) => Contains(head, x) \/ Contains(rest, x)
         /\ \A m \in Nat : End(b) <= m => End(head) <= m /\ End(rest) <= m
BY DEF Region, Overlap, Contains, End

-----------------------------------------------------------------------------
(* Merging on a list of n slots.                                           *)

(* Where the block in slot i comes from after block p was absorbed.        *)
Source(i, p, n) == IF i = p THEN n - 1 ELSE i

LEMMA MergeShape ==
  ASSUME NEW s \in SlotArray, NEW n \in 1..Slots, NEW p \in 0..(n - 1),
         FastMergeMemBlocks(s, n, p)
  PROVE  \/ slots' = s /\ currSize' = n
         \/ \E k \in 0..(p - 1) :
              /\ Touching(s[k], s[p])
              /\ currSize' = n - 1
              /\ slots'[k] = Joined(s[k], s[p])
              /\ \A i \in 0..(n - 2) \ {k} : slots'[i] = s[Source(i, p, n)]
<1>1. CASE Neighbours(s, p) = {}
  BY <1>1 DEF FastMergeMemBlocks
<1>2. CASE Neighbours(s, p) # {}
  <2>1. PICK k \in Neighbours(s, p) :
          /\ slots' = Swap([s EXCEPT ![k] = Joined(s[k], s[p])], p, n - 1)
          /\ currSize' = n - 1
    BY <1>2 DEF FastMergeMemBlocks
  <2>2. /\ k \in 0..(p - 1) /\ k # p /\ k # n - 1
        /\ Touching(s[k], s[p])
    BY Sizings DEF Neighbours
  <2>3. /\ k \in 0..(Slots - 1) /\ p \in 0..(Slots - 1) /\ n - 1 \in 0..(Slots - 1)
        /\ \A i \in 0..(n - 2) : i \in 0..(Slots - 1) /\ i # n - 1
    BY <2>2, Sizings
  <2> DEFINE t == [s EXCEPT ![k] = Joined(s[k], s[p])]
  <2>4. t[k] = Joined(s[k], s[p]) /\ \A i \in 0..(Slots - 1) \ {k} : t[i] = s[i]
    BY <2>3 DEF SlotArray
  <2>5. DOMAIN t = 0..(Slots - 1)
    BY DEF SlotArray
  <2> HIDE DEF t
  <2>6. /\ \A i \in 0..(Slots - 1) \ {p, n - 1} : Swap(t, p, n - 1)[i] = t[i]
        /\ p # n - 1 => Swap(t, p, n - 1)[p] = t[n - 1]
    BY <2>3, <2>5 DEF Swap
  <2>7. slots' = Swap(t, p, n - 1)
    BY <2>1 DEF t
  <2>8. slots'[k] = Joined(s[k], s[p])
    BY <2>2, <2>3, <2>4, <2>6, <2>7
  <2>9. ASSUME NEW i \in 0..(n - 2) \ {k} PROVE slots'[i] = s[Source(i, p, n)]
    <3>1. CASE i = p
      BY <2>2, <2>3, <2>4, <2>6, <2>7, <3>1 DEF Source
    <3>2. CASE i # p
      BY <2>2, <2>3, <2>4, <2>6, <2>7, <3>2 DEF Source
    <3> QED
      BY <3>1, <3>2
  <2> QED
    BY <2>1, <2>2, <2>8, <2>9
<1> QED
  BY <1>1, <1>2

LEMMA SourceRange ==
  ASSUME NEW n \in 1..Slots, NEW p \in 0..(n - 1), NEW k \in 0..(p - 1),
         NEW i \in 0..(n - 2) \ {k}
  PROVE  /\ Source(i, p, n) \in 0..(n - 1) \ {k, p}
         /\ \A j \in 0..(n - 2) \ {k, i} : Source(i, p, n) # Source(j, p, n)
BY Sizings DEF Source

ListApart(s, n) == \A i, j \in 0..(n - 1) : i # j => ~Overlap(s[i], s[j])

(* Every byte on the list before is on it after, and the other way round,  *)
(* and it stays on it once.                                                *)
LEMMA MergeKeepsBytes ==
  ASSUME NEW s \in SlotArray, NEW n \in 1..Slots, NEW p \in 0..(n - 1),
         FastMergeMemBlocks(s, n, p)
  PROVE  /\ \A c : Region(c) /\ (\A i \in 0..(n - 1) : ~Overlap(s[i], c))
                => \A i \in FreeIndices' : ~Overlap(slots'[i], c)
         /\ \A m \in Nat : (\A i \in 0..(n - 1) : End(s[i]) <= m)
                => \A i \in FreeIndices' : End(slots'[i]) <= m
         /\ \A x \in Nat : (\E i \in 0..(n - 1) : Contains(s[i], x))
                => \E i \in FreeIndices' : Contains(slots'[i], x)
         /\ ListApart(s, n) => ListApart(slots', currSize')
<1>1. CASE slots' = s /\ currSize' = n
  BY <1>1 DEF FreeIndices
<1>2. ASSUME NEW k \in 0..(p - 1),
             Touching(s[k], s[p]),
             currSize' = n - 1,
             slots'[k] = Joined(s[k], s[p]),
             \A i \in 0..(n - 2) \ {k} : slots'[i] = s[Source(i, p, n)]
      PROVE  /\ \A c : Region(c) /\ (\A i \in 0..(n - 1) : ~Overlap(s[i], c))
                    => \A i \in FreeIndices' : ~Overlap(slots'[i], c)
             /\ \A m \in Nat : (\A i \in 0..(n - 1) : End(s[i]) <= m)
                    => \A i \in FreeIndices' : End(slots'[i]) <= m
             /\ \A x \in Nat : (\E i \in 0..(n - 1) : Contains(s[i], x))
                    => \E i \in FreeIndices' : Contains(slots'[i], x)
             /\ ListApart(s, n) => ListApart(slots', currSize')
  <2>1. /\ k \in 0..(n - 1) /\ p \in 0..(n - 1) /\ k # p /\ k \in 0..(n - 2)
        /\ FreeIndices' = 0..(n - 2)
    BY <1>2, Sizings DEF FreeIndices
  <2>2. \A i \in 0..(n - 1) : Region(s[i])
    <3>1. \A i \in 0..(n - 1) : i \in 0..(Slots - 1)
      BY Sizings
    <3> QED
      BY <3>1, RegionTypes DEF SlotArray
  <2>3. Region(s[k]) /\ Region(s[p])
    BY <2>1, <2>2
  <2>4. ASSUME NEW i \in 0..(n - 2) \ {k}
        PROVE  /\ Source(i, p, n) \in 0..(n - 1) /\ Source(i, p, n) # k /\ Source(i, p, n) # p
               /\ slots'[i] = s[Source(i, p, n)]
    BY <1>2, SourceRange
  <2>5. ASSUME NEW c, Region(c), \A i \in 0..(n - 1) : ~Overlap(s[i], c),
               NEW i \in 0..(n - 2)
        PROVE  ~Overlap(slots'[i], c)
    <3>1. CASE i = k
      BY <1>2, <2>1, <2>3, <2>5, <3>1, JoinedCovers
    <3>2. CASE i # k
      BY <2>4, <2>5, <3>2
    <3> QED
      BY <3>1, <3>2
  <2>6. ASSUME NEW m \in Nat, \A i \in 0..(n - 1) : End(s[i]) <= m, NEW i \in 0..(n - 2)
        PROVE  End(slots'[i]) <= m
    <3>1. CASE i = k
      BY <1>2, <2>1, <2>3, <2>6, <3>1, JoinedCovers
    <3>2. CASE i # k
      BY <2>4, <2>6, <3>2
    <3> QED
      BY <3>1, <3>2
  <2>7. ASSUME NEW x \in Nat, NEW j \in 0..(n - 1), Contains(s[j], x)
        PROVE  \E i \in 0..(n - 2) : Contains(slots'[i], x)
    <3>1. CASE j = k \/ j = p
      <4>1. Contains(slots'[k], x)
        BY <1>2, <2>3, <2>7, <3>1, JoinedCovers
      <4> QED
        BY <2>1, <4>1
    <3>2. CASE j # k /\ j # p /\ j = n - 1
      <4>1. p \in 0..(n - 2) \ {k} /\ Source(p, p, n) = j
        BY <2>1, <3>2, Sizings DEF Source
      <4> QED
        BY <2>4, <2>7, <4>1
    <3>3. CASE j # k /\ j # p /\ j # n - 1
      <4>1. j \in 0..(n - 2) \ {k} /\ Source(j, p, n) = j
        BY <3>3, Sizings DEF Source
      <4> QED
        BY <2>4, <2>7, <4>1
    <3> QED
      BY <3>1, <3>2, <3>3
  <2>8. ASSUME ListApart(s, n), NEW i \in 0..(n - 2), NEW j \in 0..(n - 2), i # j
        PROVE  ~Overlap(slots'[i], slots'[j])
    <3>1. CASE i # k /\ j # k
      <4>1. Source(i, p, n) # Source(j, p, n)
        BY <2>8, <3>1, SourceRange
      <4> QED
        BY <2>4, <2>8, <3>1, <4>1 DEF ListApart
    <3>2. CASE i = k
      <4>1. /\ ~Overlap(s[k], slots'[j]) /\ ~Overlap(s[p], slots'[j])
            /\ Region(slots'[j])
        BY <2>1, <2>2, <2>4, <2>8, <3>2 DEF ListApart
      <4> QED
        BY <1>2, <2>3, <3>2, <4>1, JoinedCovers
    <3>3. CASE j = k
      <4>1. /\ ~Overlap(s[k], slots'[i]) /\ ~Overlap(s[p], slots'[i])
            /\ Region(slots'[i])
        BY <2>1, <2>2, <2>4, <2>8, <3>3 DEF ListApart
      <4>2. ~Overlap(slots'[k], slots'[i])
        BY <1>2, <2>3, <4>1, JoinedCovers
      <4> QED
        BY <3>3, <4>2, OverlapSymmetric
    <3> QED
      BY <3>1, <3>2, <3>3
  <2>9. ListApart(s, n) => ListApart(slots', currSize')
    <3>1. currSize' - 1 = n - 2
      BY <1>2, Sizings
    <3> QED
      BY <2>8, <3>1 DEF ListApart
  <2> QED
    BY <2>1, <2>5, <2>6, <2>7, <2>9
<1> QED
  BY <1>1, <1>2, MergeShape

-----------------------------------------------------------------------------
(* The inductive invariant.                                                *)

(* The n first slots of s and the blocks in held share out the buffer.     *)
SharesBuffer(s, n, held) ==
  /\ ListApart(s, n)
  /\ \A i \in 0..(n - 1), g \in Handles : ~Overlap(s[i], held[g])
  /\ \A i \in 0..(n - 1) : End(s[i]) <= Usable
  /\ \A x \in 0..(Usable - 1) :
        (\E i \in 0..(n - 1) : Contains(s[i], x)) \/ \E g \in Handles : Contains(held[g], x)

(* A block is larger than its header and the header holds its size.        *)
WellHeld ==
  /\ \A h \in Handles : block[h] = NoBlock \/ block[h].size > HeaderSize
  /\ \A h \in Handles : block[h].header = block[h].size
  /\ \A h \in Handles : End(block[h]) <= Usable
  /\ HeldApart

(* The list is only empty before the first Init or Reset.                  *)
Shape ==
  /\ WellHeld
  /\ currSize = 0 => \A h \in Handles : block[h] = NoBlock
  /\ currSize > 0 => SharesBuffer(slots, currSize, block)

ShapeOK == ~exactFit => Shape

LEMMA UsableRange == Usable \in 0..(Uint32 - 1)
BY Sizings, ConstantsAssumption, ModRange DEF Usable, U32

LEMMA U32Small ==
  ASSUME NEW x \in Nat, x <= Usable
  PROVE  U32(x) = x
BY Sizings, UsableRange, ModSmall DEF U32

LEMMA NoBlockEmpty ==
  /\ Region(NoBlock) /\ End(NoBlock) = 0
  /\ \A a : ~Overlap(a, NoBlock) /\ ~Overlap(NoBlock, a)
  /\ \A x \in Nat : ~Contains(NoBlock, x)
BY DEF Region, NoBlock, End, Overlap, Contains

LEMMA MergeShares ==
  ASSUME NEW s \in SlotArray, NEW n \in 1..Slots, NEW p \in 0..(n - 1),
         NEW held, \A g \in Handles : Region(held[g]),
         FastMergeMemBlocks(s, n, p), SharesBuffer(s, n, held)
  PROVE  SharesBuffer(slots', currSize', held)
<1>1. FreeIndices' = 0..(currSize' - 1)
  BY DEF FreeIndices
<1>2. ListApart(slots', currSize')
  BY MergeKeepsBytes DEF SharesBuffer
<1>3. ASSUME NEW i \in 0..(currSize' - 1), NEW g \in Handles
      PROVE  ~Overlap(slots'[i], held[g])
  BY <1>1, MergeKeepsBytes DEF SharesBuffer
<1>4. ASSUME NEW i \in 0..(currSize' - 1)
      PROVE  End(slots'[i]) <= Usable
  <2>1. Usable \in Nat
    BY UsableRange
  <2> QED
    BY <1>1, <2>1, MergeKeepsBytes DEF SharesBuffer
<1>5. ASSUME NEW x \in 0..(Usable - 1), \A g \in Handles : ~Contains(held[g], x)
      PROVE  \E i \in 0..(currSize' - 1) : Contains(slots'[i], x)
  <2>1. x \in Nat /\ \E i \in 0..(n - 1) : Contains(s[i], x)
    BY <1>5, UsableRange DEF SharesBuffer
  <2> QED
    BY <1>1, <2>1, MergeKeepsBytes
<1>6. Usable' = Usable
  BY DEF Usable, U32
<1> QED
  BY <1>2, <1>3, <1>4, <1>5 DEF SharesBuffer

LEMMA ResetListShape ==
  ASSUME DataOK, ResetList
  PROVE  Shape'
<1> DEFINE whole == [offset |-> 0, size |-> Usable]
<1>1. /\ block' = [h \in Handles |-> NoBlock]
      /\ slots'[0] = whole
      /\ currSize' = 1
  <2>1. 0 \in 0..(Slots - 1)
    BY Sizings
  <2> QED
    BY <2>1, SizesTyped DEF ResetList, SlotArray
<1>2. WellHeld'
  BY <1>1, NoBlockEmpty, UsableRange DEF WellHeld, HeldApart, NoBlock
<1>3. \A i \in 0..(1 - 1) : i = 0
  OBVIOUS
<1>4. ListApart(slots', 1)
  BY <1>3 DEF ListApart
<1>5. End(whole) <= Usable
  BY UsableRange DEF End
<1>6. \A x \in 0..(Usable - 1) : Contains(whole, x)
  BY UsableRange DEF Contains, End
<1>7. 0 \in 0..(1 - 1)
  OBVIOUS
<1>8. SharesBuffer(slots', 1, block')
  BY <1>1, <1>3, <1>4, <1>5, <1>6, <1>7, NoBlockEmpty DEF SharesBuffer
<1> QED
  BY <1>1, <1>2, <1>8 DEF Shape

LEMMA HeldRegion ==
  ASSUME DataOK
  PROVE  \A h \in Handles : Region(block[h])
BY SizesTyped, RegionTypes

LEMMA SplitShape ==
  ASSUME DataOK, Shape, NEW h \in Handles, NEW size \in Sizes, NEW alignment \in Alignments,
         NEW i \in FreeIndices, AllocateSplit(h, size, alignment, i)
  PROVE  Shape'
<1> DEFINE n == RequiredSize(size, alignment)
           b == slots[i]
           head == [offset |-> b.offset, size |-> n, request |-> size, header |-> n]
           rest == [offset |-> b.offset + n, size |-> b.size - n]
<1>1. /\ n \in Nat /\ n > HeaderSize /\ n < b.size
      /\ i \in 0..(Slots - 1) /\ i \in 0..(currSize - 1) /\ b \in MemBlock
      /\ Region(b) /\ currSize > 0
  <2>1. n < b.size
    BY DEF AllocateSplit
  <2>2. n \in Nat /\ n > HeaderSize
    BY RequiredSizeType
  <2>3. i \in 0..(Slots - 1) /\ i \in 0..(currSize - 1) /\ b \in MemBlock
    BY SlotInUse DEF FreeIndices
  <2> QED
    BY <2>1, <2>2, <2>3, RegionTypes, SizesTyped
<1>2. /\ ListApart(slots, currSize)
      /\ \A j \in 0..(currSize - 1), g \in Handles : ~Overlap(slots[j], block[g])
      /\ \A j \in 0..(currSize - 1) : End(slots[j]) <= Usable
      /\ \A x \in 0..(Usable - 1) : \/ \E j \in 0..(currSize - 1) : Contains(slots[j], x)
                                    \/ \E g \in Handles : Contains(block[g], x)
  BY <1>1 DEF Shape, SharesBuffer
<1>3. U32(n) = n /\ U32(b.size - n) = b.size - n
  <2>1. End(b) <= Usable
    BY <1>1, <1>2
  <2>2. n <= Usable /\ b.size - n \in Nat /\ b.size - n <= Usable
    BY <1>1, <2>1, UsableRange DEF Region, End
  <2> QED
    BY <1>1, <2>2, U32Small
<1>4. /\ slots' = [slots EXCEPT ![i] = rest]
      /\ currSize' = currSize
      /\ block[h] = NoBlock
      /\ HandOut(h, size, n, b.offset)
  BY <1>3 DEF AllocateSplit, Found
<1>5. /\ slots'[i] = rest
      /\ \A j \in 0..(currSize - 1) \ {i} : slots'[j] = slots[j] /\ Region(slots[j])
  <2>1. \A j \in 0..(currSize - 1) : j \in 0..(Slots - 1)
    BY SizesTyped, Sizings
  <2> QED
    BY <1>1, <1>4, <2>1, SizesTyped, RegionTypes DEF SlotArray
<1>6. /\ block'[h] = head
      /\ \A g \in Handles \ {h} : block'[g] = block[g]
  <2>1. ASSUME NEW g \in Handles, block[g] # NoBlock
        PROVE  [block[g] EXCEPT !.header = HeaderAfter(block[g], n, b.offset)] = block[g]
    <3>1. block[g].size > HeaderSize /\ HeaderSize \in Nat \ {0}
      BY <2>1, ConstantsAssumption DEF Shape, WellHeld
    <3>2. ~Overlap(b, block[g])
      BY <1>1, <1>2
    <3>3. /\ block[g].offset # b.offset
          /\ ~Overlap(Header(block[g]), [offset |-> b.offset, size |-> HeaderSize])
      BY <1>1, <3>1, <3>2, HeldRegion DEF Overlap, End, Region, Header
    <3>4. HeaderAfter(block[g], n, b.offset) = block[g].header
      BY <3>3 DEF HeaderAfter
    <3>5. block[g] \in Held
      BY SizesTyped
    <3> QED
      BY <3>4, <3>5 DEF Held
  <2>2. /\ block'[h] = head
        /\ \A g \in Handles \ {h} :
             block'[g] = IF block[g] = NoBlock THEN NoBlock
                         ELSE [block[g] EXCEPT !.header = HeaderAfter(block[g], n, b.offset)]
    BY <1>4 DEF HandOut
  <2> QED
    BY <2>1, <2>2
<1>7. \A g \in Handles : Region(block[g])
  BY HeldRegion
<1>8. head.offset = b.offset /\ head.size = n /\ rest.offset = b.offset + n /\ rest.size = b.size - n
  OBVIOUS
<1> HIDE DEF n, b, head, rest
<1>9. /\ Region(head) /\ Region(rest)
      /\ ~Overlap(head, rest)
      /\ \A c : Region(c) => (Overlap(head, c) => Overlap(b, c))
      /\ \A c : Region(c) => (Overlap(rest, c) => Overlap(b, c))
      /\ \A x \in Nat : Contains(b, x) => Contains(head, x) \/ Contains(rest, x)
      /\ \A m \in Nat : End(b) <= m => End(head) <= m /\ End(rest) <= m
  BY <1>1, <1>8, SplitCovers
<1>10. WellHeld'
  <2>1. \A g \in Handles : block'[g] = NoBlock \/ block'[g].size > HeaderSize
    BY <1>1, <1>6, <1>8 DEF Shape, WellHeld
  <2>2. \A g \in Handles : block'[g].header = block'[g].size
    BY <1>6 DEF Shape, WellHeld, head
  <2>3. \A g \in Handles : End(block'[g]) <= Usable
    <3>1. End(b) <= Usable /\ Usable \in Nat
      BY <1>1, <1>2, UsableRange DEF b
    <3> QED
      BY <1>6, <1>9, <3>1 DEF Shape, WellHeld
  <2>4. ASSUME NEW f \in Handles, NEW g \in Handles, f # g
        PROVE  ~Overlap(block'[f], block'[g])
    <3>1. \A g1 \in Handles : ~Overlap(head, block[g1])
      BY <1>1, <1>2, <1>7, <1>9 DEF b
    <3>2. \A g1 \in Handles : ~Overlap(block[g1], head)
      BY <3>1, OverlapSymmetric
    <3> QED
      BY <1>6, <2>4, <3>1, <3>2 DEF Shape, WellHeld, HeldApart
  <2>5. Usable' = Usable
    BY DEF Usable, U32
  <2> QED
    BY <2>1, <2>2, <2>3, <2>4, <2>5 DEF WellHeld, HeldApart
<1>11. SharesBuffer(slots', currSize, block')
  <2>1. ASSUME NEW j \in 0..(currSize - 1), NEW k \in 0..(currSize - 1), j # k
        PROVE  ~Overlap(slots'[j], slots'[k])
    <3>1. \A k1 \in 0..(currSize - 1) \ {i} : ~Overlap(rest, slots[k1])
      BY <1>1, <1>2, <1>5, <1>9 DEF ListApart, b
    <3>2. \A k1 \in 0..(currSize - 1) \ {i} : ~Overlap(slots[k1], rest)
      BY <3>1, OverlapSymmetric
    <3> QED
      BY <1>2, <1>5, <2>1, <3>1, <3>2 DEF ListApart
  <2>2. ASSUME NEW j \in 0..(currSize - 1), NEW g \in Handles
        PROVE  ~Overlap(slots'[j], block'[g])
    <3>1. ~Overlap(rest, head)
      BY <1>9, OverlapSymmetric
    <3>2. \A g1 \in Handles : ~Overlap(rest, block[g1])
      BY <1>1, <1>2, <1>7, <1>9 DEF b
    <3>3. \A j1 \in 0..(currSize - 1) \ {i} : ~Overlap(head, slots[j1])
      BY <1>1, <1>2, <1>5, <1>9 DEF ListApart, b
    <3>4. \A j1 \in 0..(currSize - 1) \ {i} : ~Overlap(slots[j1], head)
      BY <3>3, OverlapSymmetric
    <3> QED
      BY <1>2, <1>5, <1>6, <3>1, <3>2, <3>4
  <2>3. ASSUME NEW j \in 0..(currSize - 1)
        PROVE  End(slots'[j]) <= Usable
    <3>1. End(b) <= Usable /\ Usable \in Nat
      BY <1>1, <1>2, UsableRange DEF b
    <3> QED
      BY <1>2, <1>5, <1>9, <3>1
  <2>4. ASSUME NEW x \in 0..(Usable - 1)
        PROVE  \/ \E j \in 0..(currSize - 1) : Contains(slots'[j], x)
               \/ \E g \in Handles : Contains(block'[g], x)
    <3>1. x \in Nat
      BY UsableRange
    <3>2. CASE \E j \in 0..(currSize - 1) : Contains(slots[j], x)
      <4>1. PICK j \in 0..(currSize - 1) : Contains(slots[j], x)
        BY <3>2
      <4>2. CASE j = i
        BY <1>1, <1>5, <1>6, <1>9, <3>1, <4>1, <4>2 DEF b
      <4>3. CASE j # i
        BY <1>5, <4>1, <4>3
      <4> QED
        BY <4>2, <4>3
    <3>3. CASE \E g \in Handles : Contains(block[g], x)
      <4>1. PICK g \in Handles : Contains(block[g], x)
        BY <3>3
      <4>2. g # h
        BY <1>4, <3>1, <4>1, NoBlockEmpty
      <4> QED
        BY <1>6, <4>1, <4>2
    <3> QED
      BY <1>2, <3>2, <3>3
  <2> QED
    BY <2>1, <2>2, <2>3, <2>4 DEF SharesBuffer, ListApart
<1> QED
  BY <1>1, <1>4, <1>10, <1>11 DEF Shape

(* Free() before it merges: the list with the freed block at its end.      *)
LEMMA PushShares ==
  ASSUME DataOK, Shape, NEW h \in Handles, NEW s, NEW held,
         block[h] # NoBlock, currSize # Slots,
         s = [slots EXCEPT ![currSize] =
                [offset |-> U32(block[h].offset), size |-> block[h].header]],
         held = [block EXCEPT ![h] = NoBlock]
  PROVE  /\ s \in SlotArray
         /\ currSize \in 0..(Slots - 1)
         /\ SharesBuffer(s, currSize + 1, held)
         /\ \A g \in Handles : Region(held[g])
<1> DEFINE b == block[h]
           freed == [offset |-> b.offset, size |-> b.size]
<1>1. currSize \in 1..(Slots - 1) /\ currSize > 0
  BY SizesTyped, Sizings DEF Shape
<1>2. b \in Held /\ Region(b) /\ b.header = b.size /\ End(b) <= Usable
  BY SizesTyped, HeldRegion DEF Shape, WellHeld
<1>3. U32(b.offset) = b.offset
  <2>1. b.offset \in Nat /\ b.offset <= Usable
    BY <1>2, UsableRange DEF Region, End
  <2> QED
    BY <2>1, U32Small
<1>4. s = [slots EXCEPT ![currSize] = freed]
  BY <1>2, <1>3
<1>5. freed.offset = b.offset /\ freed.size = b.size /\ freed \in MemBlock
  BY <1>2 DEF MemBlock, Region
<1>6. /\ s \in SlotArray
      /\ s[currSize] = freed
      /\ \A i \in 0..(currSize - 1) : s[i] = slots[i]
  <2>1. currSize \in 0..(Slots - 1)
        /\ \A i \in 0..(currSize - 1) : i \in 0..(Slots - 1) /\ i # currSize
    BY <1>1, SizesTyped, Sizings
  <2> QED
    BY <1>4, <1>5, <2>1, SizesTyped DEF SlotArray
<1>7. held[h] = NoBlock /\ \A g \in Handles \ {h} : held[g] = block[g]
  BY SizesTyped
<1>8. /\ ListApart(slots, currSize)
      /\ \A j \in 0..(currSize - 1), g \in Handles : ~Overlap(slots[j], block[g])
      /\ \A j \in 0..(currSize - 1) : End(slots[j]) <= Usable
      /\ \A x \in 0..(Usable - 1) : \/ \E j \in 0..(currSize - 1) : Contains(slots[j], x)
                                    \/ \E g \in Handles : Contains(block[g], x)
  BY <1>1 DEF Shape, SharesBuffer
<1>9. \A c, d : c.offset = d.offset /\ c.size = d.size
        => /\ \A e : Overlap(c, e) <=> Overlap(d, e)
           /\ \A e : Overlap(e, c) <=> Overlap(e, d)
           /\ \A x : Contains(c, x) <=> Contains(d, x)
           /\ End(c) = End(d)
  BY DEF Overlap, Contains, End
<1>10. /\ \A e : Overlap(freed, e) <=> Overlap(b, e)
       /\ \A e : Overlap(e, freed) <=> Overlap(e, b)
       /\ \A x : Contains(freed, x) <=> Contains(b, x)
       /\ End(freed) = End(b)
  BY <1>5, <1>9
<1>11. \A i \in 0..((currSize + 1) - 1) : i = currSize \/ i \in 0..(currSize - 1)
  BY <1>1
<1>12. /\ currSize \in 0..((currSize + 1) - 1)
       /\ \A i \in 0..(currSize - 1) : i \in 0..((currSize + 1) - 1)
  BY <1>1
<1> HIDE DEF freed
<1>13. ASSUME NEW i \in 0..((currSize + 1) - 1), NEW j \in 0..((currSize + 1) - 1), i # j
       PROVE  ~Overlap(s[i], s[j])
  <2>1. \A k \in 0..(currSize - 1) : ~Overlap(slots[k], freed)
    BY <1>8, <1>10
  <2>2. \A k \in 0..(currSize - 1) : ~Overlap(freed, slots[k])
    BY <2>1, OverlapSymmetric
  <2>3. \A k, l \in 0..(currSize - 1) : k # l => ~Overlap(slots[k], slots[l])
    BY <1>8 DEF ListApart
  <2>4. i = currSize \/ i \in 0..(currSize - 1)
    BY <1>11
  <2>5. j = currSize \/ j \in 0..(currSize - 1)
    BY <1>11
  <2> QED
    BY <1>6, <1>13, <2>1, <2>2, <2>3, <2>4, <2>5
<1>14. ASSUME NEW i \in 0..((currSize + 1) - 1), NEW g \in Handles
       PROVE  ~Overlap(s[i], held[g])
  <2>1. CASE g = h
    BY <1>7, <2>1, NoBlockEmpty
  <2>2. CASE g # h
    <3>1. ~Overlap(freed, block[g])
      BY <1>10, <2>2 DEF Shape, WellHeld, HeldApart
    <3> QED
      BY <1>6, <1>7, <1>8, <1>11, <2>2, <3>1
  <2> QED
    BY <2>1, <2>2
<1>15. ASSUME NEW i \in 0..((currSize + 1) - 1)
       PROVE  End(s[i]) <= Usable
  BY <1>2, <1>6, <1>8, <1>10, <1>11
<1>16. ASSUME NEW x \in 0..(Usable - 1)
       PROVE  \/ \E i \in 0..((currSize + 1) - 1) : Contains(s[i], x)
              \/ \E g \in Handles : Contains(held[g], x)
  <2>1. CASE \E j \in 0..(currSize - 1) : Contains(slots[j], x)
    BY <1>6, <1>12, <2>1
  <2>2. CASE \E g \in Handles : Contains(block[g], x)
    <3>1. PICK g \in Handles : Contains(block[g], x)
      BY <2>2
    <3>2. CASE g = h
      BY <1>6, <1>10, <1>12, <3>1, <3>2
    <3>3. CASE g # h
      BY <1>7, <3>1, <3>3
    <3> QED
      BY <3>2, <3>3
  <2> QED
    BY <1>8, <2>1, <2>2
<1>17. SharesBuffer(s, currSize + 1, held)
  BY <1>13, <1>14, <1>15, <1>16 DEF SharesBuffer, ListApart
<1>18. \A g \in Handles : Region(held[g])
  BY <1>7, HeldRegion, NoBlockEmpty
<1> QED
  BY <1>1, <1>6, <1>17, <1>18

LEMMA FreeShape ==
  ASSUME DataOK, Shape, NEW h \in Handles, Free(h)
  PROVE  Shape'
<1> DEFINE s == [slots EXCEPT ![currSize] =
                   [offset |-> U32(block[h].offset), size |-> block[h].header]]
           held == [block EXCEPT ![h] = NoBlock]
<1>1. /\ block[h] # NoBlock /\ currSize # Slots
      /\ block' = held
      /\ \/ FastMergeMemBlocks(s, currSize + 1, currSize)
         \/ slots' = s /\ currSize' = currSize + 1
  BY DEF Free, ShouldFullMerge
<1>2. /\ s \in SlotArray
      /\ currSize \in 0..(Slots - 1)
      /\ SharesBuffer(s, currSize + 1, held)
      /\ \A g \in Handles : Region(held[g])
  BY <1>1, PushShares
<1>3. held[h] = NoBlock /\ \A g \in Handles \ {h} : held[g] = block[g]
  BY SizesTyped
<1> HIDE DEF s, held
<1>4. currSize + 1 \in 1..Slots /\ currSize \in 0..((currSize + 1) - 1)
  BY <1>2, Sizings
<1>5. SharesBuffer(slots', currSize', block') /\ currSize' # 0
  <2>1. CASE FastMergeMemBlocks(s, currSize + 1, currSize)
    <3>1. SharesBuffer(slots', currSize', held)
      BY <1>2, <1>4, <2>1, MergeShares
    <3>2. currSize' \in 1..Slots
      BY <1>2, <1>4, <2>1, FastMergeType
    <3> QED
      BY <1>1, <3>1, <3>2, Sizings
  <2>2. CASE slots' = s /\ currSize' = currSize + 1
    BY <1>1, <1>2, <1>4, <2>2
  <2> QED
    BY <1>1, <2>1, <2>2
<1>6. WellHeld'
  <2>1. \A g \in Handles : held[g] = NoBlock \/ held[g].size > HeaderSize
    BY <1>3 DEF Shape, WellHeld
  <2>2. \A g \in Handles : held[g].header = held[g].size
    BY <1>3 DEF Shape, WellHeld, NoBlock
  <2>3. \A g \in Handles : End(held[g]) <= Usable
    BY <1>3, NoBlockEmpty, UsableRange DEF Shape, WellHeld
  <2>4. \A f, g \in Handles : f # g => ~Overlap(held[f], held[g])
    BY <1>3, NoBlockEmpty DEF Shape, WellHeld, HeldApart
  <2>5. Usable' = Usable
    BY DEF Usable, U32
  <2> QED
    BY <1>1, <2>1, <2>2, <2>3, <2>4, <2>5 DEF WellHeld, HeldApart
<1> QED
  BY <1>5, <1>6 DEF Shape

LEMMA MergeStepShape ==
  ASSUME DataOK, Shape, MergeStep
  PROVE  Shape'
<1>1. merge \in 0..(currSize - 1) /\ currSize \in 1..Slots /\ currSize > 0
  BY DEF DataOK, MergeStep, Idle
<1>2. FastMergeMemBlocks(slots, currSize, merge) /\ block' = block
  BY DEF MergeStep
<1>3. slots \in SlotArray /\ \A g \in Handles : Region(block[g])
  BY SizesTyped, HeldRegion
<1>4. SharesBuffer(slots', currSize', block)
  BY <1>1, <1>2, <1>3, MergeShares DEF Shape
<1>5. currSize' \in 1..Slots
  BY <1>1, <1>2, <1>3, FastMergeType
<1>6. currSize' # 0
  BY <1>5, Sizings
<1>7. Usable' = Usable
  BY DEF Usable, U32
<1> QED
  BY <1>2, <1>4, <1>6, <1>7 DEF Shape, WellHeld, HeldApart

(* Clients that stay within their blocks overwrite no header.              *)
LEMMA NoHeaderHit ==
  ASSUME DataOK, WellHeld, NEW h \in Handles, block[h] # NoBlock
  PROVE  ~ClientWrite(h)
<1>1. ASSUME NEW g \in Handles \ {h}, block[g] # NoBlock,
             Overlap(Payload(block[h]), Header(block[g]))
      PROVE  FALSE
  <2>1. ~Overlap(block[h], block[g])
    BY DEF WellHeld, HeldApart
  <2>2. block[g].size > HeaderSize /\ block[h].size > HeaderSize
    BY <1>1 DEF WellHeld
  <2>3. Region(block[g]) /\ Region(block[h])
    BY HeldRegion
  <2> QED
    BY <1>1, <2>1, <2>2, <2>3, ConstantsAssumption
       DEF Overlap, Payload, Header, End, Region
<1> QED
  BY <1>1 DEF ClientWrite

LEMMA UnchangedShape ==
  ASSUME Shape, UNCHANGED <<slots, currSize, block>>
  PROVE  Shape'
<1>1. Usable' = Usable
  BY DEF Usable, U32
<1> QED
  BY <1>1 DEF Shape, WellHeld, HeldApart, SharesBuffer, ListApart

LEMMA ShapeStep == DataOK /\ ShapeOK /\ [Next]_vars => ShapeOK'
<1> SUFFICES ASSUME DataOK, ShapeOK, [Next]_vars, ~exactFit' PROVE Shape'
  BY DEF ShapeOK
<1>1. CASE CallInit \/ Reset
  BY <1>1, ResetListShape DEF CallInit, Reset
<1>2. CASE FullMergeMemBlocks
  BY <1>2, UnchangedShape DEF FullMergeMemBlocks, ShapeOK
<1>3. CASE MergeStep
  <2>1. Shape
    BY <1>3 DEF MergeStep, ShapeOK
  <2> QED
    BY <1>3, <2>1, MergeStepShape
<1>4. ASSUME NEW h \in Handles, NEW size \in Sizes, NEW alignment \in Alignments,
             Allocate(h, size, alignment)
      PROVE  Shape'
  <2>1. CASE AllocateRefused(h, size, alignment)
    BY <2>1, UnchangedShape DEF AllocateRefused, ShapeOK
  <2>2. ASSUME NEW i \in FreeIndices, AllocateSplit(h, size, alignment, i)
        PROVE  Shape'
    <3>1. Shape
      BY <2>2 DEF AllocateSplit, ShapeOK
    <3> QED
      BY <2>2, <3>1, SplitShape
  <2>3. ASSUME NEW i \in FreeIndices
        PROVE  ~AllocateExact(h, size, alignment, i)
    BY DEF AllocateExact
  <2>4. ASSUME NEW i \in FreeIndices,
               \/ AllocateUndefined(h, size, alignment, i)
               \/ AllocateMisaligned(h, size, alignment, i)
        PROVE  Shape'
    BY <2>4, UnchangedShape DEF AllocateUndefined, AllocateMisaligned, ShapeOK
  <2> QED
    BY <1>4, <2>1, <2>2, <2>3, <2>4 DEF Allocate
<1>5. ASSUME NEW h \in Handles, Free(h)
      PROVE  Shape'
  <2>1. Shape
    BY <1>5 DEF Free, ShapeOK
  <2> QED
    BY <1>5, <2>1, FreeShape
<1>6. ASSUME NEW h \in Handles, FreeRefused(h) \/ FreeUndefined(h)
      PROVE  Shape'
  BY <1>6, UnchangedShape DEF FreeRefused, FreeUndefined, ShapeOK
<1>7. ASSUME NEW h \in Handles, ClientWrite(h)
      PROVE  Shape'
  <2>1. WellHeld /\ block[h] # NoBlock
    BY <1>7 DEF ClientWrite, ShapeOK, Shape
  <2> QED
    BY <1>7, <2>1, NoHeaderHit
<1>8. CASE Stopped \/ UNCHANGED vars
  BY <1>8, UnchangedShape DEF Stopped, vars, ShapeOK
<1> QED
  BY <1>1, <1>2, <1>3, <1>4, <1>5, <1>6, <1>7, <1>8 DEF Next

-----------------------------------------------------------------------------
(* The theorems.                                                           *)

IInv == TypeOK /\ ShapeOK

LEMMA InitShape == Init => ShapeOK
<1> SUFFICES ASSUME Init PROVE Shape
  BY DEF ShapeOK
<1>1. block = [h \in Handles |-> NoBlock] /\ currSize = 0
  BY DEF Init
<1>2. WellHeld
  BY <1>1, NoBlockEmpty, UsableRange DEF WellHeld, HeldApart, NoBlock
<1> QED
  BY <1>1, <1>2 DEF Shape

LEMMA Inductive == Spec => []IInv
<1>1. Init => IInv
  <2>1. Init => FlagsOK
    BY Zenon DEF Init, FlagsOK
  <2> QED
    BY <2>1, InitData, InitShape DEF IInv, TypeOK
<1>2. IInv /\ [Next]_vars => IInv'
  BY FlagsStep, DataStep, ShapeStep DEF IInv, TypeOK
<1> QED
  BY <1>1, <1>2, PTL DEF Spec

(* Allocate, Free, FullMergeMemBlocks at each iteration of its loop, Reset *)
(* and Init keep every byte of the buffer either free or held, once, until *)
(* Allocate takes a block whole, and again after the next Reset: for every *)
(* buffer, array, merge policy, thread policy and client.                  *)
THEOREM BufferPartitioned == Spec => []Partitioned
<1>1. IInv => Partitioned
  <2> SUFFICES ASSUME IInv, ~exactFit, currSize > 0
               PROVE  FreeApart /\ FreeNotHeld /\ HeldApart /\ InBuffer /\ NothingLost
    BY DEF Partitioned
  <2>1. Shape
    BY DEF IInv, ShapeOK
  <2> QED
    BY <2>1 DEF Shape, WellHeld, SharesBuffer, ListApart, FreeIndices, FreeApart,
                FreeNotHeld, InBuffer, NothingLost
<1> QED
  BY <1>1, Inductive, PTL

(* A client that writes to all the memory it was given, and to nothing     *)
(* else, never changes a header: Free reads the size Allocate wrote.       *)
THEOREM HeadersStayIntact == Spec => []HeadersIntact
<1>1. IInv => HeadersIntact
  BY DEF IInv, ShapeOK, Shape, WellHeld, HeadersIntact
<1> QED
  BY <1>1, Inductive, PTL

(* static_cast<int> never misleads the search: it returns a smallest block *)
(* that fits, because a list on which the cast makes a size negative holds *)
(* no second block of that kind.                                           *)
THEOREM SearchIsBestFit == Spec => []SmallestFitChosen
<1>1. IInv => SmallestFitChosen
  <2> SUFFICES ASSUME IInv, ~exactFit, NEW n, NEW i \in FreeIndices, NEW j \in FreeIndices,
                      FindFreeMemBlockIndex(n, i), j \in Fitting(n)
               PROVE  slots[i].size <= slots[j].size
    BY DEF SmallestFitChosen
  <2>1. Shape /\ DataOK
    BY DEF IInv, ShapeOK, TypeOK
  <2>2. slots[i] \in MemBlock /\ slots[j] \in MemBlock /\ currSize > 0
    BY <2>1, SlotInUse, SizesTyped DEF FreeIndices
  <2>3. slots[i].size \in Nat /\ slots[j].size \in Nat
        /\ slots[i].offset \in Nat /\ slots[j].offset \in Nat
    BY <2>2 DEF MemBlock
  <2>4. /\ End(slots[i]) <= Usable /\ End(slots[j]) <= Usable
        /\ i # j => ~Overlap(slots[i], slots[j])
    BY <2>1, <2>2 DEF Shape, SharesBuffer, ListApart, FreeIndices
  <2>5. CASE i = j
    BY <2>3, <2>5
  <2>6. CASE i # j
    <3>1. Preferred(i, j)
      BY <2>6 DEF FindFreeMemBlockIndex
    <3>2. slots[i].size + slots[j].size < Uint32
      BY <2>3, <2>4, <2>6, UsableRange, Sizings DEF Overlap, End
    <3> QED
      BY <2>3, <3>1, <3>2, Sizings DEF Preferred, Wide
  <2> QED
    BY <2>5, <2>6
<1> QED
  BY <1>1, Inductive, PTL

-----------------------------------------------------------------------------
(* Sizes.                                                                  *)

LEMMA CoversStep ==
  ASSUME \A size \in Sizes : size < Uint32, DataOK, GrantCoversRequest, [Next]_vars
  PROVE  GrantCoversRequest'
<1>1. ASSUME NEW h \in Handles, NEW size \in Sizes, NEW alignment \in Alignments,
             NEW offset, HandOut(h, size, RequiredSize(size, alignment), offset)
      PROVE  GrantCoversRequest'
  <2> DEFINE n == RequiredSize(size, alignment)
             given == [offset |-> offset, size |-> n, request |-> size, header |-> n]
  <2>1. n >= HeaderSize + size
    <3>1. size \in 0..(Uint32 - 1)
      BY ConstantsAssumption
    <3>2. U32(size) = size
      BY <3>1, ModSmall, Sizings DEF U32
    <3>3. (HeaderSize + size) % alignment \in 0..(alignment - 1)
      <4>1. HeaderSize + size \in Int /\ alignment \in Nat \ {0}
        BY ConstantsAssumption
      <4> QED
        BY <4>1, ModRange
    <3>4. Padding(size, alignment) \in Nat
      BY <3>3, ConstantsAssumption DEF Padding
    <3> QED
      BY <3>1, <3>2, <3>4, ConstantsAssumption DEF RequiredSize
  <2>2. ASSUME NEW g \in Handles
        PROVE  \/ block'[g] = given
               \/ /\ block[g] # NoBlock
                  /\ block'[g].size = block[g].size
                  /\ block'[g].request = block[g].request
               \/ block'[g] = block[g]
    <3>1. block[g] \in Held
      BY SizesTyped
    <3>2. \A x : /\ [block[g] EXCEPT !.header = x].size = block[g].size
                /\ [block[g] EXCEPT !.header = x].request = block[g].request
      BY <3>1 DEF Held
    <3>3. block' = [f \in Handles |->
             IF f = h THEN given
             ELSE IF block[f] = NoBlock THEN NoBlock
             ELSE [block[f] EXCEPT !.header = HeaderAfter(block[f], n, offset)]]
      BY <1>1 DEF HandOut
    <3>4. block'[g] = IF g = h THEN given
             ELSE IF block[g] = NoBlock THEN NoBlock
             ELSE [block[g] EXCEPT !.header = HeaderAfter(block[g], n, offset)]
      BY <3>3
    <3> QED
      BY <3>2, <3>4
  <2>3. given.size = n /\ given.request = size
    OBVIOUS
  <2> QED
    BY <2>1, <2>2, <2>3 DEF GrantCoversRequest
<1>2. CASE UNCHANGED block
  BY <1>2 DEF GrantCoversRequest
<1>3. ASSUME NEW h \in Handles, Free(h)
      PROVE  GrantCoversRequest'
  <2>1. \A g \in Handles : block'[g] = NoBlock \/ block'[g] = block[g]
    BY <1>3, SizesTyped DEF Free
  <2> QED
    BY <2>1 DEF GrantCoversRequest
<1>4. ASSUME NEW h \in Handles, ClientWrite(h)
      PROVE  GrantCoversRequest'
  <2>1. ASSUME NEW g \in Handles, block'[g] # block[g]
        PROVE  /\ block[g] # NoBlock
               /\ block'[g].size = block[g].size
               /\ block'[g].request = block[g].request
    <3>1. block[g] \in Held
      BY SizesTyped
    <3>2. /\ [block[g] EXCEPT !.header = Clobbered].size = block[g].size
          /\ [block[g] EXCEPT !.header = Clobbered].request = block[g].request
      BY <3>1 DEF Held
    <3>3. PICK hit \in SUBSET {f \in Handles : block[f] # NoBlock} :
             block' = [f \in Handles |-> IF f \in hit
                          THEN [block[f] EXCEPT !.header = Clobbered] ELSE block[f]]
      BY <1>4, Zenon DEF ClientWrite
    <3>4. block'[g] = IF g \in hit THEN [block[g] EXCEPT !.header = Clobbered] ELSE block[g]
      BY <3>3
    <3> QED
      BY <2>1, <3>2, <3>3, <3>4
  <2> QED
    BY <2>1 DEF GrantCoversRequest
<1>5. CASE CallInit \/ Reset
  <2>1. \A g \in Handles : block'[g] = NoBlock
    BY <1>5 DEF CallInit, Reset, ResetList
  <2> QED
    BY <2>1 DEF GrantCoversRequest
<1>6. ASSUME NEW h \in Handles, NEW size \in Sizes, NEW alignment \in Alignments,
             Allocate(h, size, alignment)
      PROVE  GrantCoversRequest'
  <2>1. \/ \E offset : HandOut(h, size, RequiredSize(size, alignment), offset)
        \/ UNCHANGED block
    BY <1>6 DEF Allocate, AllocateRefused, AllocateSplit, AllocateExact,
                AllocateUndefined, AllocateMisaligned
  <2> QED
    BY <1>1, <1>2, <2>1
<1>7. CASE FullMergeMemBlocks \/ MergeStep \/ Stopped \/ UNCHANGED vars
  BY <1>2, <1>7 DEF FullMergeMemBlocks, MergeStep, Stopped, vars
<1>8. ASSUME NEW h \in Handles, FreeRefused(h) \/ FreeUndefined(h)
      PROVE  GrantCoversRequest'
  BY <1>2, <1>8 DEF FreeRefused, FreeUndefined
<1> QED
  BY <1>3, <1>4, <1>5, <1>6, <1>7, <1>8 DEF Next

(* A block has room for its header and for what was asked for, even after  *)
(* exact fits, as long as no request needs more than 32 bits.              *)
THEOREM BlocksCoverRequests ==
  ASSUME \A size \in Sizes : size < Uint32
  PROVE  Spec => []GrantCoversRequest
<1>1. Init => GrantCoversRequest
  BY DEF Init, GrantCoversRequest
<1>2. DataOK /\ GrantCoversRequest /\ [Next]_vars => GrantCoversRequest'
  BY CoversStep
<1>3. IInv => DataOK
  BY DEF IInv, TypeOK
<1> QED
  BY <1>1, <1>2, <1>3, Inductive, PTL DEF Spec

-----------------------------------------------------------------------------
(* FullMergeMemBlocks joins in one pass everything that can be joined.     *)
(* The loop goes down from the last slot; iteration `merge` removes slot   *)
(* merge and fills it with the last slot in use, so it must be shown that  *)
(* what the loop has left behind never touches anything again.             *)

(* Between calls after a merge, or above the loop's index during one, no   *)
(* block touches another; and no free block is empty.                      *)
Behind(s, n, m) ==
  \A i, j \in 0..(n - 1) : i > m /\ i # j => ~Touching(s[i], s[j])

NonEmpty(s, n) == Usable > 0 => \A i \in 0..(n - 1) : s[i].size > 0

Merged ==
  /\ NonEmpty(slots, currSize)
  /\ merge # Idle \/ coalesced => Behind(slots, currSize, merge)

MergedOK == ~exactFit => Merged

LEMMA JoinedTouches ==
  ASSUME NEW a, NEW b, NEW c, Region(a), Region(b), Region(c),
         Touching(a, b), Touching(Joined(a, b), c)
  PROVE  Touching(a, c) \/ Touching(b, c)
BY DEF Touching, Joined, End, Region

LEMMA TouchingSymmetric ==
  ASSUME NEW a, NEW b, Touching(a, b)
  PROVE  Touching(b, a)
BY DEF Touching

LEMMA ListRegions ==
  ASSUME NEW s \in SlotArray, NEW n \in 0..Slots
  PROVE  \A i \in 0..(n - 1) : Region(s[i]) /\ s[i].size \in Nat
<1>1. \A i \in 0..(n - 1) : i \in 0..(Slots - 1)
  BY Sizings
<1>2. \A i \in 0..(n - 1) : s[i] \in MemBlock
  BY <1>1 DEF SlotArray
<1> QED
  BY <1>2, RegionTypes DEF MemBlock

(* One iteration: behind its index nothing touches before, behind the next *)
(* index nothing touches after.                                            *)
LEMMA MergeClears ==
  ASSUME NEW s \in SlotArray, NEW n \in 1..Slots, NEW p \in 0..(n - 1),
         FastMergeMemBlocks(s, n, p), Behind(s, n, p)
  PROVE  Behind(slots', currSize', p - 1)
<1>0. \A i \in 0..(n - 1) : Region(s[i])
  <2>1. n \in 0..Slots
    BY Sizings
  <2> QED
    BY <2>1, ListRegions
<1>1. CASE Neighbours(s, p) = {}
  <2>1. slots' = s /\ currSize' = n
    BY <1>1 DEF FastMergeMemBlocks
  <2>2. \A j \in 0..(p - 1) : ~Touching(s[j], s[p])
    BY <1>1 DEF Neighbours
  <2>3. ASSUME NEW i \in 0..(n - 1), NEW j \in 0..(n - 1), i > p - 1, i # j
        PROVE  ~Touching(s[i], s[j])
    <3>1. CASE i > p
      BY <2>3, <3>1 DEF Behind
    <3>2. CASE i = p /\ j < p
      <4>1. j \in 0..(p - 1)
        BY <3>2, Sizings
      <4> QED
        BY <2>2, <3>2, <4>1, TouchingSymmetric
    <3>3. CASE i = p /\ j > p
      <4>1. ~Touching(s[j], s[i])
        BY <2>3, <3>3 DEF Behind
      <4> QED
        BY <4>1, TouchingSymmetric
    <3> QED
      BY <2>3, <3>1, <3>2, <3>3, Sizings
  <2> QED
    BY <2>1, <2>3 DEF Behind
<1>2. CASE Neighbours(s, p) # {}
  <2>1. PICK k \in 0..(p - 1) :
          /\ Touching(s[k], s[p])
          /\ currSize' = n - 1
          /\ slots'[k] = Joined(s[k], s[p])
          /\ \A i \in 0..(n - 2) \ {k} : slots'[i] = s[Source(i, p, n)]
    <3>1. currSize' # n
      <4>1. currSize' = n - 1
        BY <1>2 DEF FastMergeMemBlocks
      <4> QED
        BY <4>1, Sizings
    <3> QED
      BY <3>1, MergeShape
  <2>2. k \in 0..(n - 2) /\ k \in 0..(n - 1) /\ k < p /\ k # p
    BY Sizings
  <2>3. ASSUME NEW i \in 0..(n - 2), NEW j \in 0..(n - 2), i > p - 1, i # j
        PROVE  ~Touching(slots'[i], slots'[j])
    <3>1. i \in 0..(n - 2) \ {k}
      BY <2>2, <2>3
    <3> DEFINE o == Source(i, p, n)
    <3>2. o \in 0..(n - 1) /\ o # k /\ o # p /\ o > p /\ slots'[i] = s[o]
      <4>1. o > p
        BY <2>3, Sizings DEF Source
      <4> QED
        BY <2>1, <3>1, <4>1, SourceRange
    <3> HIDE DEF o
    <3>3. \A l \in 0..(n - 1) : l # o => ~Touching(s[o], s[l])
      BY <3>2 DEF Behind
    <3>4. CASE j = k
      <4>1. ~Touching(s[k], s[o]) /\ ~Touching(s[p], s[o])
        BY <2>2, <3>2, <3>3, TouchingSymmetric
      <4>2. Region(s[k]) /\ Region(s[p]) /\ Region(s[o])
        BY <1>0, <2>2, <3>2
      <4>3. ~Touching(slots'[k], s[o])
        BY <2>1, <4>1, <4>2, JoinedTouches
      <4> QED
        BY <3>2, <3>4, <4>3, TouchingSymmetric
    <3>5. CASE j # k
      <4>1. /\ Source(j, p, n) \in 0..(n - 1)
            /\ Source(j, p, n) # o
            /\ slots'[j] = s[Source(j, p, n)]
        BY <2>1, <2>3, <3>1, <3>5, SourceRange DEF o
      <4> QED
        BY <3>2, <3>3, <4>1
    <3> QED
      BY <3>4, <3>5
  <2>4. currSize' - 1 = n - 2
    BY <2>1, Sizings
  <2> QED
    BY <2>3, <2>4 DEF Behind
<1> QED
  BY <1>1, <1>2

LEMMA MergeNonEmpty ==
  ASSUME NEW s \in SlotArray, NEW n \in 1..Slots, NEW p \in 0..(n - 1),
         FastMergeMemBlocks(s, n, p), NonEmpty(s, n)
  PROVE  NonEmpty(slots', currSize')
<1>1. CASE slots' = s /\ currSize' = n
  BY <1>1 DEF NonEmpty
<1>2. ASSUME Usable > 0,
             NEW k \in 0..(p - 1),
             Touching(s[k], s[p]),
             currSize' = n - 1,
             slots'[k] = Joined(s[k], s[p]),
             \A i \in 0..(n - 2) \ {k} : slots'[i] = s[Source(i, p, n)],
             NEW i \in 0..(n - 2)
      PROVE  slots'[i].size > 0
  <2>1. k \in 0..(n - 1) /\ n \in 0..Slots
    BY Sizings
  <2>2. s[k].size > 0 /\ s[p].size > 0 /\ s[k].size \in Nat /\ s[p].size \in Nat
    BY <1>2, <2>1, ListRegions DEF NonEmpty
  <2>3. CASE i = k
    BY <1>2, <2>2, <2>3 DEF Joined
  <2>4. CASE i # k
    BY <1>2, <2>4, SourceRange DEF NonEmpty
  <2> QED
    BY <2>3, <2>4
<1>3. \A m : m = n - 1 => m - 1 = n - 2
  BY Sizings
<1> QED
  BY <1>1, <1>2, <1>3, MergeShape DEF NonEmpty

-----------------------------------------------------------------------------
(* The steps.                                                              *)

LEMMA ResetListMerged ==
  ASSUME DataOK, ResetList
  PROVE  Merged'
<1>1. slots'[0].size = Usable /\ currSize' = 1
  <2>1. 0 \in 0..(Slots - 1)
    BY Sizings
  <2> QED
    BY <2>1, SizesTyped DEF ResetList, SlotArray
<1>2. \A i \in 0..(1 - 1) : i = 0
  OBVIOUS
<1>3. Usable' = Usable
  BY DEF Usable, U32
<1>4. NonEmpty(slots', 1) /\ Behind(slots', 1, merge')
  BY <1>1, <1>2 DEF NonEmpty, Behind
<1> QED
  BY <1>1, <1>3, <1>4 DEF Merged, NonEmpty

LEMMA UnchangedMerged ==
  ASSUME Merged, UNCHANGED <<slots, currSize, merge, coalesced>>
  PROVE  Merged'
<1>1. Usable' = Usable
  BY DEF Usable, U32
<1> QED
  BY <1>1 DEF Merged, NonEmpty, Behind

(* A smaller block that ends where the old one did touches nothing new:    *)
(* whatever ends where it starts would have overlapped the old one.        *)
LEMMA SplitMerged ==
  ASSUME DataOK, Shape, Merged, NEW h \in Handles, NEW size \in Sizes,
         NEW alignment \in Alignments, NEW i \in FreeIndices,
         AllocateSplit(h, size, alignment, i)
  PROVE  Merged'
<1> DEFINE n == RequiredSize(size, alignment)
           b == slots[i]
           rest == [offset |-> b.offset + n, size |-> b.size - n]
<1>1. /\ n \in Nat /\ n > 0 /\ n < b.size
      /\ i \in 0..(Slots - 1) /\ i \in 0..(currSize - 1)
      /\ b \in MemBlock /\ Region(b) /\ currSize > 0
  <2>1. n < b.size
    BY DEF AllocateSplit
  <2>2. n \in Nat /\ n > 0
    BY RequiredSizeType, ConstantsAssumption
  <2>3. i \in 0..(Slots - 1) /\ i \in 0..(currSize - 1) /\ b \in MemBlock
    BY SlotInUse DEF FreeIndices
  <2> QED
    BY <2>1, <2>2, <2>3, RegionTypes, SizesTyped
<1>2. End(b) <= Usable
  BY <1>1 DEF Shape, SharesBuffer
<1>3. U32(n) = n /\ U32(b.size - n) = b.size - n
  <2>1. n <= Usable /\ b.size - n \in Nat /\ b.size - n <= Usable
    BY <1>1, <1>2, UsableRange DEF Region, End
  <2> QED
    BY <1>1, <2>1, U32Small
<1>4. /\ slots' = [slots EXCEPT ![i] = rest]
      /\ merge = Idle
      /\ UNCHANGED <<currSize, merge, coalesced>>
  BY <1>3 DEF AllocateSplit, Found, Running, HandOut
<1>5. /\ slots'[i] = rest
      /\ \A j \in 0..(currSize - 1) \ {i} : slots'[j] = slots[j]
  BY <1>1, <1>4, SizesTyped DEF SlotArray
<1>6. rest.offset = b.offset + n /\ rest.size = b.size - n
  OBVIOUS
<1> HIDE DEF rest, n
<1>7. Usable > 0
  BY <1>1, <1>2, UsableRange DEF Region, End
<1>8. \A j \in 0..(currSize - 1) : Region(slots[j]) /\ slots[j].size > 0
  <2>1. currSize \in 0..Slots /\ slots \in SlotArray
    BY SizesTyped
  <2> QED
    BY <1>7, <2>1, ListRegions DEF Merged, NonEmpty
<1>9. NonEmpty(slots', currSize')
  <2>1. rest.size > 0
    BY <1>1, <1>6 DEF Region
  <2> QED
    BY <1>4, <1>5, <1>8, <2>1 DEF NonEmpty
<1>10. ASSUME coalesced, NEW j \in 0..(currSize - 1), j # i
       PROVE  ~Touching(rest, slots[j]) /\ ~Touching(slots[j], rest)
  <2>1. ~Touching(b, slots[j])
    BY <1>1, <1>4, <1>10 DEF Merged, Behind, Idle
  <2>2. ~Overlap(b, slots[j])
    BY <1>1, <1>10 DEF Shape, SharesBuffer, ListApart
  <2>3. ~Touching(rest, slots[j])
    BY <1>1, <1>6, <1>8, <2>1, <2>2 DEF Touching, Overlap, End, Region
  <2> QED
    BY <2>3, TouchingSymmetric
<1>11. ASSUME coalesced, NEW j \in 0..(currSize - 1), NEW k \in 0..(currSize - 1), j # k
       PROVE  ~Touching(slots'[j], slots'[k])
  <2>1. \A j1, k1 \in 0..(currSize - 1) : j1 # k1 => ~Touching(slots[j1], slots[k1])
    BY <1>4, <1>11 DEF Merged, Behind, Idle
  <2> QED
    BY <1>5, <1>10, <1>11, <2>1
<1>12. merge' # Idle \/ coalesced' => Behind(slots', currSize', merge')
  BY <1>4, <1>11 DEF Behind
<1>13. Usable' = Usable
  BY DEF Usable, U32
<1> QED
  BY <1>9, <1>12, <1>13 DEF Merged, NonEmpty

LEMMA FreeMerged ==
  ASSUME DataOK, Shape, Merged, NEW h \in Handles, Free(h)
  PROVE  Merged'
<1> DEFINE s == [slots EXCEPT ![currSize] =
                   [offset |-> U32(block[h].offset), size |-> block[h].header]]
<1>1. /\ block[h] # NoBlock /\ currSize # Slots
      /\ merge = Idle /\ coalesced' = FALSE
      /\ \/ /\ FastMergeMemBlocks(s, currSize + 1, currSize)
            /\ merge' = merge
         \/ /\ slots' = s /\ currSize' = currSize + 1
            /\ merge' = IF MergesAll(currSize + 1) THEN currSize ELSE Idle
  BY DEF Free, ShouldFullMerge, Running
<1>2. s \in SlotArray /\ currSize \in 0..(Slots - 1)
  BY <1>1, PushShares
<1>3. s[currSize].size > 0 /\ \A i \in 0..(currSize - 1) : s[i] = slots[i]
  <2>1. block[h].header > 0
    BY <1>1, SizesTyped, ConstantsAssumption DEF Shape, WellHeld, Held
  <2>2. \A i \in 0..(currSize - 1) : i \in 0..(Slots - 1) /\ i # currSize
    BY <1>2, Sizings
  <2>3. s[currSize].size = block[h].header
    BY <1>2, SizesTyped DEF SlotArray
  <2>4. \A i \in 0..(currSize - 1) : s[i] = slots[i]
    BY <2>2, SizesTyped DEF SlotArray
  <2> QED
    BY <2>1, <2>3, <2>4
<1> HIDE DEF s
<1>4. NonEmpty(s, currSize + 1)
  <2>1. \A i \in 0..((currSize + 1) - 1) : i = currSize \/ i \in 0..(currSize - 1)
    BY <1>2, Sizings
  <2> QED
    BY <1>3, <2>1 DEF NonEmpty, Merged
<1>5. currSize + 1 \in 1..Slots /\ currSize \in 0..((currSize + 1) - 1)
  BY <1>2, Sizings
<1>6. Usable' = Usable
  BY DEF Usable, U32
<1>7. CASE FastMergeMemBlocks(s, currSize + 1, currSize) /\ merge' = merge
  <2>1. NonEmpty(slots', currSize')
    BY <1>2, <1>4, <1>5, <1>7, MergeNonEmpty
  <2> QED
    BY <1>1, <1>6, <1>7, <2>1 DEF Merged, NonEmpty
<1>8. CASE slots' = s /\ currSize' = currSize + 1
           /\ merge' = (IF MergesAll(currSize + 1) THEN currSize ELSE Idle)
  <2>1. merge' # Idle => Behind(slots', currSize', merge')
    <3>1. merge' # Idle => merge' = currSize' - 1
      BY <1>2, <1>8, Sizings
    <3>2. \A i \in 0..(currSize' - 1) : ~(i > currSize' - 1)
      BY <1>2, <1>8, Sizings
    <3> QED
      BY <3>1, <3>2 DEF Behind
  <2>2. NonEmpty(slots', currSize')
    BY <1>4, <1>8
  <2> QED
    BY <1>1, <1>6, <2>1, <2>2 DEF Merged, NonEmpty
<1> QED
  BY <1>1, <1>7, <1>8

LEMMA FullMergeMerged ==
  ASSUME DataOK, Merged, FullMergeMemBlocks
  PROVE  Merged'
<1>1. merge' = currSize - 1 /\ UNCHANGED <<slots, currSize>> /\ currSize \in 0..Slots
  BY SizesTyped DEF FullMergeMemBlocks
<1>2. \A i \in 0..(currSize - 1) : ~(i > currSize - 1)
  BY <1>1, Sizings
<1>3. Usable' = Usable
  BY DEF Usable, U32
<1>4. Behind(slots', currSize', merge')
  BY <1>1, <1>2 DEF Behind
<1> QED
  BY <1>1, <1>3, <1>4 DEF Merged, NonEmpty

LEMMA MergeStepMerged ==
  ASSUME DataOK, Merged, MergeStep
  PROVE  Merged'
<1>1. merge \in 0..(currSize - 1) /\ currSize \in 1..Slots
  BY DEF DataOK, MergeStep, Idle
<1>2. /\ FastMergeMemBlocks(slots, currSize, merge)
      /\ merge # Idle
      /\ merge' = merge - 1
  BY DEF MergeStep
<1>3. slots \in SlotArray
  BY SizesTyped
<1>4. Behind(slots', currSize', merge')
  BY <1>1, <1>2, <1>3, MergeClears DEF Merged
<1>5. NonEmpty(slots', currSize')
  BY <1>1, <1>2, <1>3, MergeNonEmpty DEF Merged
<1>6. Usable' = Usable
  BY DEF Usable, U32
<1> QED
  BY <1>4, <1>5, <1>6 DEF Merged, NonEmpty

LEMMA MergedStep == DataOK /\ ShapeOK /\ MergedOK /\ [Next]_vars => MergedOK'
<1> SUFFICES ASSUME DataOK, ShapeOK, MergedOK, [Next]_vars, ~exactFit' PROVE Merged'
  BY DEF MergedOK
<1>1. CASE CallInit \/ Reset
  BY <1>1, ResetListMerged DEF CallInit, Reset
<1>2. CASE FullMergeMemBlocks
  <2>1. Merged
    BY <1>2 DEF FullMergeMemBlocks, MergedOK
  <2> QED
    BY <1>2, <2>1, FullMergeMerged
<1>3. CASE MergeStep
  <2>1. Merged
    BY <1>3 DEF MergeStep, MergedOK
  <2> QED
    BY <1>3, <2>1, MergeStepMerged
<1>4. ASSUME NEW h \in Handles, NEW size \in Sizes, NEW alignment \in Alignments,
             Allocate(h, size, alignment)
      PROVE  Merged'
  <2>1. CASE AllocateRefused(h, size, alignment)
    BY <2>1, UnchangedMerged DEF AllocateRefused, MergedOK
  <2>2. ASSUME NEW i \in FreeIndices, AllocateSplit(h, size, alignment, i)
        PROVE  Merged'
    <3>1. Shape /\ Merged
      BY <2>2 DEF AllocateSplit, ShapeOK, MergedOK
    <3> QED
      BY <2>2, <3>1, SplitMerged
  <2>3. ASSUME NEW i \in FreeIndices
        PROVE  ~AllocateExact(h, size, alignment, i)
    BY DEF AllocateExact
  <2>4. ASSUME NEW i \in FreeIndices,
               \/ AllocateUndefined(h, size, alignment, i)
               \/ AllocateMisaligned(h, size, alignment, i)
        PROVE  Merged'
    BY <2>4, UnchangedMerged DEF AllocateUndefined, AllocateMisaligned, MergedOK
  <2> QED
    BY <1>4, <2>1, <2>2, <2>3, <2>4 DEF Allocate
<1>5. ASSUME NEW h \in Handles, Free(h)
      PROVE  Merged'
  <2>1. Shape /\ Merged
    BY <1>5 DEF Free, ShapeOK, MergedOK
  <2> QED
    BY <1>5, <2>1, FreeMerged
<1>6. ASSUME NEW h \in Handles, FreeRefused(h) \/ FreeUndefined(h) \/ ClientWrite(h)
      PROVE  Merged'
  BY <1>6, UnchangedMerged DEF FreeRefused, FreeUndefined, ClientWrite, MergedOK
<1>7. CASE Stopped \/ UNCHANGED vars
  BY <1>7, UnchangedMerged DEF Stopped, vars, MergedOK
<1> QED
  BY <1>1, <1>2, <1>3, <1>4, <1>5, <1>6, <1>7 DEF Next

LEMMA InitMerged == Init => MergedOK
<1> SUFFICES ASSUME Init PROVE Merged
  BY DEF MergedOK
<1>1. currSize = 0 /\ \A i : i \notin 0..(0 - 1)
  BY DEF Init
<1> QED
  BY <1>1 DEF Merged, NonEmpty, Behind

LEMMA MergedInvariant == Spec => [](IInv /\ MergedOK)
<1>1. IInv => DataOK /\ ShapeOK
  BY DEF IInv, TypeOK
<1> QED
  BY <1>1, InitMerged, MergedStep, Inductive, PTL DEF Spec

-----------------------------------------------------------------------------
(* The theorems.                                                           *)

(* FullMergeMemBlocks leaves no two free blocks that touch, and Allocate   *)
(* keeps it so until the next Free, if it takes no block whole.            *)
THEOREM OnePassIsEnough == Spec => []OnePassMergesAll
<1>1. DataOK /\ MergedOK => OnePassMergesAll
  <2> SUFFICES ASSUME DataOK, Merged, coalesced, merge = Idle,
                      NEW i \in FreeIndices, NEW j \in FreeIndices, i # j
               PROVE  ~Touching(slots[i], slots[j])
    BY DEF OnePassMergesAll, SomeTouch, MergedOK
  <2> QED
    BY DEF Merged, Behind, Idle, FreeIndices
<1>2. IInv => DataOK
  BY DEF IInv, TypeOK
<1> QED
  BY <1>1, <1>2, MergedInvariant, PTL

(* A free list without touching blocks that covers the whole buffer is one *)
(* block.                                                                  *)
LEMMA OneBlockLeft ==
  ASSUME DataOK, Shape, Merged, coalesced, merge = Idle, currSize > 0,
         \A h \in Handles : block[h] = NoBlock
  PROVE  currSize = 1 /\ slots[0].offset = 0 /\ slots[0].size = Usable
<1> DEFINE I == 0..(currSize - 1)
<1>1. \A i \in I : Region(slots[i])
  BY SizesTyped, ListRegions
<1>2. /\ \A i, j \in I : i # j => ~Overlap(slots[i], slots[j]) /\ ~Touching(slots[i], slots[j])
      /\ \A i \in I : End(slots[i]) <= Usable
  BY DEF Shape, SharesBuffer, ListApart, Merged, Behind, Idle
<1>3. \A x \in 0..(Usable - 1) : \E i \in I : Contains(slots[i], x)
  BY NoBlockEmpty, UsableRange DEF Shape, SharesBuffer
<1>4. 0 \in I /\ \A i \in I : i \in Nat /\ (i # 0 => currSize > 1)
  BY SizesTyped, Sizings
<1> SUFFICES ASSUME TRUE
    PROVE  \E i \in I : /\ \A j \in I : j = i
                        /\ slots[i].offset = 0 /\ slots[i].size = Usable
  <2>1. ASSUME NEW i \in I, \A j \in I : j = i, slots[i].offset = 0, slots[i].size = Usable
        PROVE  currSize = 1 /\ slots[0].offset = 0 /\ slots[0].size = Usable
    <3>1. i = 0
      BY <1>4, <2>1
    <3>2. ASSUME currSize # 1 PROVE FALSE
      <4>1. 1 \in I
        BY <3>2, SizesTyped, Sizings
      <4> QED
        BY <2>1, <3>1, <4>1
    <3> QED
      BY <2>1, <3>1, <3>2
  <2> QED
    BY <2>1
<1>5. CASE Usable = 0
  <2>1. \A i \in I : slots[i].offset = 0 /\ slots[i].size = 0
    BY <1>1, <1>2, <1>5 DEF End, Region
  <2>2. \A i, j \in I : Touching(slots[i], slots[j])
    BY <2>1 DEF Touching, End
  <2> QED
    BY <1>2, <1>4, <1>5, <2>1, <2>2
<1>6. CASE Usable > 0
  <2>1. \A i \in I : slots[i].size > 0
    BY <1>6 DEF Merged, NonEmpty
  <2>2. 0 \in 0..(Usable - 1)
    BY <1>6, UsableRange
  <2>3. PICK i \in I : Contains(slots[i], 0)
    BY <1>3, <2>2
  <2>4. slots[i].offset = 0
    BY <1>1, <2>3 DEF Contains, Region
  <2>5. End(slots[i]) = Usable
    <3> SUFFICES ASSUME End(slots[i]) # Usable PROVE FALSE
      OBVIOUS
    <3>1. End(slots[i]) \in 0..(Usable - 1)
      BY <1>1, <1>2, UsableRange DEF End, Region
    <3>2. PICK j \in I : Contains(slots[j], End(slots[i]))
      BY <1>3, <3>1
    <3>3. j # i
      BY <1>1, <3>2 DEF Contains, End, Region
    <3>4. ~Overlap(slots[i], slots[j]) /\ ~Touching(slots[i], slots[j])
      BY <1>2, <3>3
    <3> QED
      BY <1>1, <2>1, <2>4, <3>2, <3>4 DEF Overlap, Touching, Contains, End, Region
  <2>6. slots[i].size = Usable
    BY <1>1, <2>4, <2>5 DEF End, Region
  <2>7. ASSUME NEW j \in I, j # i PROVE FALSE
    <3>1. ~Overlap(slots[i], slots[j]) /\ End(slots[j]) <= Usable
      BY <1>2, <2>7
    <3> QED
      BY <1>1, <2>1, <2>4, <2>5, <3>1 DEF Overlap, End, Region
  <2> QED
    BY <2>4, <2>6, <2>7
<1> QED
  BY <1>5, <1>6, UsableRange

(* The check at the end of the allocator's test: once the client has freed *)
(* everything and called FullMergeMemBlocks, IsFullyMerged() is true, for  *)
(* every order of calls without an exact fit, when the size of the buffer  *)
(* fits in 32 bits.                                                        *)
THEOREM FullMergeIsFull ==
  ASSUME TotalSize < Uint32
  PROVE  Spec => []FullMergeRestoresBuffer
<1>1. Usable = TotalSize
  <2>1. TotalSize \in 0..(Uint32 - 1)
    BY ConstantsAssumption
  <2> QED
    BY <2>1, ModSmall, Sizings DEF Usable, U32
<1>2. IInv /\ MergedOK => FullMergeRestoresBuffer
  <2> SUFFICES ASSUME IInv, MergedOK, ~exactFit, coalesced, merge = Idle, currSize > 0,
                      \A h \in Handles : block[h] = NoBlock
               PROVE  IsFullyMerged
    BY DEF FullMergeRestoresBuffer
  <2>1. DataOK /\ Shape /\ Merged
    BY DEF IInv, TypeOK, ShapeOK, MergedOK
  <2> QED
    BY <1>1, <2>1, OneBlockLeft DEF IsFullyMerged
<1> QED
  BY <1>2, MergedInvariant, PTL

-----------------------------------------------------------------------------
(* Room in the slot array.                                                 *)

(* More slots than the client has pointers, and a Free that merges all     *)
(* blocks at the latest when the array fills up: what the array is sized   *)
(* for.                                                                    *)
Roomy ==
  /\ IsFiniteSet(Handles)
  /\ Cardinality(Handles) < Slots /\ Slots > 1
  /\ MergePolicy # "FAST_MERGE"

SomeoneIdle == \E h \in Handles : block[h] = NoBlock

(* The array may only be full while everything is merged, and then a block *)
(* has just been freed.                                                    *)
Room == currSize < Slots \/ (merge # Idle /\ SomeoneIdle)

RoomOK == ~exactFit => Room

(* When no free block touches another, each but the topmost is followed by *)
(* a block of the client: there are at most as many as its pointers, if    *)
(* one of these is idle.                                                   *)
LEMMA FewBlocks ==
  ASSUME Roomy, NEW s \in SlotArray, NEW n \in 0..Slots,
         NEW held, \A h \in Handles : Region(held[h]),
         n > 0 => SharesBuffer(s, n, held), NonEmpty(s, n), Behind(s, n, Idle),
         \E h \in Handles : held[h] = NoBlock
  PROVE  n < Slots
<1> DEFINE I == 0..(n - 1)
<1>1. /\ n \in 0..Slots /\ Usable \in Nat
      /\ \A i \in I : Region(s[i]) /\ s[i].offset \in Nat /\ s[i].size \in Nat
      /\ \A h \in Handles : Region(held[h])
  <2>1. \A i \in I : Region(s[i])
    BY ListRegions
  <2> QED
    BY <2>1, UsableRange DEF Region
<1>2. \A i, j \in I : i # j => ~Touching(s[i], s[j])
  BY DEF Behind, Idle
<1> SUFFICES ASSUME n = Slots PROVE FALSE
  BY <1>1, Sizings
<1>3. Slots \in Nat /\ Slots > 1 /\ 0 \in I /\ 1 \in I
  BY Sizings DEF Roomy
<1>4. /\ \A i, j \in I : i # j => ~Overlap(s[i], s[j])
      /\ \A i \in I, g \in Handles : ~Overlap(s[i], held[g])
      /\ \A i \in I : End(s[i]) <= Usable
      /\ \A x \in 0..(Usable - 1) : \/ \E i \in I : Contains(s[i], x)
                                    \/ \E g \in Handles : Contains(held[g], x)
  BY <1>3 DEF SharesBuffer, ListApart
<1>5. Usable > 0
  <2> SUFFICES ASSUME Usable = 0 PROVE FALSE
    BY <1>1
  <2>1. \A i \in I : s[i].offset = 0 /\ End(s[i]) = 0
    BY <1>1, <1>4 DEF End
  <2>2. Touching(s[0], s[1])
    BY <1>3, <2>1 DEF Touching
  <2> QED
    BY <1>2, <1>3, <2>2
<1>6. \A i \in I : s[i].size > 0
  BY <1>5 DEF NonEmpty
<1>7. PICK idle \in Handles : held[idle] = NoBlock
  OBVIOUS
(* The block that begins where a free one ends.                            *)
<1>8. ASSUME NEW i \in I, End(s[i]) # Usable
      PROVE  \E h \in Handles : held[h] # NoBlock /\ held[h].offset = End(s[i])
  <2>1. End(s[i]) \in 0..(Usable - 1)
    <3>1. End(s[i]) <= Usable /\ End(s[i]) # Usable
      BY <1>4, <1>8
    <3>2. End(s[i]) \in Nat
      BY <1>1 DEF End
    <3> QED
      BY <1>1, <3>1, <3>2
  <2>2. ASSUME NEW j \in I
        PROVE  ~Contains(s[j], End(s[i]))
    <3>1. CASE j = i
      BY <1>1, <3>1 DEF Contains, End
    <3>2. CASE j # i
      <4>1. ~Overlap(s[i], s[j]) /\ ~Touching(s[i], s[j])
        BY <1>2, <1>4, <3>2
      <4> QED
        BY <1>1, <1>6, <4>1 DEF Overlap, Touching, Contains, End
    <3> QED
      BY <3>1, <3>2
  <2>3. PICK h \in Handles : Contains(held[h], End(s[i]))
    BY <1>4, <2>1, <2>2
  <2>4. ~Overlap(s[i], held[h])
    BY <1>4
  <2>5. held[h].offset = End(s[i])
    BY <1>1, <1>6, <2>3, <2>4 DEF Overlap, Contains, End, Region
  <2>6. held[h] # NoBlock
    BY <2>1, <2>3, NoBlockEmpty
  <2> QED
    BY <2>5, <2>6
<1> DEFINE above == [i \in I |-> IF End(s[i]) = Usable THEN idle
                       ELSE CHOOSE h \in Handles :
                              held[h] # NoBlock /\ held[h].offset = End(s[i])]
<1>9. ASSUME NEW i \in I
      PROVE  /\ above[i] \in Handles
             /\ End(s[i]) = Usable => above[i] = idle
             /\ End(s[i]) # Usable => /\ held[above[i]] # NoBlock
                                          /\ held[above[i]].offset = End(s[i])
  BY <1>7, <1>8
<1>10. above \in [I -> Handles]
  BY <1>9
<1> HIDE DEF above
<1>11. Cardinality(I) = Slots /\ IsFiniteSet(I)
  BY <1>3, FS_Interval
<1>12. PICK i, j \in I : i # j /\ above[i] = above[j]
  <2>1. Cardinality(Handles) < Cardinality(I)
    BY <1>11 DEF Roomy
  <2>2. IsFiniteSet(Handles)
    BY DEF Roomy
  <2> HIDE DEF I
  <2>3. \E i, j \in I : i # j /\ above[i] = above[j]
    BY <1>10, <1>11, <2>1, <2>2, FS_PigeonHole
  <2> QED
    BY <2>3
<1>13. End(s[i]) = End(s[j])
  BY <1>7, <1>9, <1>12
<1> QED
  BY <1>1, <1>4, <1>6, <1>12, <1>13 DEF Overlap, End

LEMMA RoomStep ==
  ASSUME Roomy, DataOK, ShapeOK, MergedOK, RoomOK, [Next]_vars,
         DataOK', ShapeOK', MergedOK', ~exactFit'
  PROVE  Room'
<1>1. CASE CallInit \/ Reset
  BY <1>1, Sizings DEF CallInit, Reset, ResetList, Room, Roomy
<1>2. CASE FullMergeMemBlocks
  BY <1>2 DEF FullMergeMemBlocks, Running, RoomOK, Room
<1>3. CASE MergeStep
  <2>1. /\ merge \in 0..(currSize - 1) /\ currSize \in 1..Slots
        /\ FastMergeMemBlocks(slots, currSize, merge)
        /\ merge' = merge - 1
        /\ UNCHANGED <<block, exactFit>>
    BY <1>3 DEF DataOK, MergeStep, Idle
  <2>2. slots \in SlotArray
    BY SizesTyped
  <2>3. currSize' <= currSize /\ currSize' \in 0..Slots
    <3>1. currSize' = currSize \/ currSize' = currSize - 1
      BY <2>1, <2>2, MergeShape
    <3> QED
      BY <2>1, <3>1, Sizings
  <2>4. CASE currSize < Slots
    BY <2>1, <2>3, <2>4, Sizings DEF Room
  <2>5. CASE SomeoneIdle
    <3>1. SomeoneIdle'
      BY <2>1, <2>5 DEF SomeoneIdle
    <3>2. CASE merge' # Idle
      BY <3>1, <3>2 DEF Room
    <3>3. CASE merge' = Idle
      <4>1. coalesced'
        <5>1. merge = 0
          BY <2>1, <3>3, SizesTyped, Sizings DEF Idle
        <5>2. coalesced' = (merge = 0)
          BY <1>3, Zenon DEF MergeStep
        <5> QED
          BY <5>1, <5>2, Zenon
      <4>2. Shape' /\ Merged'
        BY DEF ShapeOK, MergedOK
      <4>3. NonEmpty(slots', currSize') /\ Behind(slots', currSize', Idle)
        <5>1. Usable' = Usable
          BY DEF Usable, U32
        <5> QED
          BY <3>3, <4>1, <4>2, <5>1 DEF Merged, NonEmpty
      <4>4. currSize' > 0 => SharesBuffer(slots', currSize', block')
        <5>1. Usable' = Usable
          BY DEF Usable, U32
        <5> QED
          BY <4>2, <5>1 DEF Shape, SharesBuffer
      <4>5. currSize' < Slots
        <5>1. slots' \in SlotArray
          BY DEF DataOK, SlotArray
        <5>2. \A h \in Handles : Region(block'[h])
          BY <2>1, HeldRegion
        <5>3. \E h \in Handles : block'[h] = NoBlock
          BY <3>1 DEF SomeoneIdle
        <5> QED
          BY <2>3, <4>3, <4>4, <5>1, <5>2, <5>3, FewBlocks
      <4> QED
        BY <4>5 DEF Room
    <3> QED
      BY <3>2, <3>3
  <2>6. RoomOK /\ ~exactFit
    BY <2>1
  <2> QED
    BY <2>4, <2>5, <2>6 DEF RoomOK, Room
<1>4. ASSUME UNCHANGED <<currSize, merge, exactFit>>, merge = Idle
      PROVE  Room'
  BY <1>4 DEF RoomOK, Room
<1>5. ASSUME NEW h \in Handles, NEW size \in Sizes, NEW alignment \in Alignments,
             Allocate(h, size, alignment)
      PROVE  Room'
  <2>1. \A i \in FreeIndices : ~AllocateExact(h, size, alignment, i)
    BY DEF AllocateExact
  <2>2. merge = Idle /\ UNCHANGED <<currSize, merge, exactFit>>
    BY <1>5, <2>1 DEF Allocate, AllocateRefused, AllocateSplit, AllocateUndefined,
                      AllocateMisaligned, Found, Running, HandOut
  <2> QED
    BY <1>4, <2>2
<1>6. ASSUME NEW h \in Handles, FreeRefused(h) \/ FreeUndefined(h) \/ ClientWrite(h)
      PROVE  Room'
  BY <1>4, <1>6 DEF FreeRefused, FreeUndefined, ClientWrite, Running
<1>7. ASSUME NEW h \in Handles, Free(h)
      PROVE  Room'
  <2>1. /\ merge = Idle /\ exactFit' = exactFit
        /\ block' = [block EXCEPT ![h] = NoBlock]
        /\ currSize' = currSize + 1
        /\ merge' = IF MergesAll(currSize + 1) THEN currSize ELSE Idle
    BY <1>7 DEF Free, Running, Roomy
  <2>2. SomeoneIdle'
    BY <2>1, SizesTyped DEF SomeoneIdle
  <2>3. currSize \in 0..(Slots - 1)
    BY <2>1, SizesTyped, Sizings DEF RoomOK, Room
  <2>4. CASE MergesAll(currSize + 1)
    BY <2>1, <2>2, <2>3, <2>4 DEF Room, Idle
  <2>5. CASE ~MergesAll(currSize + 1)
    BY <2>3, <2>1, <2>5, ConstantsAssumption DEF Room, MergesAll, Roomy
  <2> QED
    BY <2>4, <2>5
<1>8. CASE Stopped \/ UNCHANGED vars
  <2>1. UNCHANGED <<currSize, merge, exactFit, block>>
    BY <1>8 DEF Stopped, vars
  <2> QED
    BY <2>1 DEF RoomOK, Room, SomeoneIdle
<1> QED
  BY <1>1, <1>2, <1>3, <1>5, <1>6, <1>7, <1>8 DEF Next

LEMMA RoomInvariant == ASSUME Roomy PROVE Spec => []RoomOK
<1> DEFINE Merging == IInv /\ MergedOK
<1>1. Init => RoomOK
  BY Sizings DEF Init, RoomOK, Room
<1>2. Merging /\ Merging' /\ RoomOK /\ [Next]_vars => RoomOK'
  <2>1. IInv => DataOK /\ ShapeOK
    BY DEF IInv, TypeOK
  <2>2. IInv' => DataOK' /\ ShapeOK'
    BY DEF IInv, TypeOK
  <2> QED
    BY <2>1, <2>2, RoomStep DEF RoomOK
<1>3. Spec => []Merging
  BY MergedInvariant
<1> HIDE DEF Merging
<1> QED
  BY <1>1, <1>2, <1>3, PTL DEF Spec

(* The array of free blocks is never full when a call starts, until an     *)
(* exact fit breaks the list: Free always finds a slot.                    *)
THEOREM ArrayHasRoom == ASSUME Roomy PROVE Spec => []ArrayNeverFull
<1>1. IInv /\ RoomOK => ArrayNeverFull
  BY DEF RoomOK, Room, ArrayNeverFull
<1> QED
  BY <1>1, RoomInvariant, Inductive, PTL

-----------------------------------------------------------------------------
(* Alignment.                                                              *)

(* Multiples of a, as % finds them.                                        *)
LEMMA MultipleOf ==
  ASSUME NEW x \in Int, NEW a \in Nat \ {0}
  PROVE  x % a = 0 <=> \E q \in Int : x = q * a
<1>1. ASSUME x % a = 0
      PROVE  \E q \in Int : x = q * a
  <2>1. x = (x \div a) * a + (x % a) /\ x \div a \in Int
    OBVIOUS
  <2>2. x = (x \div a) * a
    BY <1>1, <2>1
  <2> QED
    BY <2>1, <2>2, Zenon
<1>2. ASSUME NEW q \in Int, x = q * a
      PROVE  x % a = 0
  BY <1>2
<1> QED
  BY <1>1, <1>2

LEMMA SumOfMultiples ==
  ASSUME NEW a \in Nat \ {0}, NEW x \in Int, NEW y \in Int, x % a = 0, y % a = 0
  PROVE  (x + y) % a = 0
<1>1. PICK q \in Int : x = q * a
  BY MultipleOf
<1>2. PICK r \in Int : y = r * a
  BY MultipleOf
<1>3. x + y = (q + r) * a /\ q + r \in Int
  BY <1>1, <1>2
<1> QED
  BY <1>3, MultipleOf

(* All requests are for one alignment, to which headers do no harm.        *)
OneAlignment ==
  /\ \A a, b \in Alignments : a = b
  /\ \A a \in Alignments : HeaderSize % a = 0
  /\ \A size \in Sizes : size < Uint32

(* Every block begins at a multiple of that alignment.                     *)
OnGrid(s, n, a) == \A i \in 0..(n - 1) : s[i].offset % a = 0

Grid ==
  \A a \in Alignments :
    OnGrid(slots, currSize, a) /\ \A h \in Handles : block[h].offset % a = 0

GridOK == ~exactFit => Grid

LEMMA GridTypes ==
  ASSUME OneAlignment, NEW a \in Alignments
  PROVE  /\ a \in Nat \ {0} /\ HeaderSize \in Nat /\ HeaderSize % a = 0
         /\ 0 % a = 0 /\ NoBlock.offset % a = 0
         /\ \A b \in Alignments : b = a
<1>1. a \in Nat \ {0} /\ HeaderSize \in Nat
  BY ConstantsAssumption
<1>2. 0 % a = 0
  BY <1>1
<1> QED
  BY <1>1, <1>2 DEF OneAlignment, NoBlock

(* What a request takes is a multiple of its alignment.                    *)
LEMMA RequiredOnGrid ==
  ASSUME OneAlignment, NEW size \in Sizes, NEW alignment \in Alignments
  PROVE  RequiredSize(size, alignment) % alignment = 0
<1>1. alignment \in Nat \ {0} /\ HeaderSize \in Nat /\ size \in Nat
  BY ConstantsAssumption
<1>2. U32(size) = size
  <2>1. size \in 0..(Uint32 - 1)
    BY <1>1, Sizings DEF OneAlignment
  <2> QED
    BY <2>1, ModSmall, Sizings DEF U32
<1> DEFINE s == HeaderSize + size
<1>3. /\ s = (s \div alignment) * alignment + (s % alignment)
      /\ s \div alignment \in Int /\ s % alignment \in Int /\ s \in Int
  <2>1. s \in Int
    BY <1>1
  <2> HIDE DEF s
  <2> QED
    BY <1>1, <2>1
<1>4. RequiredSize(size, alignment) = s + (alignment - (s % alignment))
  BY <1>1, <1>2, <1>3 DEF RequiredSize, Padding
<1> HIDE DEF s
<1>5. RequiredSize(size, alignment) = (s \div alignment + 1) * alignment
      /\ s \div alignment + 1 \in Int
  BY <1>1, <1>3, <1>4
<1>6. RequiredSize(size, alignment) \in Int
  BY RequiredSizeType
<1> QED
  BY <1>1, <1>5, <1>6, MultipleOf

(* Merging keeps one of two offsets.                                       *)
LEMMA MergeOnGrid ==
  ASSUME NEW s \in SlotArray, NEW n \in 1..Slots, NEW p \in 0..(n - 1),
         FastMergeMemBlocks(s, n, p), NEW a, OnGrid(s, n, a)
  PROVE  OnGrid(slots', currSize', a)
<1>1. CASE slots' = s /\ currSize' = n
  BY <1>1 DEF OnGrid
<1>2. ASSUME NEW k \in 0..(p - 1),
             currSize' = n - 1,
             slots'[k] = Joined(s[k], s[p]),
             \A i \in 0..(n - 2) \ {k} : slots'[i] = s[Source(i, p, n)],
             NEW i \in 0..(n - 2)
      PROVE  slots'[i].offset % a = 0
  <2>1. k \in 0..(n - 1)
    BY Sizings
  <2>2. CASE i = k
    BY <1>2, <2>1, <2>2 DEF Joined, OnGrid
  <2>3. CASE i # k
    <3>1. i \in 0..(n - 2) \ {k}
      BY <2>3
    <3>2. Source(i, p, n) \in 0..(n - 1)
      BY <3>1, SourceRange
    <3>3. slots'[i] = s[Source(i, p, n)]
      BY <1>2, <3>1
    <3> QED
      BY <3>2, <3>3 DEF OnGrid
  <2> QED
    BY <2>2, <2>3
<1>3. \A m : m = n - 1 => m - 1 = n - 2
  BY Sizings
<1> QED
  BY <1>1, <1>2, <1>3, MergeShape DEF OnGrid

LEMMA ResetListGrid ==
  ASSUME OneAlignment, DataOK, ResetList
  PROVE  Grid'
<1> SUFFICES ASSUME NEW a \in Alignments
             PROVE  OnGrid(slots', currSize', a) /\ \A h \in Handles : block'[h].offset % a = 0
  BY DEF Grid, OnGrid
<1>1. slots'[0].offset = 0 /\ currSize' = 1
  <2>1. 0 \in 0..(Slots - 1)
    BY Sizings
  <2> QED
    BY <2>1, SizesTyped DEF ResetList, SlotArray
<1>2. \A i \in 0..(1 - 1) : i = 0
  OBVIOUS
<1>3. \A h \in Handles : block'[h] = NoBlock
  BY DEF ResetList
<1> QED
  BY <1>1, <1>2, <1>3, GridTypes DEF OnGrid

LEMMA SplitGrid ==
  ASSUME OneAlignment, DataOK, Shape, Grid, NEW h \in Handles, NEW size \in Sizes,
         NEW alignment \in Alignments, NEW i \in FreeIndices,
         AllocateSplit(h, size, alignment, i)
  PROVE  Grid'
<1> DEFINE n == RequiredSize(size, alignment)
           b == slots[i]
<1> SUFFICES ASSUME NEW a \in Alignments
             PROVE  /\ OnGrid(slots', currSize', a)
                    /\ \A g \in Handles : block'[g].offset % a = 0
  BY DEF Grid, OnGrid
<1>1. /\ n \in Nat /\ n < b.size
      /\ i \in 0..(Slots - 1) /\ i \in 0..(currSize - 1) /\ currSize > 0
      /\ b.offset \in Nat /\ b.size \in Nat
  <2>1. n < b.size
    BY DEF AllocateSplit
  <2>2. i \in 0..(Slots - 1) /\ i \in 0..(currSize - 1) /\ b \in MemBlock
    BY SlotInUse DEF FreeIndices
  <2> QED
    BY <2>1, <2>2, RequiredSizeType, SizesTyped DEF MemBlock
<1>2. U32(n) = n
  <2>1. End(b) <= Usable
    BY <1>1 DEF Shape, SharesBuffer
  <2> QED
    BY <1>1, <2>1, UsableRange, U32Small DEF End
<1>3. a \in Nat \ {0} /\ b.offset % a = 0 /\ n % a = 0
  BY <1>1, GridTypes, RequiredOnGrid DEF Grid, OnGrid
<1>4. (b.offset + n) % a = 0
  BY <1>1, <1>3, SumOfMultiples
<1>5. /\ slots'[i].offset = b.offset + n
      /\ \A j \in 0..(currSize - 1) \ {i} : slots'[j] = slots[j]
      /\ currSize' = currSize
  <2>1. /\ slots' = [slots EXCEPT
                      ![i] = [offset |-> b.offset + n, size |-> U32(b.size - n)]]
        /\ currSize' = currSize
    BY <1>2 DEF AllocateSplit
  <2> HIDE DEF n
  <2> QED
    BY <1>1, <2>1, SizesTyped DEF SlotArray
<1>6. OnGrid(slots', currSize', a)
  BY <1>4, <1>5 DEF Grid, OnGrid
<1>7. \A g \in Handles : block'[g].offset = IF g = h THEN b.offset ELSE block[g].offset
  BY SizesTyped DEF AllocateSplit, HandOut, Held
<1> QED
  BY <1>3, <1>6, <1>7 DEF Grid

LEMMA FreeGrid ==
  ASSUME OneAlignment, DataOK, Shape, Grid, NEW h \in Handles, Free(h)
  PROVE  Grid'
<1> DEFINE s == [slots EXCEPT ![currSize] =
                   [offset |-> U32(block[h].offset), size |-> block[h].header]]
<1> SUFFICES ASSUME NEW a \in Alignments
             PROVE  /\ OnGrid(slots', currSize', a)
                    /\ \A g \in Handles : block'[g].offset % a = 0
  BY DEF Grid, OnGrid
<1>1. /\ block[h] # NoBlock /\ currSize # Slots
      /\ block' = [block EXCEPT ![h] = NoBlock]
      /\ \/ FastMergeMemBlocks(s, currSize + 1, currSize)
         \/ slots' = s /\ currSize' = currSize + 1
  BY DEF Free, ShouldFullMerge
<1>2. s \in SlotArray /\ currSize \in 0..(Slots - 1)
  BY <1>1, PushShares
<1>3. U32(block[h].offset) = block[h].offset
  <2>1. Region(block[h]) /\ End(block[h]) <= Usable
    BY HeldRegion DEF Shape, WellHeld
  <2>2. block[h].offset \in Nat /\ block[h].offset <= Usable
    BY <2>1, UsableRange DEF Region, End
  <2> QED
    BY <2>2, U32Small
<1>4. s[currSize].offset = block[h].offset /\ \A i \in 0..(currSize - 1) : s[i] = slots[i]
  <2>1. \A i \in 0..(currSize - 1) : i \in 0..(Slots - 1) /\ i # currSize
    BY <1>2, Sizings
  <2> QED
    BY <1>2, <1>3, <2>1, SizesTyped DEF SlotArray
<1> HIDE DEF s
<1>5. OnGrid(s, currSize + 1, a)
  <2>1. \A i \in 0..((currSize + 1) - 1) : i = currSize \/ i \in 0..(currSize - 1)
    BY <1>2, Sizings
  <2> QED
    BY <1>4, <2>1 DEF OnGrid, Grid
<1>6. OnGrid(slots', currSize', a)
  <2>1. currSize + 1 \in 1..Slots /\ currSize \in 0..((currSize + 1) - 1)
    BY <1>2, Sizings
  <2> QED
    BY <1>1, <1>2, <1>5, <2>1, MergeOnGrid
<1>7. \A g \in Handles : block'[g] = NoBlock \/ block'[g] = block[g]
  BY <1>1, SizesTyped
<1> QED
  BY <1>6, <1>7, GridTypes DEF Grid

LEMMA MergeStepGrid ==
  ASSUME DataOK, Grid, MergeStep
  PROVE  Grid'
<1>1. merge \in 0..(currSize - 1) /\ currSize \in 1..Slots
  BY DEF DataOK, MergeStep, Idle
<1>2. FastMergeMemBlocks(slots, currSize, merge) /\ block' = block
  BY DEF MergeStep
<1>3. slots \in SlotArray
  BY SizesTyped
<1>4. \A a \in Alignments : OnGrid(slots', currSize', a)
  BY <1>1, <1>2, <1>3, MergeOnGrid DEF Grid
<1> QED
  BY <1>2, <1>4 DEF Grid, OnGrid

LEMMA GridStep ==
  ASSUME OneAlignment, DataOK, ShapeOK, GridOK, [Next]_vars, ~exactFit'
  PROVE  Grid'
<1>1. CASE CallInit \/ Reset
  BY <1>1, ResetListGrid DEF CallInit, Reset
<1>2. ASSUME UNCHANGED <<slots, currSize, block, exactFit>>
      PROVE  Grid'
  BY <1>2 DEF GridOK, Grid, OnGrid
<1>3. CASE MergeStep
  <2>1. Grid
    BY <1>3 DEF MergeStep, GridOK
  <2> QED
    BY <1>3, <2>1, MergeStepGrid
<1>4. ASSUME NEW h \in Handles, NEW size \in Sizes, NEW alignment \in Alignments,
             Allocate(h, size, alignment)
      PROVE  Grid'
  <2>1. \A i \in FreeIndices : ~AllocateExact(h, size, alignment, i)
    BY DEF AllocateExact
  <2>2. ASSUME NEW i \in FreeIndices, AllocateSplit(h, size, alignment, i)
        PROVE  Grid'
    <3>1. Shape /\ Grid
      BY <2>2 DEF AllocateSplit, ShapeOK, GridOK
    <3> QED
      BY <2>2, <3>1, SplitGrid
  <2> QED
    BY <1>2, <1>4, <2>1, <2>2 DEF Allocate, AllocateRefused, AllocateUndefined,
                                  AllocateMisaligned
<1>5. ASSUME NEW h \in Handles, Free(h)
      PROVE  Grid'
  <2>1. Shape /\ Grid
    BY <1>5 DEF Free, ShapeOK, GridOK
  <2> QED
    BY <1>5, <2>1, FreeGrid
<1>6. ASSUME NEW h \in Handles, ClientWrite(h)
      PROVE  Grid'
  <2>1. WellHeld /\ block[h] # NoBlock
    BY <1>6 DEF ClientWrite, ShapeOK, Shape
  <2> QED
    BY <1>6, <2>1, NoHeaderHit
<1>7. ASSUME NEW h \in Handles, FreeRefused(h) \/ FreeUndefined(h)
      PROVE  Grid'
  BY <1>2, <1>7 DEF FreeRefused, FreeUndefined
<1>8. CASE FullMergeMemBlocks \/ Stopped \/ UNCHANGED vars
  BY <1>2, <1>8 DEF FullMergeMemBlocks, Stopped, vars
<1> QED
  BY <1>1, <1>3, <1>4, <1>5, <1>6, <1>7, <1>8 DEF Next

LEMMA GridInvariant == ASSUME OneAlignment PROVE Spec => []GridOK
<1>1. Init => GridOK
  <2> SUFFICES ASSUME Init, NEW a \in Alignments
               PROVE  OnGrid(slots, currSize, a) /\ \A h \in Handles : block[h].offset % a = 0
    BY DEF GridOK, Grid
  <2>1. currSize = 0 /\ \A i : i \notin 0..(0 - 1)
    BY DEF Init
  <2>2. \A h \in Handles : block[h] = NoBlock
    BY DEF Init
  <2> QED
    BY <2>1, <2>2, GridTypes DEF OnGrid
<1>2. IInv /\ GridOK /\ [Next]_vars => GridOK'
  <2>1. IInv => DataOK /\ ShapeOK
    BY DEF IInv, TypeOK
  <2> QED
    BY <2>1, GridStep DEF GridOK
<1> QED
  BY <1>1, <1>2, Inductive, PTL DEF Spec

-----------------------------------------------------------------------------
(* The asserts.                                                            *)

LEMMA AssertStep ==
  ASSUME OneAlignment, DataOK, ShapeOK, RoomOK, GridOK, AssertsHold, [Next]_vars
  PROVE  AssertsHold'
<1> DEFINE bad == {"no free slot", "misaligned", "bad header"}
<1> SUFFICES ASSUME ~exactFit' PROVE status' \notin bad
  BY DEF AssertsHold
<1>1. ASSUME status = "running", status' = status
      PROVE  status' \notin bad
  BY <1>1
<1>2. ASSUME NEW h \in Handles, NEW size \in Sizes, NEW alignment \in Alignments,
             Allocate(h, size, alignment)
      PROVE  status' \notin bad
  <2>1. CASE AllocateRefused(h, size, alignment)
    BY <2>1 DEF AllocateRefused, AssertFails, Running
  <2>2. ASSUME NEW i \in FreeIndices,
               \/ AllocateSplit(h, size, alignment, i)
               \/ AllocateExact(h, size, alignment, i)
        PROVE  status' \notin bad
    BY <1>1, <2>2 DEF AllocateSplit, AllocateExact, Found, HandOut, Running
  <2>3. ASSUME NEW i \in FreeIndices, AllocateUndefined(h, size, alignment, i)
        PROVE  status' \notin bad
    BY <2>3 DEF AllocateUndefined
  <2>4. ASSUME NEW i \in FreeIndices
        PROVE  ~AllocateMisaligned(h, size, alignment, i)
    <3> SUFFICES ASSUME AllocateMisaligned(h, size, alignment, i) PROVE FALSE
      OBVIOUS
    <3>1. ~DataAligned(slots[i].offset, alignment) /\ ~exactFit
      BY DEF AllocateMisaligned
    <3>2. i \in 0..(currSize - 1) /\ slots[i].offset \in Nat
      BY SlotInUse DEF FreeIndices, MemBlock
    <3>3. slots[i].offset % alignment = 0
      BY <3>1, <3>2 DEF GridOK, Grid, OnGrid
    <3>4. (slots[i].offset + HeaderSize) % alignment = 0
      BY <3>2, <3>3, GridTypes, SumOfMultiples
    <3> QED
      BY <3>1, <3>4 DEF DataAligned
  <2> QED
    BY <1>2, <2>1, <2>2, <2>3, <2>4 DEF Allocate
<1>3. ASSUME NEW h \in Handles, Free(h) \/ ClientWrite(h)
      PROVE  status' \notin bad
  BY <1>1, <1>3 DEF Free, ClientWrite, Running
(* A full array: only during a merge.                                      *)
<1>4. ASSUME NEW h \in Handles
      PROVE  ~FreeRefused(h)
  <2> SUFFICES ASSUME FreeRefused(h) PROVE FALSE
    OBVIOUS
  <2>1. currSize = Slots /\ merge = Idle /\ ~exactFit
    BY DEF FreeRefused, Running, ShouldFullMerge
  <2>2. currSize < Slots
    BY <2>1 DEF RoomOK, Room
  <2> QED
    BY <2>1, <2>2, Sizings
<1>5. ASSUME NEW h \in Handles
      PROVE  ~FreeUndefined(h)
  <2> SUFFICES ASSUME FreeUndefined(h) PROVE FALSE
    OBVIOUS
  <2>1. block[h] # NoBlock /\ block[h].header = 0 /\ Shape
    BY DEF FreeUndefined, Clobbered, ShapeOK
  <2>2. block[h].header > HeaderSize
    BY <2>1 DEF Shape, WellHeld
  <2> QED
    BY <2>1, <2>2, ConstantsAssumption
<1>6. CASE CallInit \/ Reset \/ FullMergeMemBlocks \/ MergeStep
  BY <1>1, <1>6 DEF CallInit, Reset, ResetList, FullMergeMemBlocks, MergeStep, Running
<1>7. CASE Stopped \/ UNCHANGED vars
  BY <1>7 DEF Stopped, vars, AssertsHold
<1> QED
  BY <1>2, <1>3, <1>4, <1>5, <1>6, <1>7 DEF Next

(* No assert stops the program but the one in Allocate on a lack of        *)
(* memory, and Free never reads an overwritten header, until an exact fit  *)
(* breaks the list.                                                        *)
THEOREM OnlyMemoryRunsOut == ASSUME Roomy, OneAlignment PROVE Spec => []AssertsHold
<1>1. Init => AssertsHold
  BY DEF Init, AssertsHold
<1>2. IInv /\ RoomOK /\ GridOK /\ AssertsHold /\ [Next]_vars => AssertsHold'
  <2>1. IInv => DataOK /\ ShapeOK
    BY DEF IInv, TypeOK
  <2> QED
    BY <2>1, AssertStep
<1> QED
  BY <1>1, <1>2, Inductive, RoomInvariant, GridInvariant, PTL DEF Spec

-----------------------------------------------------------------------------
(* The promise of the base class (AllocatorInterface.tla): each call is    *)
(* one abstract step or none, the iterations of the merge loop are         *)
(* invisible.                                                              *)

(* What the refinement mapping shows of the blocks.                        *)
Extents == [h \in Handles |-> [offset |-> block[h].offset, size |-> block[h].size]]

LEMMA SameBlocks ==
  ASSUME UNCHANGED <<used, block>>
  PROVE  UNCHANGED Interface!ifaceVars
BY DEF Interface!ifaceVars

LEMMA ResetForgets ==
  ASSUME ResetList
  PROVE  Interface!Forget
<1>1. block' = [h \in Handles |-> NoBlock] /\ used' = 0
  BY DEF ResetList
<1>2. Extents' = [h \in Handles |-> [offset |-> 0, size |-> 0]]
  BY <1>1 DEF Extents, NoBlock
<1> QED
  BY <1>1, <1>2 DEF Interface!Forget, Interface!NoExtent, Extents

LEMMA HandOutGrants ==
  ASSUME DataOK, Shape, Shape', NEW h \in Handles, NEW size \in Sizes,
         NEW n \in Nat, NEW offset \in Nat, n > HeaderSize,
         block[h] = NoBlock, HandOut(h, size, n, offset)
  PROVE  Interface!IfaceNext
<1> DEFINE e == [offset |-> offset, size |-> n]
<1>1. /\ block'[h].offset = offset /\ block'[h].size = n
      /\ \A g \in Handles \ {h} :
            block'[g].offset = block[g].offset /\ block'[g].size = block[g].size
      /\ used' = (used + n) % SizeT
  BY SizesTyped DEF HandOut, Held
<1>2. offset + n <= Usable
  <2>1. Usable' = Usable
    BY DEF Usable, U32
  <2>2. End(block'[h]) <= Usable
    BY <2>1 DEF Shape, WellHeld
  <2> QED
    BY <1>1, <2>2 DEF End
<1>3. n > 0 /\ offset \in 0..Usable /\ n \in 0..Usable
  BY <1>2, UsableRange, ConstantsAssumption
<1>4. Extents[h] = [offset |-> 0, size |-> 0]
  BY DEF Extents, NoBlock
<1>5. ASSUME NEW g \in Handles, Extents[g].size > 0
      PROVE  Interface!Apart(Extents[g], e)
  <2>1. g # h
    BY <1>4, <1>5
  <2>2. Extents[g].offset = block[g].offset /\ Extents[g].size = block[g].size
    BY DEF Extents
  <2>3. ~Overlap(block'[g], block'[h])
    BY <2>1 DEF Shape, WellHeld, HeldApart
  <2>4. Region(block[g])
    BY HeldRegion
  <2> QED
    BY <1>1, <1>3, <1>5, <2>1, <2>2, <2>3, <2>4
       DEF Interface!Apart, Overlap, End, Region
<1>6. Extents' = [Extents EXCEPT ![h] = e]
  BY <1>1 DEF Extents
<1>7. e \in Interface!Extent
  BY <1>3 DEF Interface!Extent
<1>8. Extents'[h] = e
  BY <1>1 DEF Extents
<1>9. Interface!Grant(h, Extents'[h])
  BY <1>1, <1>2, <1>3, <1>4, <1>5, <1>6, <1>7, <1>8 DEF Interface!Grant, Interface!NoExtent, Extents
<1> QED
  BY <1>9 DEF Interface!IfaceNext, Extents

LEMMA FreeReleases ==
  ASSUME DataOK, Shape, NEW h \in Handles, Free(h)
  PROVE  Interface!Release(h)
<1>1. /\ block[h] # NoBlock
      /\ block' = [block EXCEPT ![h] = NoBlock]
      /\ used' = (used - block[h].header) % SizeT
  BY DEF Free, UsedWithout
<1>2. block[h].size > HeaderSize /\ block[h].header = block[h].size
  BY <1>1 DEF Shape, WellHeld
<1>3. Extents[h].size = block[h].size /\ Extents[h] # [offset |-> 0, size |-> 0]
  BY <1>2, ConstantsAssumption DEF Extents
<1>4. Extents' = [Extents EXCEPT ![h] = [offset |-> 0, size |-> 0]]
  BY <1>1, SizesTyped DEF Extents, NoBlock
<1>5. used' = (used - Extents[h].size) % SizeT
  BY <1>1, <1>2, <1>3
<1> QED
  BY <1>3, <1>4, <1>5 DEF Interface!Release, Interface!NoExtent, Extents

LEMMA StepRefines ==
  ASSUME DataOK, Shape, Shape', Next, ~exactFit'
  PROVE  Interface!IfaceNext \/ UNCHANGED Interface!ifaceVars
<1>1. CASE CallInit \/ Reset
  BY <1>1, ResetForgets DEF CallInit, Reset, Interface!IfaceNext
<1>2. CASE FullMergeMemBlocks \/ MergeStep
  BY <1>2, SameBlocks DEF FullMergeMemBlocks, MergeStep
<1>3. ASSUME NEW h \in Handles, NEW size \in Sizes, NEW alignment \in Alignments,
             Allocate(h, size, alignment)
      PROVE  Interface!IfaceNext \/ UNCHANGED Interface!ifaceVars
  <2>1. CASE AllocateRefused(h, size, alignment)
    BY <2>1, SameBlocks DEF AllocateRefused
  <2>2. ASSUME NEW i \in FreeIndices, AllocateSplit(h, size, alignment, i)
        PROVE  Interface!IfaceNext
    <3>1. /\ RequiredSize(size, alignment) \in Nat
          /\ RequiredSize(size, alignment) > HeaderSize
      BY RequiredSizeType
    <3>2. slots[i].offset \in Nat
      BY SlotInUse DEF MemBlock
    <3>3. /\ block[h] = NoBlock
          /\ HandOut(h, size, RequiredSize(size, alignment), slots[i].offset)
      BY <2>2 DEF AllocateSplit, Found
    <3> QED
      BY <3>1, <3>2, <3>3, HandOutGrants
  <2>3. ASSUME NEW i \in FreeIndices
        PROVE  ~AllocateExact(h, size, alignment, i)
    BY DEF AllocateExact
  <2>4. ASSUME NEW i \in FreeIndices,
               \/ AllocateUndefined(h, size, alignment, i)
               \/ AllocateMisaligned(h, size, alignment, i)
        PROVE  UNCHANGED Interface!ifaceVars
    BY <2>4, SameBlocks DEF AllocateUndefined, AllocateMisaligned
  <2> QED
    BY <1>3, <2>1, <2>2, <2>3, <2>4 DEF Allocate
<1>4. ASSUME NEW h \in Handles, Free(h)
      PROVE  Interface!IfaceNext
  BY <1>4, FreeReleases DEF Interface!IfaceNext
<1>5. ASSUME NEW h \in Handles, FreeRefused(h) \/ FreeUndefined(h)
      PROVE  UNCHANGED Interface!ifaceVars
  BY <1>5, SameBlocks DEF FreeRefused, FreeUndefined
<1>6. ASSUME NEW h \in Handles
      PROVE  ~ClientWrite(h)
  BY NoHeaderHit DEF Shape, ClientWrite
<1>7. CASE Stopped
  BY <1>7, SameBlocks DEF Stopped, vars
<1> QED
  BY <1>1, <1>2, <1>3, <1>4, <1>5, <1>6, <1>7 DEF Next

(* Up to the first exact fit the list is sound.                            *)
Until == IInv /\ ~exactFit

LEMMA UntilExactFit == SpecNoExactFit => []Until
<1>1. Init => Until
  <2>1. Init => FlagsOK /\ ~exactFit
    BY Zenon DEF Init, FlagsOK
  <2> QED
    BY <2>1, InitData, InitShape DEF IInv, TypeOK, Until
<1>2. Until /\ [Next /\ ~exactFit']_vars => Until'
  <2> SUFFICES ASSUME Until, [Next /\ ~exactFit']_vars PROVE Until'
    OBVIOUS
  <2>1. [Next]_vars /\ ~exactFit'
    BY DEF vars, Until
  <2> QED
    BY <2>1, FlagsStep, DataStep, ShapeStep DEF IInv, TypeOK, Until
<1> QED
  BY <1>1, <1>2, PTL DEF SpecNoExactFit

(* Every behaviour of the allocator in which no block is taken whole is a  *)
(* behaviour of the abstract allocator, whatever the policies, the array   *)
(* and the client: what it hands out lies in the buffer apart from all     *)
(* that is held, and GetUsedSize() follows.                                *)
THEOREM FreeListImplementsInterface == SpecNoExactFit => ImplementsInterface
<1>1. Init => Interface!IfaceInit
  <2> SUFFICES ASSUME Init PROVE Interface!IfaceInit
    OBVIOUS
  <2>1. block = [h \in Handles |-> NoBlock] /\ used = 0
    BY DEF Init
  <2> QED
    BY <2>1 DEF Interface!IfaceInit, Interface!NoExtent, NoBlock
<1>2. Until /\ Until' /\ [Next /\ ~exactFit']_vars
        => [Interface!IfaceNext]_(Interface!ifaceVars)
  <2> SUFFICES ASSUME Until, Until', [Next /\ ~exactFit']_vars
               PROVE  Interface!IfaceNext \/ UNCHANGED Interface!ifaceVars
    OBVIOUS
  <2>1. DataOK /\ Shape /\ Shape'
    BY DEF IInv, TypeOK, ShapeOK, Until
  <2>2. CASE Next /\ ~exactFit'
    BY <2>1, <2>2, StepRefines
  <2>3. CASE UNCHANGED vars
    BY <2>3, SameBlocks DEF vars
  <2> QED
    BY <2>2, <2>3
<1> QED
  BY <1>1, <1>2, UntilExactFit, PTL DEF SpecNoExactFit, ImplementsInterface, Interface!IfaceSpec

-----------------------------------------------------------------------------
(* The search loop.  It is a function that refers to itself, so what it    *)
(* computes is shown by induction: the least number of iterations that     *)
(* would contradict a claim leads to a smaller one that does.              *)

LEMMA LeastNat ==
  ASSUME NEW S \in SUBSET Nat, S # {}
  PROVE  \E m \in S : \A k \in S : m <= k
<1> DEFINE R == OpToRel(<, Nat)
<1>1. IsWellFoundedOn(R, Nat)
  BY NatLessThanWellFounded
<1>2. \A x, y \in Nat : x < y => <<x, y>> \in R
  BY DEF OpToRel
<1> HIDE DEF R
<1>3. PICK x \in S : \A y \in S : ~ (<<y, x>> \in R)
  BY <1>1, WFMin
<1>4. ASSUME NEW y \in S
      PROVE  x <= y
  <2>1. x \in Nat /\ y \in Nat
    OBVIOUS
  <2>2. ~(y < x)
    BY <1>2, <1>3, <2>1
  <2> QED
    BY <2>1, <2>2
<1> QED
  BY <1>4

NothingYet == [bestIndex |-> -1, smallestDiff |-> SizeT - 1]

(* Iteration k, on what the first k - 1 iterations have found.             *)
LoopBody(n, k, best) ==
  LET i == currSize - k
  IN  IF /\ slots[i].size >= n
         /\ (AsInt(slots[i].size) - n) % SizeT < best.smallestDiff
      THEN [bestIndex |-> i, smallestDiff |-> slots[i].size - n]
      ELSE best

(* after is what the first m iterations find.                              *)
Runs(n, m, after) ==
  after = [k \in 0..m |-> IF k = 0 THEN NothingYet ELSE LoopBody(n, k, after[k - 1])]

LEMMA LoopRuns ==
  ASSUME NEW n, NEW m \in Nat
  PROVE  \E after : Runs(n, m, after)
<1> DEFINE Missing == {l \in Nat : \A after : ~Runs(n, l, after)}
<1>1. ASSUME Missing # {}
      PROVE  FALSE
  <2>1. Missing \in SUBSET Nat
    OBVIOUS
  <2>2. PICK l \in Missing : \A k \in Missing : l <= k
    BY <1>1, <2>1, LeastNat
  <2>3. l \in Nat /\ \A after : ~Runs(n, l, after)
    OBVIOUS
  <2>4. l # 0
    <3>1. Runs(n, 0, [k \in 0..0 |-> NothingYet])
      BY DEF Runs
    <3> QED
      BY <2>3, <3>1
  <2>5. l - 1 \in Nat /\ l - 1 \notin Missing
    BY <2>2, <2>3, <2>4
  <2>6. PICK before : Runs(n, l - 1, before)
    BY <2>5
  <2> DEFINE after == [k \in 0..l |-> IF k = l THEN LoopBody(n, l, before[l - 1]) ELSE before[k]]
  <2>7. ASSUME NEW k \in 0..l
        PROVE  after[k] = IF k = 0 THEN NothingYet ELSE LoopBody(n, k, after[k - 1])
    <3>1. k # 0 => k - 1 \in 0..l /\ after[k - 1] = before[k - 1]
      BY <2>3
    <3>2. CASE k = l
      BY <2>4, <3>1, <3>2
    <3>3. CASE k # l
      <4>1. k \in 0..(l - 1)
        BY <2>3, <3>3
      <4>2. before[k] = IF k = 0 THEN NothingYet ELSE LoopBody(n, k, before[k - 1])
        BY <2>6, <4>1 DEF Runs
      <4> QED
        BY <3>1, <3>3, <4>2
    <3> QED
      BY <3>2, <3>3
  <2>8. Runs(n, l, after)
    <3>1. after = [k \in 0..l |-> after[k]]
      OBVIOUS
    <3> HIDE DEF after
    <3> QED
      BY <2>7, <3>1 DEF Runs
  <2> QED
    BY <2>3, <2>8
<1> QED
  BY <1>1

(* The smallest type for which the arithmetic works: a size_t that holds   *)
(* twice what a uint32_t does.                                             *)
WideEnough == SizeT >= 2 * Uint32

(* What has been found when k slots have been looked at.                   *)
Looked(n, k) == {i \in Fitting(n) : i >= currSize - k}

BestSoFar(n, k, best) ==
  \/ Looked(n, k) = {} /\ best = NothingYet
  \/ \E i \in Looked(n, k) :
       /\ best = [bestIndex |-> i, smallestDiff |-> slots[i].size - n]
       /\ \A j \in Looked(n, k) \ {i} : Preferred(i, j)

SizesFit == \A i \in FreeIndices : slots[i].size \in 0..(Uint32 - 1)

(* static_cast<int> makes a wide slot look as bad as can be, and the       *)
(* initial maximum worse.                                                  *)
LEMMA Differences ==
  ASSUME WideEnough, SizesFit, NEW n \in Nat \ {0}, NEW i \in Fitting(n)
  PROVE  /\ (AsInt(slots[i].size) - n) % SizeT
              = IF Wide(i) THEN SizeT - Uint32 + slots[i].size - n ELSE slots[i].size - n
         /\ (AsInt(slots[i].size) - n) % SizeT < SizeT - 1
         /\ slots[i].size \in n..(Uint32 - 1)
<1>1. /\ slots[i].size \in n..(Uint32 - 1) /\ SizeT \in Nat /\ Uint32 \in Nat
      /\ Uint32 \div 2 \in Nat
  BY Sizings DEF SizesFit, Fitting
<1> DEFINE d == AsInt(slots[i].size) - n
<1>0. U32(slots[i].size) = slots[i].size
  BY <1>1, ModSmall, Sizings DEF U32, SizesFit, Fitting
<1>2. CASE Wide(i)
  <2>1. d = slots[i].size - Uint32 - n
    BY <1>0, <1>1, <1>2 DEF AsInt, Wide
  <2>2. d + SizeT \in 0..(SizeT - 2) /\ d \in Int
    BY <1>1, <2>1 DEF WideEnough
  <2>3. d % SizeT = d + SizeT
    BY <1>1, <2>2
  <2> QED
    BY <1>1, <1>2, <2>1, <2>2, <2>3
<1>3. CASE ~Wide(i)
  <2>1. d = slots[i].size - n
    BY <1>0, <1>1, <1>3 DEF AsInt, Wide
  <2>2. d \in 0..(SizeT - 2)
    BY <1>1, <2>1 DEF WideEnough
  <2>3. d % SizeT = d
    BY <1>1, <2>2
  <2> QED
    BY <1>1, <1>3, <2>1, <2>2, <2>3
<1> QED
  BY <1>2, <1>3

LEMMA LoopStep ==
  ASSUME WideEnough, SizesFit, currSize \in Nat, NEW n \in Nat \ {0},
         NEW k \in 1..currSize, NEW best, BestSoFar(n, k - 1, best)
  PROVE  BestSoFar(n, k, LoopBody(n, k, best))
<1> DEFINE next == currSize - k
<1>1. next \in FreeIndices /\ next \in Int
  BY DEF FreeIndices
<1>2. /\ Looked(n, k - 1) \subseteq Looked(n, k)
      /\ Looked(n, k) \subseteq Looked(n, k - 1) \cup {next}
      /\ next \in Looked(n, k) <=> slots[next].size >= n
      /\ \A i \in Looked(n, k - 1) : i > next /\ i \in Fitting(n)
  BY DEF Looked, Fitting, FreeIndices
<1> HIDE DEF next
<1>3. LoopBody(n, k, best) =
        IF slots[next].size >= n /\ (AsInt(slots[next].size) - n) % SizeT < best.smallestDiff
        THEN [bestIndex |-> next, smallestDiff |-> slots[next].size - n]
        ELSE best
  BY DEF LoopBody, next
<1>4. CASE ~(slots[next].size >= n)
  <2>1. Looked(n, k) = Looked(n, k - 1)
    BY <1>2, <1>4
  <2> QED
    BY <1>3, <1>4, <2>1 DEF BestSoFar
<1>5. CASE slots[next].size >= n
  <2>1. next \in Fitting(n) /\ next \in Looked(n, k)
    BY <1>1, <1>2, <1>5 DEF Fitting
  <2>2. CASE Looked(n, k - 1) = {} /\ best = NothingYet
    <3>1. LoopBody(n, k, best) = [bestIndex |-> next, smallestDiff |-> slots[next].size - n]
      BY <1>3, <1>5, <2>1, <2>2, Differences DEF NothingYet
    <3> QED
      BY <1>2, <2>1, <2>2, <3>1 DEF BestSoFar
  <2>3. ASSUME NEW i \in Looked(n, k - 1),
               best = [bestIndex |-> i, smallestDiff |-> slots[i].size - n],
               \A j \in Looked(n, k - 1) \ {i} : Preferred(i, j)
        PROVE  BestSoFar(n, k, LoopBody(n, k, best))
    <3>1. /\ slots[i].size \in n..(Uint32 - 1) /\ slots[next].size \in n..(Uint32 - 1)
          /\ Uint32 \in Nat /\ SizeT \in Nat /\ Uint32 \div 2 \in Nat
          /\ i > next /\ i \in Int
      BY <1>2, <2>1, <2>3, Differences, Sizings DEF FreeIndices, Fitting
    <3>2. (AsInt(slots[next].size) - n) % SizeT < slots[i].size - n
            <=> ~Wide(next) /\ slots[next].size < slots[i].size
      BY <2>1, <3>1, Differences DEF WideEnough
    <3>3. CASE ~Wide(next) /\ slots[next].size < slots[i].size
      <4>1. LoopBody(n, k, best)
              = [bestIndex |-> next, smallestDiff |-> slots[next].size - n]
        BY <1>3, <1>5, <2>3, <3>2, <3>3
      <4>2. ASSUME NEW j \in Looked(n, k - 1)
            PROVE  Preferred(next, j)
        <5>1. slots[j].size \in n..(Uint32 - 1)
          BY <1>2, Differences
        <5>2. j = i \/ Preferred(i, j)
          BY <2>3
        <5> QED
          BY <3>1, <3>3, <5>1, <5>2 DEF Preferred, Wide
      <4> QED
        BY <1>2, <2>1, <4>1, <4>2 DEF BestSoFar
    <3>4. CASE ~(~Wide(next) /\ slots[next].size < slots[i].size)
      <4>1. LoopBody(n, k, best) = best
        BY <1>3, <2>3, <3>2, <3>4
      <4>2. Preferred(i, next)
        BY <1>1, <3>1, <3>4 DEF Preferred, Wide
      <4> QED
        BY <1>2, <2>3, <4>1, <4>2 DEF BestSoFar
    <3> QED
      BY <3>3, <3>4
  <2> QED
    BY <2>2, <2>3 DEF BestSoFar
<1> QED
  BY <1>4, <1>5

LEMMA LoopFindsBest ==
  ASSUME WideEnough, SizesFit, currSize \in Nat, NEW n \in Nat \ {0},
         NEW after, Runs(n, currSize, after)
  PROVE  BestSoFar(n, currSize, after[currSize])
<1> DEFINE Wrong == {k \in 0..currSize : ~BestSoFar(n, k, after[k])}
<1>1. \A k \in 0..currSize :
         after[k] = IF k = 0 THEN NothingYet ELSE LoopBody(n, k, after[k - 1])
  BY DEF Runs
<1>2. ASSUME Wrong # {}
      PROVE  FALSE
  <2>1. Wrong \in SUBSET Nat
    OBVIOUS
  <2>2. PICK k \in Wrong : \A l \in Wrong : k <= l
    BY <1>2, <2>1, LeastNat
  <2>3. k # 0
    <3>1. Looked(n, 0) = {}
      BY DEF Looked, Fitting, FreeIndices
    <3>2. after[0] = NothingYet
      BY <1>1
    <3> QED
      BY <3>1, <3>2 DEF BestSoFar
  <2>4. k \in 1..currSize /\ k - 1 \in 0..currSize /\ k - 1 \notin Wrong
    BY <2>2, <2>3
  <2>5. BestSoFar(n, k - 1, after[k - 1])
    BY <2>4
  <2>6. after[k] = LoopBody(n, k, after[k - 1])
    BY <1>1, <2>3
  <2>7. BestSoFar(n, k, after[k])
    BY <2>4, <2>5, <2>6, LoopStep
  <2> QED
    BY <2>7
<1> QED
  BY <1>2

LEMMA LoopIsSearch ==
  ASSUME NEW n
  PROVE  SearchLoop(n) = (CHOOSE after : Runs(n, currSize, after))[currSize].bestIndex
BY DEF SearchLoop, Runs, LoopBody, NothingYet

(* The loop of FindFreeMemBlockIndex, with sizes cast to int, differences  *)
(* that wrap around and ties that stay with the first slot met, returns    *)
(* the index that the operator of that name stands for, or -1 where there  *)
(* is none.                                                                *)
THEOREM LoopAgrees == ASSUME WideEnough PROVE SpecNoExactFit => []SearchLoopAgrees
<1>1. Until => SearchLoopAgrees
  <2> SUFFICES ASSUME Until, NEW size \in Sizes, NEW alignment \in Alignments
               PROVE  LET n == RequiredSize(size, alignment)
                          i == SearchLoop(n)
                      IN  IF SearchGivesUp \/ i = -1 THEN NothingFound(n)
                                                     ELSE FindFreeMemBlockIndex(n, i)
    BY DEF SearchLoopAgrees
  <2> DEFINE n == RequiredSize(size, alignment)
             after == CHOOSE f : Runs(n, currSize, f)
  <2>1. /\ n \in Nat \ {0} /\ currSize \in Nat /\ Shape /\ DataOK
    BY RequiredSizeType, ConstantsAssumption, SizesTyped, Sizings
       DEF Until, IInv, TypeOK, ShapeOK
  <2>2. SizesFit
    <3> SUFFICES ASSUME NEW i \in FreeIndices PROVE slots[i].size \in 0..(Uint32 - 1)
      BY DEF SizesFit
    <3>1. Region(slots[i]) /\ currSize > 0 /\ i \in 0..(currSize - 1)
      BY <2>1, SlotInUse, RegionTypes DEF FreeIndices
    <3>2. End(slots[i]) <= Usable
      BY <2>1, <3>1 DEF Shape, SharesBuffer
    <3> QED
      BY <3>1, <3>2, UsableRange, Sizings DEF End, Region
  <2>3. Runs(n, currSize, after)
    BY <2>1, LoopRuns
  <2>4. SearchLoop(n) = after[currSize].bestIndex
    BY LoopIsSearch
  <2> HIDE DEF after, n
  <2>5. BestSoFar(n, currSize, after[currSize])
    BY <2>1, <2>2, <2>3, LoopFindsBest
  <2>6. Looked(n, currSize) = Fitting(n)
    BY <2>1 DEF Looked, Fitting, FreeIndices
  <2>7. CASE Fitting(n) = {}
    <3>1. SearchLoop(n) = -1
      BY <2>4, <2>5, <2>6, <2>7 DEF BestSoFar, NothingYet
    <3> QED
      BY <2>7, <3>1 DEF NothingFound, n
  <2>8. ASSUME NEW i \in Fitting(n),
               after[currSize] = [bestIndex |-> i, smallestDiff |-> slots[i].size - n],
               \A j \in Fitting(n) \ {i} : Preferred(i, j)
        PROVE  /\ SearchLoop(n) = i /\ i # -1
               /\ ~SearchGivesUp => FindFreeMemBlockIndex(n, i)
    <3>1. i # -1
      BY <2>1 DEF Fitting, FreeIndices
    <3>2. SearchLoop(n) = i
      BY <2>4, <2>8
    <3> QED
      BY <2>8, <3>1, <3>2 DEF FindFreeMemBlockIndex
  <2>9. CASE Fitting(n) # {}
    <3>1. PICK i \in Fitting(n) :
            /\ after[currSize] = [bestIndex |-> i, smallestDiff |-> slots[i].size - n]
            /\ \A j \in Fitting(n) \ {i} : Preferred(i, j)
      BY <2>5, <2>6, <2>9 DEF BestSoFar
    <3>2. SearchLoop(n) = i /\ i # -1 /\ (~SearchGivesUp => FindFreeMemBlockIndex(n, i))
      BY <2>8, <3>1
    <3>3. SearchGivesUp => NothingFound(n)
      BY DEF NothingFound
    <3> QED
      BY <3>2, <3>3 DEF n
  <2> QED
    BY <2>7, <2>9
<1> QED
  BY <1>1, UntilExactFit, PTL
=============================================================================
