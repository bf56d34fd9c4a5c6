----------------------------- MODULE BumpProofs -----------------------------
(***************************************************************************)
(* StackAllocator and LinearAllocator keep what they promise, whatever the *)
(* client calls and in whatever order it frees, nullptr included, unless a *)
(* size comes so close to 2^64 that the sum in Allocate wraps around.      *)
(***************************************************************************)
EXTENDS BumpAllocators, TLAPS

(* From the end of the buffer, and from where Free(nullptr) leaves the     *)
(* offset.                                                                 *)
NoWrap == \A size \in Sizes, alignment \in Alignments :
             TotalSize + size + alignment < SizeT /\ size + alignment < Start

LEMMA SmallMod ==
  ASSUME NEW m \in Nat \ {0}, NEW x \in 0..(m - 1)
  PROVE  x % m = x
OBVIOUS

(* Multiples of a, as % finds them.                                        *)
LEMMA MultipleOf ==
  ASSUME NEW x \in Int, NEW a \in Nat \ {0}
  PROVE  x % a = 0 <=> \E q \in Int : x = q * a
<1>1. ASSUME x % a = 0
      PROVE  \E q \in Int : x = q * a
  <2>1. x = (x \div a) * a + (x % a) /\ x \div a \in Int
    OBVIOUS
  <2>2. x = (x \div a) * a
    BY <1>1, <2>1
  <2> QED
    BY <2>1, <2>2, Zenon
<1>2. ASSUME NEW q \in Int, x = q * a
      PROVE  x % a = 0
  BY <1>2
<1> QED
  BY <1>1, <1>2

LEMMA SumOfMultiples ==
  ASSUME NEW a \in Nat \ {0}, NEW x \in Int, NEW y \in Int, x % a = 0, y % a = 0
  PROVE  (x + y) % a = 0
<1>1. PICK q \in Int : x = q * a
  BY MultipleOf
<1>2. PICK r \in Int : y = r * a
  BY MultipleOf
<1>3. x + y = (q + r) * a /\ q + r \in Int
  BY <1>1, <1>2
<1> QED
  BY <1>3, MultipleOf

LEMMA MultipleOfMultiple ==
  ASSUME NEW a \in Nat \ {0}, NEW c \in Nat \ {0}, NEW x \in Int, c % a = 0, x % c = 0
  PROVE  x % a = 0
<1>1. PICK q \in Int : x = q * c
  BY MultipleOf
<1>2. PICK r \in Int : c = r * a
  BY MultipleOf
<1>3. x = (q * r) * a /\ q * r \in Int
  BY <1>1, <1>2
<1> QED
  BY <1>3, MultipleOf

(* A size and its padding are a multiple of the alignment.                 *)
LEMMA PaddedSize ==
  ASSUME NEW size \in Nat, NEW alignment \in Nat \ {0}
  PROVE  (Padding(size, alignment) + size) % alignment = 0
<1>1. size = (size \div alignment) * alignment + (size % alignment)
      /\ size \div alignment \in Int /\ size % alignment \in Int
  OBVIOUS
<1>2. Padding(size, alignment) + size = (size \div alignment + 1) * alignment
      /\ size \div alignment + 1 \in Int
  BY <1>1 DEF Padding
<1> QED
  BY <1>2, MultipleOf

LEMMA PaddingRange ==
  ASSUME NEW size \in Sizes, NEW alignment \in Alignments
  PROVE  Padding(size, alignment) \in 1..alignment
<1>1. size \in Int /\ alignment \in Nat \ {0}
  BY BumpAssumption
<1>2. size % alignment \in 0..(alignment - 1)
  BY <1>1
<1> QED
  BY <1>1, <1>2 DEF Padding

LEMMA NullOffsetIsBeyond ==
  /\ NullOffset \in Nat /\ NullOffset >= TotalSize /\ NullOffset + Start = SizeT
  /\ TotalSize \in Nat /\ SizeT \in Nat \ {0} /\ Start \in Nat
BY BumpAssumption DEF NullOffset

Fits == \A k \in 1..Len(live) : End(live[k]) <= TotalSize

(* No block is empty, as even an aligned size is padded.                   *)
Asked == \A k \in 1..Len(live) : live[k].size > 0 /\ live[k].alignment \in Alignments

(* Stronger than Aligned, and of the end of each block, to be inductive.   *)
EndsAligned ==
  \A k \in 1..Len(live), a \in Alignments :
    (\A j \in 1..k : live[j].alignment % a = 0) => End(live[k]) % a = 0

(* A block ends before those allocated later begin.                        *)
BelowLater ==
  \A j, k \in 1..Len(live) : j < k => End(live[j]) <= live[k].offset

BumpInv ==
  /\ mapped \in BOOLEAN
  /\ offset \in Nat
  /\ live \in Seq(Block)
  /\ Len(live) <= MaxLive
  /\ \A k \in 1..Len(live) : live[k].offset = IF k = 1 THEN 0 ELSE End(live[k - 1])
  /\ offset \in {Top, NullOffset}
  /\ Fits
  /\ Asked
  /\ BelowLater
  /\ EndsAligned
  /\ GrantCoversRequest

LEMMA EmptyBuffer ==
  ASSUME mapped' \in BOOLEAN, offset' = 0, live' = <<>>
  PROVE  BumpInv'
<1>1. Len(live') = 0 /\ live' \in Seq(Block) /\ \A k : k \notin 1..0
  OBVIOUS
<1> QED
  BY <1>1, BumpAssumption DEF BumpInv, Fits, Asked, BelowLater, EndsAligned, Top, GrantCoversRequest

LEMMA NothingNew ==
  ASSUME BumpInv, UNCHANGED <<mapped, offset, used, live>>
  PROVE  BumpInv'
BY DEF BumpInv, Fits, Asked, BelowLater, EndsAligned, Top, NullOffset, GrantCoversRequest

LEMMA TopFits ==
  ASSUME BumpInv
  PROVE  Top \in 0..TotalSize
<1>1. CASE live = <<>>
  BY <1>1, BumpAssumption DEF Top
<1>2. CASE live # <<>>
  <2>1. Len(live) \in 1..Len(live) /\ live \in Seq(Block)
    BY <1>2 DEF BumpInv
  <2>2. live[Len(live)] \in Block
    BY <2>1
  <2>3. live[Len(live)].offset \in Nat /\ live[Len(live)].size \in Nat
    BY <2>2 DEF Block
  <2> QED
    BY <1>2, <2>1, <2>3, BumpAssumption DEF Top, End, BumpInv, Fits
<1> QED
  BY <1>1, <1>2

(* Where Free(nullptr) leaves the offset, everything is refused.           *)
LEMMA GrantFromTop ==
  ASSUME NoWrap, BumpInv, NEW size \in Sizes, NEW alignment \in Alignments,
         AllocateGranted(size, alignment)
  PROVE  offset = Top
<1>1. /\ size \in Nat /\ Padding(size, alignment) \in 1..alignment
      /\ size + alignment < Start /\ alignment \in Nat
  BY BumpAssumption, PaddingRange DEF NoWrap
<1>2. ASSUME offset = NullOffset
      PROVE  FALSE
  <2>1. NullOffset + Padding(size, alignment) + size \in 0..(SizeT - 1)
    BY <1>1, NullOffsetIsBeyond
  <2>2. RequiredSize(size, alignment) = NullOffset + Padding(size, alignment) + size
    BY <1>2, <2>1, SmallMod, NullOffsetIsBeyond DEF RequiredSize
  <2>3. RequiredSize(size, alignment) <= TotalSize
    BY DEF AllocateGranted
  <2> QED
    BY <1>1, <2>2, <2>3, NullOffsetIsBeyond
<1> QED
  BY <1>2 DEF BumpInv

(* What a grant takes, when no sum wraps around: more than was asked for,  *)
(* in multiples of the alignment, from the top.                            *)
LEMMA GrantTakes ==
  ASSUME NoWrap, BumpInv, NEW size \in Sizes, NEW alignment \in Alignments,
         AllocateGranted(size, alignment)
  PROVE  \E taken \in Nat :
           /\ taken > 0 /\ taken >= size /\ taken % alignment = 0
           /\ offset + taken <= TotalSize
           /\ offset' = offset + taken
           /\ used' = offset'
           /\ live' = Append(live, [offset |-> offset, size |-> taken, request |-> size,
                                   alignment |-> alignment, real |-> mapped])
<1> DEFINE taken == (Padding(size, alignment) + size) % SizeT
<1>1. /\ offset \in Nat /\ offset <= TotalSize /\ size \in Nat
      /\ TotalSize \in Nat /\ SizeT \in Nat \ {0} /\ alignment \in Nat \ {0}
      /\ TotalSize + size + alignment < SizeT
      /\ Padding(size, alignment) \in 1..alignment
  BY BumpAssumption, PaddingRange, GrantFromTop, TopFits DEF NoWrap
<1>2. taken = Padding(size, alignment) + size /\ taken \in Nat
  <2>1. Padding(size, alignment) + size \in 0..(SizeT - 1)
    BY <1>1
  <2> QED
    BY <1>1, <2>1, SmallMod
<1>3. taken > 0 /\ taken >= size /\ taken % alignment = 0
  BY <1>1, <1>2, PaddedSize
<1> HIDE DEF taken
<1>4. (offset + taken) % SizeT = offset + taken
      /\ RequiredSize(size, alignment) = offset + taken
  <2>1. offset + taken \in 0..(SizeT - 1)
    BY <1>1, <1>2
  <2>2. offset + Padding(size, alignment) + size = offset + taken
    BY <1>1, <1>2
  <2> QED
    BY <1>1, <2>1, <2>2, SmallMod DEF RequiredSize
<1> QED
  BY <1>2, <1>3, <1>4 DEF AllocateGranted, taken

LEMMA GrantStacks ==
  ASSUME NoWrap, BumpInv, NEW size \in Sizes, NEW alignment \in Alignments,
         AllocateGranted(size, alignment)
  PROVE  BumpInv' /\ used' = Top'
<1>1. /\ offset \in Nat /\ size \in Nat /\ alignment \in Nat \ {0} /\ TotalSize \in Nat
  BY BumpAssumption DEF BumpInv
<1>2. PICK taken \in Nat :
        /\ taken > 0 /\ taken >= size /\ taken % alignment = 0
        /\ offset + taken <= TotalSize
        /\ offset' = offset + taken
        /\ used' = offset'
        /\ live' = Append(live, [offset |-> offset, size |-> taken, request |-> size,
                                alignment |-> alignment, real |-> mapped])
  BY GrantTakes
<1> DEFINE b == [offset |-> offset, size |-> taken, request |-> size,
                 alignment |-> alignment, real |-> mapped]
<1>4. live' = Append(live, b)
  BY <1>2
<1>5. /\ offset = Top /\ b.offset = offset /\ b.size = taken
      /\ b.request = size /\ b.alignment = alignment
  BY GrantFromTop
<1>6. b \in Block /\ live \in Seq(Block)
  BY <1>1, <1>2, Zenon DEF Block, BumpInv
<1> HIDE DEF b
<1>7. /\ live' \in Seq(Block) /\ Len(live') = Len(live) + 1 /\ Len(live) \in Nat
      /\ live'[Len(live) + 1] = b
      /\ \A k \in 1..Len(live) : live'[k] = live[k]
  BY <1>4, <1>6
<1>8. \A k \in 1..Len(live') : k = Len(live) + 1 \/ k \in 1..Len(live)
  BY <1>7
<1>9. ASSUME NEW k \in 1..Len(live')
      PROVE  live'[k].offset = IF k = 1 THEN 0 ELSE End(live'[k - 1])
  <2>1. CASE k \in 1..Len(live)
    <3>1. k # 1 => k - 1 \in 1..Len(live)
      BY <1>7, <2>1
    <3> QED
      BY <1>7, <2>1, <3>1 DEF BumpInv
  <2>2. CASE k = Len(live) + 1
    <3>1. CASE live = <<>>
      BY <1>5, <1>7, <2>2, <3>1 DEF Top
    <3>2. CASE live # <<>>
      <4>1. Len(live) \in 1..Len(live) /\ k # 1 /\ k - 1 = Len(live)
        BY <1>6, <1>7, <2>2, <3>2
      <4> QED
        BY <1>5, <1>7, <2>2, <3>2, <4>1 DEF Top
    <3> QED
      BY <3>1, <3>2
  <2> QED
    BY <1>8, <2>1, <2>2
<1>10. offset' = Top'
  BY <1>2, <1>5, <1>7 DEF End, Top
<1>11. Fits'
  <2>1. End(b) <= TotalSize
    BY <1>2, <1>5 DEF End
  <2> QED
    BY <1>1, <1>7, <1>8, <2>1 DEF Fits, BumpInv
<1>12. GrantCoversRequest'
  BY <1>2, <1>5, <1>7, <1>8 DEF GrantCoversRequest, BumpInv
<1>13. offset' \in Nat /\ used' = Top'
  BY <1>1, <1>2, <1>10
<1>14. mapped' \in BOOLEAN
  BY Zenon DEF AllocateGranted, BumpInv
<1>15. Len(live') <= MaxLive
  BY <1>7, BumpAssumption DEF AllocateGranted
<1>16. Asked'
  BY <1>2, <1>5, <1>7, <1>8 DEF Asked, BumpInv
<1>17. BelowLater'
  <2>1. ASSUME NEW j \in 1..Len(live)
        PROVE  End(live[j]) <= offset
    <3>1. /\ live # <<>> /\ Len(live) \in 1..Len(live)
          /\ j = Len(live) \/ j < Len(live)
      BY <1>6
    <3>2. live[Len(live)] \in Block /\ live[j] \in Block
      BY <1>6, <3>1
    <3>3. End(live[Len(live)]) = Top
      BY <3>1 DEF Top
    <3>4. j < Len(live) => End(live[j]) <= live[Len(live)].offset
      BY <3>1 DEF BelowLater, BumpInv
    <3> QED
      BY <1>5, <3>1, <3>2, <3>3, <3>4 DEF End, Block
  <2> QED
    BY <1>5, <1>7, <1>8, <2>1 DEF BelowLater, BumpInv
<1>18. EndsAligned'
  <2> SUFFICES ASSUME NEW k \in 1..Len(live'), NEW a \in Alignments,
                      \A j \in 1..k : live'[j].alignment % a = 0
               PROVE  End(live'[k]) % a = 0
    BY DEF EndsAligned
  <2>1. CASE k \in 1..Len(live)
    <3>1. \A j \in 1..k : j \in 1..Len(live) /\ live'[j] = live[j]
      BY <1>7, <2>1
    <3>2. k \in 1..k
      BY <2>1
    <3>3. \A j \in 1..k : live[j].alignment % a = 0
      BY <3>1
    <3>4. EndsAligned
      BY DEF BumpInv
    <3>5. End(live[k]) % a = 0
      BY <2>1, <3>3, <3>4 DEF EndsAligned
    <3>6. live'[k] = live[k]
      BY <3>1, <3>2
    <3>7. End(live'[k]) = End(live[k])
      BY <3>6
    <3> QED
      BY <3>5, <3>7
  <2>2. CASE k = Len(live) + 1
    <3>1. a \in Nat \ {0} /\ live'[k] = b /\ alignment % a = 0
      <4>1. k \in 1..k
        BY <1>7, <2>2
      <4> QED
        BY <1>5, <1>7, <2>2, <4>1, BumpAssumption
    <3>2. offset % a = 0
      <4>1. CASE live = <<>>
        BY <1>5, <3>1, <4>1 DEF Top
      <4>2. CASE live # <<>>
        <5>1. Len(live) \in 1..Len(live)
              /\ \A j \in 1..Len(live) : j \in 1..k /\ live'[j] = live[j]
          BY <1>6, <1>7, <2>2, <4>2
        <5>2. End(live[Len(live)]) % a = 0
          BY <5>1 DEF EndsAligned, BumpInv
        <5> QED
          BY <1>5, <4>2, <5>2 DEF Top
      <4> QED
        BY <4>1, <4>2
    <3>3. taken % a = 0
      BY <1>1, <1>2, <3>1, MultipleOfMultiple
    <3>4. (offset + taken) % a = 0
      BY <1>1, <1>2, <3>1, <3>2, <3>3, SumOfMultiples
    <3> QED
      BY <1>5, <3>1, <3>4 DEF End
  <2> QED
    BY <1>8, <2>1, <2>2
<1> QED
  BY <1>7, <1>9, <1>10, <1>11, <1>12, <1>13, <1>14, <1>15, <1>16, <1>17, <1>18 DEF BumpInv

LEMMA FreeUnstacks ==
  ASSUME BumpInv, NEW k \in 1..Len(live), Stack!Free(k)
  PROVE  BumpInv' /\ used' = Top'
<1>1. /\ live \in Seq(Block) /\ Len(live) \in Nat /\ k \in Nat /\ k <= Len(live)
      /\ live[k] \in Block
  BY DEF BumpInv
<1>2. /\ offset' = live[k].offset
      /\ used' = offset'
      /\ live' = SubSeq(live, 1, k - 1)
      /\ mapped' = mapped
  BY DEF Stack!Free, Stack!Running
<1>3. /\ live' \in Seq(Block) /\ Len(live') = k - 1
      /\ \A j \in 1..(k - 1) : live'[j] = live[j] /\ j \in 1..Len(live)
  BY <1>1, <1>2
<1>4. ASSUME NEW j \in 1..Len(live')
      PROVE  live'[j].offset = IF j = 1 THEN 0 ELSE End(live'[j - 1])
  <2>1. j # 1 => j - 1 \in 1..(k - 1)
    BY <1>1, <1>3
  <2> QED
    BY <1>3, <2>1 DEF BumpInv
<1>5. offset' = Top'
  <2>1. CASE k = 1
    <3>1. live' = <<>>
      BY <1>3, <2>1
    <3> QED
      BY <1>2, <2>1, <3>1 DEF BumpInv, Top
  <2>2. CASE k # 1
    <3>1. live' # <<>> /\ k - 1 \in 1..(k - 1)
      BY <1>1, <1>3, <2>2
    <3>2. live'[Len(live')] = live[k - 1]
      BY <1>3, <3>1
    <3> QED
      BY <1>2, <2>2, <3>1, <3>2 DEF BumpInv, Top
  <2> QED
    BY <2>1, <2>2
<1>6. offset' \in Nat
  <2>1. live[k].offset \in Nat /\ live[k].size \in Nat /\ End(live[k]) <= TotalSize
    BY <1>1 DEF Block, BumpInv, Fits
  <2> QED
    BY <1>2, <2>1, BumpAssumption DEF End
<1>7. Fits' /\ GrantCoversRequest'
  BY <1>3, <1>6 DEF Fits, GrantCoversRequest, BumpInv
<1>8. used' = Top' /\ mapped' \in BOOLEAN
  BY <1>2, <1>5, Zenon DEF BumpInv
<1>9. Len(live') <= MaxLive /\ Asked'
  <2>1. Len(live') <= MaxLive
    BY <1>1, <1>3, BumpAssumption DEF BumpInv
  <2>2. Asked'
    BY <1>3 DEF Asked, BumpInv
  <2> QED
    BY <2>1, <2>2
<1>10. BelowLater'
  BY <1>3 DEF BelowLater, BumpInv
<1>11. EndsAligned'
  <2> SUFFICES ASSUME NEW m \in 1..Len(live'), NEW a \in Alignments,
                      \A j \in 1..m : live'[j].alignment % a = 0
               PROVE  End(live'[m]) % a = 0
    BY DEF EndsAligned
  <2>1. m \in 1..Len(live) /\ live'[m] = live[m]
        /\ \A j \in 1..m : live'[j] = live[j]
    BY <1>1, <1>3
  <2> QED
    BY <2>1 DEF EndsAligned, BumpInv
<1> QED
  BY <1>3, <1>4, <1>5, <1>6, <1>7, <1>8, <1>9, <1>10, <1>11 DEF BumpInv

LEMMA FreeNullStrays ==
  ASSUME BumpInv, Stack!FreeNull
  PROVE  BumpInv'
<1>1. CASE mapped
  <2>1. UNCHANGED <<mapped, live>> /\ offset' = NullOffset /\ used' = offset'
    BY <1>1, Zenon DEF Stack!FreeNull, Stack!NullOffset, NullOffset
  <2>2. offset' \in Nat /\ NullOffset' = NullOffset
    BY <2>1, NullOffsetIsBeyond DEF NullOffset
  <2> QED
    BY <2>1, <2>2
    DEF BumpInv, Fits, Asked, BelowLater, EndsAligned, Top, GrantCoversRequest
<1>2. CASE ~mapped
  <2>1. mapped' \in BOOLEAN /\ live' = <<>> /\ offset' = 0
    <3>1. mapped' = mapped /\ mapped \in BOOLEAN
      BY Zenon DEF Stack!FreeNull, BumpInv
    <3> QED
      BY <1>2, <3>1, Zenon DEF Stack!FreeNull
  <2> QED
    BY <2>1, EmptyBuffer
<1> QED
  BY <1>1, <1>2, Zenon DEF BumpInv

(* Both classes allocate and start over with the code of BumpAllocation.   *)
LEMMA StackAllocates ==
  ASSUME NEW size, NEW alignment
  PROVE  Stack!Allocate(size, alignment) <=> Allocate(size, alignment)
BY DEF Stack!Allocate, Stack!AllocateRefused, Stack!AllocateGranted, Stack!RequiredSize,
       Stack!Padding, Stack!AssertFails, Stack!Running,
       Allocate, AllocateRefused, AllocateGranted, RequiredSize, Padding, AssertFails, Running

LEMMA LinearAllocates ==
  ASSUME NEW size, NEW alignment
  PROVE  Linear!Allocate(size, alignment) <=> Allocate(size, alignment)
BY DEF Linear!Allocate, Linear!AllocateRefused, Linear!AllocateGranted,
       Linear!RequiredSize, Linear!Padding, Linear!AssertFails, Linear!Running,
       Allocate, AllocateRefused, AllocateGranted, RequiredSize, Padding, AssertFails, Running

LEMMA AllocateStacks ==
  ASSUME NoWrap, BumpInv, NEW size \in Sizes, NEW alignment \in Alignments,
         Allocate(size, alignment)
  PROVE  BumpInv'
<1>1. CASE AllocateRefused(size, alignment)
  BY <1>1, NothingNew DEF AllocateRefused
<1> QED
  BY <1>1, GrantStacks DEF Allocate

LEMMA StartingOver ==
  ASSUME BumpInv,
         Stack!CallInit \/ Linear!CallInit \/ Stack!Reset \/ Linear!Reset
  PROVE  /\ mapped' \in BOOLEAN
         /\ offset' = 0
         /\ live' = <<>>
<1>1. CASE Stack!CallInit
  BY <1>1, BumpAssumption, Zenon DEF Stack!CallInit
<1>2. CASE Linear!CallInit
  BY <1>2, BumpAssumption, Zenon DEF Linear!CallInit
<1>3. CASE Stack!Reset
  BY <1>3, Zenon DEF Stack!Reset, BumpInv
<1>4. CASE Linear!Reset
  BY <1>4, Zenon DEF Linear!Reset
<1> QED
  BY <1>1, <1>2, <1>3, <1>4

LEMMA StackStep ==
  ASSUME NoWrap, BumpInv, Stack!Next
  PROVE  BumpInv'
<1>1. CASE Stack!CallInit \/ Stack!Reset
  BY <1>1, StartingOver, EmptyBuffer
<1>2. ASSUME NEW size \in Sizes, NEW alignment \in Alignments,
             Stack!Allocate(size, alignment)
      PROVE  BumpInv'
  BY <1>2, StackAllocates, AllocateStacks
<1>3. ASSUME NEW k \in 1..Len(live), Stack!Free(k)
      PROVE  BumpInv'
  BY <1>3, FreeUnstacks
<1>4. CASE Stack!FreeNull
  BY <1>4, FreeNullStrays
<1>5. CASE Stack!Stopped
  BY <1>5, NothingNew DEF Stack!Stopped, Stack!vars
<1> QED
  BY <1>1, <1>2, <1>3, <1>4, <1>5 DEF Stack!Next

LEMMA LinearStep ==
  ASSUME NoWrap, BumpInv, Linear!Next
  PROVE  BumpInv'
<1>1. CASE Linear!CallInit \/ Linear!Reset
  BY <1>1, StartingOver, EmptyBuffer
<1>2. ASSUME NEW size \in Sizes, NEW alignment \in Alignments,
             Linear!Allocate(size, alignment)
      PROVE  BumpInv'
  BY <1>2, LinearAllocates, AllocateStacks
<1>3. CASE Linear!Free
  BY <1>3, NothingNew DEF Linear!Free
<1>4. CASE Linear!Stopped
  BY <1>4, NothingNew DEF Linear!Stopped, Linear!vars
<1> QED
  BY <1>1, <1>2, <1>3, <1>4 DEF Linear!Next

LEMMA BumpInvariant == ASSUME NoWrap PROVE BumpSpec => []BumpInv
<1>1. BumpInit => BumpInv
  <2> SUFFICES ASSUME Init PROVE BumpInv
    BY DEF BumpInit
  <2>1. Len(live) = 0 /\ live \in Seq(Block) /\ \A k : k \notin 1..0
    BY DEF Init
  <2>2. mapped \in BOOLEAN
    BY Zenon DEF Init
  <2> QED
    BY <2>1, <2>2, BumpAssumption
    DEF Init, BumpInv, Fits, Asked, BelowLater, EndsAligned, Top, GrantCoversRequest
<1>2. BumpInv /\ [BumpNext]_<<class, vars>> => BumpInv'
  <2> SUFFICES ASSUME BumpInv, [BumpNext]_<<class, vars>> PROVE BumpInv'
    OBVIOUS
  <2>1. CASE Stack!Next
    BY <2>1, StackStep
  <2>2. CASE Linear!Next
    BY <2>2, LinearStep
  <2>3. CASE UNCHANGED <<class, vars>>
    BY <2>3, NothingNew DEF vars
  <2> QED
    BY <2>1, <2>2, <2>3 DEF BumpNext
<1> QED
  BY <1>1, <1>2, PTL DEF BumpSpec

(* Blocks lie next to each other from the start of the buffer to the       *)
(* offset, within the buffer, whatever is freed in whatever order; only    *)
(* Free(nullptr) takes the offset elsewhere, and grants nothing there.     *)
THEOREM BlocksStack == ASSUME NoWrap PROVE BumpSpec => []Stacked
<1>1. BumpInv => Stacked
  BY TopFits DEF BumpInv, Stacked
<1> QED
  BY <1>1, BumpInvariant, PTL

LEMMA StartingOverCounts ==
  ASSUME Stack!CallInit \/ Linear!CallInit \/ Stack!Reset \/ Linear!Reset
  PROVE  used' = Top' \/ CallInit
<1>1. CASE Stack!CallInit \/ Linear!CallInit
  BY <1>1 DEF Stack!CallInit, Linear!CallInit, CallInit, Stack!Running, Linear!Running, Running
<1>2. CASE Stack!Reset \/ Linear!Reset
  BY <1>2 DEF Stack!Reset, Linear!Reset, Top
<1> QED
  BY <1>1, <1>2

LEMMA AllocateCounts ==
  ASSUME NoWrap, BumpInv, NEW size \in Sizes, NEW alignment \in Alignments,
         Allocate(size, alignment)
  PROVE  used' = Top' \/ UNCHANGED <<used, live>>
<1>1. CASE AllocateRefused(size, alignment)
  BY <1>1 DEF AllocateRefused
<1> QED
  BY <1>1, GrantStacks DEF Allocate

(* After every call GetUsedSize() is where the last live block ends, if    *)
(* the call changed either; Init leaves it stale, and Free(nullptr) of a   *)
(* stack takes it out of the buffer, from where no grant moves it.         *)
THEOREM UsedCountsLive == ASSUME NoWrap PROVE BumpSpec => UsedFollowsLive
<1> DEFINE Counts ==
      \/ used' = Top'
      \/ UNCHANGED <<used, live>>
      \/ CallInit
      \/ class = "StackAllocator" /\ mapped /\ Stack!FreeNull
<1>1. ASSUME BumpInv, class = "StackAllocator", Stack!Next
      PROVE  Counts
  <2>1. CASE Stack!CallInit \/ Stack!Reset
    BY <2>1, StartingOverCounts
  <2>2. ASSUME NEW size \in Sizes, NEW alignment \in Alignments,
               Stack!Allocate(size, alignment)
        PROVE  Counts
    BY <1>1, <2>2, StackAllocates, AllocateCounts
  <2>3. ASSUME NEW k \in 1..Len(live), Stack!Free(k)
        PROVE  Counts
    BY <1>1, <2>3, FreeUnstacks
  <2>4. CASE Stack!FreeNull
    <3>1. CASE ~mapped
      BY <2>4, <3>1 DEF Stack!FreeNull, Top
    <3> QED
      BY <1>1, <2>4, <3>1
  <2>5. CASE Stack!Stopped
    BY <2>5 DEF Stack!Stopped, Stack!vars
  <2> QED
    BY <1>1, <2>1, <2>2, <2>3, <2>4, <2>5 DEF Stack!Next
<1>2. ASSUME BumpInv, Linear!Next
      PROVE  Counts
  <2>1. CASE Linear!CallInit \/ Linear!Reset
    BY <2>1, StartingOverCounts
  <2>2. ASSUME NEW size \in Sizes, NEW alignment \in Alignments,
               Linear!Allocate(size, alignment)
        PROVE  Counts
    BY <1>2, <2>2, LinearAllocates, AllocateCounts
  <2>3. CASE Linear!Free
    BY <2>3 DEF Linear!Free
  <2>4. CASE Linear!Stopped
    BY <2>4 DEF Linear!Stopped, Linear!vars
  <2> QED
    BY <1>2, <2>1, <2>2, <2>3, <2>4 DEF Linear!Next
<1>3. BumpInv /\ [BumpNext]_<<class, vars>> => [Counts]_<<class, vars>>
  BY <1>1, <1>2 DEF BumpNext
<1> QED
  BY <1>3, BumpInvariant, PTL DEF BumpSpec, UsedFollowsLive

(* A granted block is as large as the request.                             *)
THEOREM BumpGrantsEnough == ASSUME NoWrap PROVE BumpSpec => []GrantCoversRequest
<1>1. BumpInv => GrantCoversRequest
  BY DEF BumpInv
<1> QED
  BY <1>1, BumpInvariant, PTL

(* A block is aligned if what lies below asked for multiples of its        *)
(* alignment: Allocate pads the size and never looks at the address.       *)
THEOREM BlocksAligned == ASSUME NoWrap PROVE BumpSpec => []Aligned
<1>1. BumpInv => Aligned
  <2> SUFFICES ASSUME BumpInv, NEW k \in 1..Len(live),
                      \A j \in 1..k : live[j].alignment % live[k].alignment = 0
               PROVE  live[k].offset % live[k].alignment = 0
    BY DEF Aligned
  <2>1. live[k].alignment \in Alignments /\ live[k].alignment \in Nat \ {0}
    BY BumpAssumption DEF BumpInv, Asked
  <2>2. CASE k = 1
    BY <2>1, <2>2 DEF BumpInv
  <2>3. CASE k # 1
    <3>1. k - 1 \in 1..Len(live) /\ \A j \in 1..(k - 1) : j \in 1..k
      BY <2>3
    <3>2. End(live[k - 1]) % live[k].alignment = 0
      BY <2>1, <3>1 DEF BumpInv, EndsAligned
    <3> QED
      BY <2>3, <3>2 DEF BumpInv
  <2> QED
    BY <2>2, <2>3
<1> QED
  BY <1>1, BumpInvariant, PTL

-----------------------------------------------------------------------------
(* The promise of the base class.                                          *)

LEMMA ExtentOf ==
  ASSUME BumpInv, NEW h \in 1..MaxLive
  PROVE  /\ h <= Len(live) => /\ Extents[h] = [offset |-> live[h].offset, size |-> live[h].size]
                              /\ live[h].offset \in Nat /\ live[h].size \in Nat
                              /\ live[h].size > 0
         /\ ~(h <= Len(live)) => Extents[h] = Interface!NoExtent
<1>1. h <= Len(live) => live[h] \in Block /\ h \in 1..Len(live)
  BY BumpAssumption DEF BumpInv
<1> QED
  BY <1>1 DEF Extents, Interface!NoExtent, Block, BumpInv, Asked

LEMMA NoneLive ==
  ASSUME live' = <<>>, used' = 0
  PROVE  Interface!Forget
<1>1. \A h \in 1..MaxLive : ~(h <= Len(live'))
  BY BumpAssumption
<1>2. Extents' = [h \in 1..MaxLive |-> Interface!NoExtent]
  BY <1>1 DEF Extents, Interface!NoExtent
<1> QED
  BY <1>2 DEF Interface!Forget

LEMMA SameExtents ==
  ASSUME UNCHANGED <<live, used>>
  PROVE  UNCHANGED Interface!ifaceVars
BY DEF Interface!ifaceVars, Extents

LEMMA GrantKeepsPromise ==
  ASSUME NoWrap, BumpInv, used = Top,
         NEW size \in Sizes, NEW alignment \in Alignments, AllocateGranted(size, alignment)
  PROVE  Interface!IfaceNext
<1>1. PICK taken \in Nat :
        /\ taken > 0
        /\ offset + taken <= TotalSize
        /\ offset' = offset + taken
        /\ used' = offset'
        /\ live' = Append(live, [offset |-> offset, size |-> taken, request |-> size,
                                alignment |-> alignment, real |-> mapped])
  BY GrantTakes
<1> DEFINE b == [offset |-> offset, size |-> taken, request |-> size,
                 alignment |-> alignment, real |-> mapped]
           e == [offset |-> offset, size |-> taken]
           h == Len(live) + 1
<1>2. /\ offset \in Nat /\ offset = Top /\ live \in Seq(Block)
      /\ TotalSize \in Nat /\ SizeT \in Nat /\ TotalSize < SizeT
  BY BumpAssumption, GrantFromTop DEF BumpInv
<1>3. h \in 1..MaxLive /\ ~(h <= Len(live))
  BY <1>2, BumpAssumption DEF AllocateGranted
<1>4. BumpInv'
  BY GrantStacks
<1>5. /\ Len(live') = h /\ live'[h] = b
      /\ \A k \in 1..Len(live) : live'[k] = live[k]
  <2>1. live' = Append(live, b)
    BY <1>1
  <2> HIDE DEF b
  <2> QED
    BY <1>2, <2>1
<1>6. Extents' = [Extents EXCEPT ![h] = e]
  <2>1. ASSUME NEW g \in 1..MaxLive
        PROVE  Extents'[g] = IF g = h THEN e ELSE Extents[g]
    <3>1. CASE g = h
      BY <1>3, <1>5, <3>1 DEF Extents
    <3>2. CASE g # h
      BY <1>2, <1>5, <3>2 DEF Extents
    <3> QED
      BY <3>1, <3>2
  <2> QED
    BY <1>3, <2>1 DEF Extents
<1>7. e \in Interface!Extent /\ e.size > 0 /\ e.offset + e.size <= TotalSize
  BY <1>1, <1>2 DEF Interface!Extent
<1>8. ASSUME NEW g \in 1..MaxLive, Extents[g].size > 0
      PROVE  Interface!Apart(Extents[g], e)
  <2>1. g <= Len(live) /\ g \in 1..Len(live)
    <3>1. Interface!NoExtent.size = 0
      BY DEF Interface!NoExtent
    <3>2. Extents[g] # Interface!NoExtent
      BY <1>8, <3>1
    <3>3. g <= Len(live)
      BY <3>2, ExtentOf
    <3> QED
      BY <1>2, <3>3, BumpAssumption
  <2>2. live'[g] = live[g] /\ g < h /\ g \in 1..Len(live') /\ h \in 1..Len(live')
    BY <1>2, <1>3, <1>5, <2>1
  <2>3. End(live[g]) <= offset
    BY <1>4, <1>5, <2>2 DEF BumpInv, BelowLater
  <2>4. Extents[g] = [offset |-> live[g].offset, size |-> live[g].size]
    BY <2>1, ExtentOf
  <2> QED
    BY <2>3, <2>4 DEF Interface!Apart, End
<1>9. used' = (used + e.size) % SizeT
  <2>1. used + e.size \in 0..(SizeT - 1) /\ used' = used + e.size
    BY <1>1, <1>2
  <2> QED
    BY <1>2, <2>1, SmallMod
<1>10. Interface!Grant(h, Extents'[h])
  <2>1. Extents'[h] = e /\ Extents[h] = Interface!NoExtent
    BY <1>3, <1>6, ExtentOf DEF Extents
  <2> HIDE DEF e, h
  <2> QED
    BY <1>6, <1>7, <1>8, <1>9, <2>1 DEF Interface!Grant
<1> QED
  BY <1>3, <1>10 DEF Interface!IfaceNext

LEMMA FreeKeepsPromise ==
  ASSUME NoWrap, BumpInv, used = Top, live # <<>>, Stack!Free(Len(live))
  PROVE  Interface!IfaceNext
<1> DEFINE h == Len(live)
<1>1. /\ live \in Seq(Block) /\ h \in 1..Len(live) /\ h \in 1..MaxLive /\ live[h] \in Block
  <2>1. live \in Seq(Block) /\ h \in 1..Len(live)
    BY DEF BumpInv
  <2> QED
    BY <2>1, BumpAssumption DEF BumpInv
<1>2. /\ used' = live[h].offset
      /\ live' = SubSeq(live, 1, h - 1)
  BY DEF Stack!Free
<1>3. /\ Len(live') = h - 1
      /\ \A j \in 1..(h - 1) : live'[j] = live[j]
  <2>1. h \in Nat /\ h = Len(live)
    BY <1>1
  <2> HIDE DEF h
  <2> QED
    BY <1>1, <1>2, <2>1
<1>4. Extents' = [Extents EXCEPT ![h] = Interface!NoExtent]
  <2>1. ASSUME NEW g \in 1..MaxLive
        PROVE  Extents'[g] = IF g = h THEN Interface!NoExtent ELSE Extents[g]
    <3>1. CASE g = h
      BY <1>1, <1>3, <3>1 DEF Extents, Interface!NoExtent
    <3>2. CASE g # h
      BY <1>1, <1>3, <3>2 DEF Extents
    <3> QED
      BY <3>1, <3>2
  <2> QED
    BY <1>1, <2>1 DEF Extents
<1>5. /\ Extents[h] = [offset |-> live[h].offset, size |-> live[h].size]
      /\ live[h].offset \in Nat /\ live[h].size \in Nat /\ live[h].size > 0
  BY <1>1, ExtentOf
<1>6. used' = (used - Extents[h].size) % SizeT
  <2>1. used = live[h].offset + live[h].size
    BY DEF Top, End
  <2>2. used - Extents[h].size = live[h].offset
    BY <1>5, <2>1
  <2>3. live[h].offset \in 0..(SizeT - 1)
    BY <1>5, <2>1, TopFits, BumpAssumption
  <2> QED
    BY <1>2, <2>2, <2>3, SmallMod, BumpAssumption
<1>7. Extents[h] # Interface!NoExtent
  BY <1>5 DEF Interface!NoExtent
<1>8. Interface!Release(h)
  <2> HIDE DEF h
  <2> QED
    BY <1>4, <1>6, <1>7 DEF Interface!Release
<1> QED
  BY <1>1, <1>8 DEF Interface!IfaceNext

LEMMA AllocateKeepsPromise ==
  ASSUME NoWrap, BumpInv, used = Top,
         NEW size \in Sizes, NEW alignment \in Alignments, Allocate(size, alignment)
  PROVE  [Interface!IfaceNext]_(Interface!ifaceVars)
<1>1. CASE AllocateRefused(size, alignment)
  BY <1>1, SameExtents DEF AllocateRefused
<1> QED
  BY <1>1, GrantKeepsPromise DEF Allocate

(* Without live blocks the top is 0, and so is used.                       *)
LEMMA InitForgets ==
  ASSUME BumpInv, used = Top, live = <<>>, Stack!CallInit \/ Linear!CallInit
  PROVE  Interface!Forget
<1>1. live' = <<>> /\ used' = 0
  BY DEF Stack!CallInit, Linear!CallInit, Top
<1> QED
  BY <1>1, NoneLive

LEMMA ResetForgets ==
  ASSUME Stack!Reset \/ Linear!Reset
  PROVE  Interface!Forget
<1>1. live' = <<>> /\ used' = 0
  BY DEF Stack!Reset, Linear!Reset
<1> QED
  BY <1>1, NoneLive

(* Both allocators implement the base class, for a client that frees in    *)
(* LIFO order, calls Init when nothing is live and frees no nullptr.       *)
THEOREM BumpKeepsPromise == ASSUME NoWrap PROVE BumpSpec => ImplementsInterface
<1> DEFINE Step == used = Top /\ \/ class = "StackAllocator" /\ Stack!LifoStep
                                 \/ class = "LinearAllocator" /\ Linear!FreshStep
           Kept == [Interface!IfaceNext]_(Interface!ifaceVars)
<1>1. BumpInit => Interface!IfaceInit
  <2> SUFFICES ASSUME Init PROVE Interface!IfaceInit
    BY DEF BumpInit
  <2>1. live = <<>> /\ used = 0 /\ \A h \in 1..MaxLive : ~(h <= Len(live))
    BY BumpAssumption DEF Init
  <2> QED
    BY <2>1 DEF Interface!IfaceInit, Interface!NoExtent, Extents
<1>2. ASSUME BumpInv, used = Top, Stack!LifoStep
      PROVE  Kept
  <2>1. CASE live = <<>> /\ Stack!CallInit
    BY <1>2, <2>1, InitForgets DEF Interface!IfaceNext
  <2>2. CASE Stack!Reset
    BY <2>2, ResetForgets DEF Interface!IfaceNext
  <2>3. ASSUME NEW size \in Sizes, NEW alignment \in Alignments,
               Stack!Allocate(size, alignment)
        PROVE  Kept
    BY <1>2, <2>3, StackAllocates, AllocateKeepsPromise
  <2>4. CASE live # <<>> /\ Stack!Free(Len(live))
    BY <1>2, <2>4, FreeKeepsPromise
  <2> QED
    BY <1>2, <2>1, <2>2, <2>3, <2>4 DEF Stack!LifoStep
<1>3. ASSUME BumpInv, used = Top, Linear!FreshStep
      PROVE  Kept
  <2>1. CASE live = <<>> /\ Linear!CallInit
    BY <1>3, <2>1, InitForgets DEF Interface!IfaceNext
  <2>2. CASE Linear!Reset
    BY <2>2, ResetForgets DEF Interface!IfaceNext
  <2>3. ASSUME NEW size \in Sizes, NEW alignment \in Alignments,
               Linear!Allocate(size, alignment)
        PROVE  Kept
    BY <1>3, <2>3, LinearAllocates, AllocateKeepsPromise
  <2>4. CASE Linear!Free
    BY <2>4, SameExtents DEF Linear!Free
  <2> QED
    BY <1>3, <2>1, <2>2, <2>3, <2>4 DEF Linear!FreshStep
<1>4. BumpInv => (Step => Kept)
  BY <1>2, <1>3
<1> QED
  BY <1>1, <1>4, BumpInvariant, PTL DEF BumpSpec, ImplementsInterface
=============================================================================
