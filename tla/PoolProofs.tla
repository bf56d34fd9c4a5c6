----------------------------- MODULE PoolProofs -----------------------------
(***************************************************************************)
(* A pool never hands out a chunk twice, never loses one and never writes  *)
(* past the end of m_freeChunks, for any number and size of chunks, for    *)
(* clients that free what they hold.  Free is also called with pointers    *)
(* from elsewhere, as long as they are outside of the buffer and not at    *)
(* its end.                                                                *)
(***************************************************************************)
EXTENDS PoolAllocator, FiniteSetTheorems, TLAPS

Elsewhere == \A p \in Foreign : ~InBuffer(p)

FreeOnce == \A i, j \in FreeSlots : i # j => freeChunks[i] # freeChunks[j]

HeldOnce == \A g, h \in Holding : g # h => held[g].chunk # held[h].chunk

FreeOrHeld == \A i \in FreeSlots, h \in Holding : freeChunks[i] # held[h].chunk

NoneLost ==
  \A c \in Chunks : (\E i \in FreeSlots : freeChunks[i] = c) \/ (\E h \in Holding : held[h].chunk = c)

NeverOverflown == status \in {"running", "null list", "too large", "full", "misaligned"}

(* ChunksConserved is not inductive: that Free finds room for the chunk it *)
(* is given is a matter of counting.                                       *)
PoolInv ==
  /\ NeverOverflown
  /\ freeChunks \in [Chunks -> Chunks]
  /\ current \in -1..(ChunksNum - 1)
  /\ held \in [Handles -> Held]
  /\ \A h \in Holding : held[h].chunk \in Chunks
  /\ FreeOnce /\ HeldOnce /\ FreeOrHeld /\ NoneLost
  /\ current + 1 + Cardinality(Holding) = ChunksNum
  /\ used = ChunkSize * Cardinality(Holding)

LEMMA ConstantTypes ==
  ChunksNum \in Nat \ {0} /\ ChunkSize \in Nat \ {0} /\ SizeT \in Nat \ {0}
BY PoolAssumption

LEMMA SmallMod ==
  ASSUME NEW m \in Nat \ {0}, NEW x \in 0..(m - 1)
  PROVE  x % m = x
OBVIOUS

(* Chunks a < b do not share a byte.                                       *)
LEMMA ChunksApart ==
  ASSUME NEW c \in Nat, NEW a \in Nat, NEW b \in Nat, a < b
  PROVE  a * c + c <= b * c
<1>1. PICK d \in Nat : b = a + 1 + d
  <2>1. b - a - 1 \in Nat /\ b = a + 1 + (b - a - 1)
    OBVIOUS
  <2> QED
    BY <2>1
<1>2. b * c = a * c + c + d * c
  BY <1>1
<1>3. d * c \in Nat /\ a * c \in Nat
  BY <1>1
<1> QED
  BY <1>2, <1>3

(* The bytes of n chunks, n <= ChunksNum, can be counted in SizeT.         *)
LEMMA Countable ==
  ASSUME NEW n \in Nat, n <= ChunksNum
  PROVE  ChunkSize * n \in 0..(SizeT - 1)
<1>1. n * ChunkSize <= ChunksNum * ChunkSize
  <2>1. CASE n = ChunksNum
    BY <2>1, ConstantTypes
  <2>2. CASE n < ChunksNum
    <3>1. n * ChunkSize + ChunkSize <= ChunksNum * ChunkSize
      BY <2>2, ConstantTypes, ChunksApart
    <3>2. n * ChunkSize \in Int /\ ChunksNum * ChunkSize \in Int
      BY ConstantTypes
    <3> QED
      BY <3>1, <3>2, ConstantTypes
  <2> QED
    BY <2>1, <2>2, ConstantTypes
<1>2. ChunkSize * n = n * ChunkSize /\ n * ChunkSize \in Nat /\ ChunksNum * ChunkSize \in Nat
  BY ConstantTypes
<1> QED
  BY <1>1, <1>2, PoolAssumption

LEMMA HoldingIsFinite == IsFiniteSet(Holding) /\ Cardinality(Holding) \in Nat
<1>1. Holding \in SUBSET Handles
  BY DEF Holding
<1> QED
  BY <1>1, PoolAssumption, FS_Subset, FS_CardinalityType

(* What holds right after Init() or Reset().                               *)
LEMMA FreshPool ==
  ASSUME NeverOverflown', used' = 0, freeChunks' = [i \in Chunks |-> i], current' = ChunksNum - 1,
         held' = [h \in Handles |-> NoChunk]
  PROVE  PoolInv'
<1>1. Holding' = {}
  BY Zenon DEF Holding
<1>2. Cardinality(Holding') = 0
  BY <1>1, FS_EmptySet
<1>3. held' \in [Handles -> Held]
  <2>1. NoChunk \in Held
    BY DEF NoChunk, Held, Pointers
  <2> QED
    BY <2>1
<1>4. FreeSlots' = Chunks
  BY DEF FreeSlots, Chunks
<1>5. \A i \in Chunks : freeChunks'[i] = i
  OBVIOUS
<1>6. FreeOnce' /\ HeldOnce' /\ FreeOrHeld' /\ NoneLost'
  BY <1>1, <1>4, <1>5 DEF FreeOnce, HeldOnce, FreeOrHeld, NoneLost
<1>7. current' \in -1..(ChunksNum - 1)
  BY ConstantTypes
<1>8. freeChunks' \in [Chunks -> Chunks]
  OBVIOUS
<1>9. current' + 1 + 0 = ChunksNum
  BY ConstantTypes
<1>10. ChunkSize * 0 = 0
  BY ConstantTypes
<1> QED
  BY <1>1, <1>2, <1>3, <1>6, <1>7, <1>8, <1>9, <1>10 DEF PoolInv

LEMMA UnchangedPool ==
  ASSUME PoolInv, NeverOverflown', UNCHANGED <<freeChunks, current, used, held>>
  PROVE  PoolInv'
BY DEF PoolInv, Holding, FreeSlots, FreeOnce, HeldOnce, FreeOrHeld, NoneLost

(* Allocate moves the top of the stack to the client.                      *)
LEMMA PopKeeps ==
  ASSUME PoolInv, NEW h \in Handles, NEW size \in Sizes, NEW alignment \in Alignments,
         AllocateChunk(h, size, alignment)
  PROVE  PoolInv'
<1>1. /\ current \in 0..(ChunksNum - 1) /\ freeChunks \in [Chunks -> Chunks]
      /\ current \in Chunks /\ current \in FreeSlots
      /\ held[h] = NoChunk /\ h \notin Holding
  <2>1. current >= 0 /\ held[h] = NoChunk
    BY DEF AllocateChunk
  <2>2. current \in -1..(ChunksNum - 1) /\ freeChunks \in [Chunks -> Chunks]
    BY DEF PoolInv
  <2>3. current \in 0..(ChunksNum - 1)
    BY <2>1, <2>2, ConstantTypes
  <2>4. current \in Chunks /\ current \in FreeSlots
    BY <2>3, ConstantTypes DEF Chunks, FreeSlots
  <2> QED
    BY <2>1, <2>2, <2>3, <2>4 DEF Holding
<1> DEFINE c == freeChunks[current]
<1>2. c \in Chunks
  BY <1>1
<1>3. /\ held' = [held EXCEPT ![h] = [chunk |-> c, request |-> size]]
      /\ current' = current - 1
      /\ used' = (used + ChunkSize) % SizeT
      /\ freeChunks' = freeChunks
  BY DEF AllocateChunk, Pop
<1>4. NeverOverflown'
  BY DEF AllocateChunk, AssertFails, PoolInv, NeverOverflown
<1>5. held' \in [Handles -> Held]
  <2>1. [chunk |-> c, request |-> size] \in Held
    BY <1>2, PoolAssumption DEF Held, Pointers
  <2> QED
    BY <1>3, <2>1 DEF PoolInv
<1>6. /\ held'[h].chunk = c
      /\ \A g \in Handles : g # h => held'[g] = held[g]
  BY <1>3 DEF PoolInv
<1>7. held'[h] # NoChunk
  BY <1>2, <1>6, ConstantTypes DEF NoChunk, Chunks, PastEnd
<1> HIDE DEF c
<1>8. Holding' = Holding \cup {h}
  BY <1>6, <1>7 DEF Holding
<1>9. Cardinality(Holding') = Cardinality(Holding) + 1
  BY <1>1, <1>8, HoldingIsFinite, FS_AddElement
<1>10. FreeSlots' = FreeSlots \ {current}
  BY <1>1, <1>3, ConstantTypes DEF FreeSlots
<1>11. FreeOnce'
  BY <1>3, <1>10 DEF FreeOnce, PoolInv
<1>12. \A g \in Holding : g # h /\ held'[g].chunk = held[g].chunk
  BY <1>1, <1>6 DEF Holding
<1>13. \A g \in Holding : held[g].chunk # c
  BY <1>1 DEF c, FreeOrHeld, PoolInv
<1>14. HeldOnce'
  BY <1>6, <1>8, <1>12, <1>13 DEF HeldOnce, PoolInv
<1>15. \A i \in FreeSlots \ {current} : freeChunks[i] # c
  BY <1>1 DEF c, FreeOnce, PoolInv
<1>16. FreeOrHeld'
  BY <1>3, <1>6, <1>8, <1>10, <1>12, <1>15 DEF FreeOrHeld, PoolInv
<1>17. NoneLost'
  <2> SUFFICES ASSUME NEW d \in Chunks
               PROVE  \/ \E i \in FreeSlots' : freeChunks'[i] = d
                      \/ \E g \in Holding' : held'[g].chunk = d
    BY DEF NoneLost
  <2>1. CASE \E i \in FreeSlots : freeChunks[i] = d
    BY <1>3, <1>6, <1>8, <1>10, <2>1 DEF c
  <2>2. CASE \E g \in Holding : held[g].chunk = d
    BY <1>8, <1>12, <2>2
  <2> QED
    BY <2>1, <2>2 DEF NoneLost, PoolInv
<1>18. \A g \in Holding' : held'[g].chunk \in Chunks
  BY <1>2, <1>6, <1>8, <1>12 DEF PoolInv
<1>19. used' = ChunkSize * Cardinality(Holding')
  <2>1. Cardinality(Holding) \in Nat /\ Cardinality(Holding) + 1 <= ChunksNum
    BY <1>1, ConstantTypes, HoldingIsFinite DEF PoolInv
  <2>2. used + ChunkSize = ChunkSize * (Cardinality(Holding) + 1)
    BY <2>1, ConstantTypes DEF PoolInv
  <2>3. used + ChunkSize \in 0..(SizeT - 1)
    BY <2>1, <2>2, Countable
  <2> QED
    BY <1>3, <1>9, <2>2, <2>3, ConstantTypes, SmallMod
<1>20. current' \in -1..(ChunksNum - 1) /\ current' + 1 + Cardinality(Holding') = ChunksNum
  BY <1>1, <1>3, <1>9, ConstantTypes, HoldingIsFinite DEF PoolInv
<1> QED
  BY <1>3, <1>4, <1>5, <1>11, <1>14, <1>16, <1>17, <1>18, <1>19, <1>20 DEF PoolInv

(* Free finds room: a held chunk leaves at most ChunksNum - 1 free ones.   *)
LEMMA PushKeeps ==
  ASSUME PoolInv, NEW h \in Handles, Free(h)
  PROVE  PoolInv'
<1>1. h \in Holding /\ held[h].chunk \in Chunks
  BY DEF Free, Holding, PoolInv
<1> DEFINE c == held[h].chunk
<1>2. InBuffer(c)
  <2>1. c * ChunkSize + ChunkSize <= ChunksNum * ChunkSize
    BY <1>1, ConstantTypes, ChunksApart DEF Chunks
  <2>2. c * ChunkSize \in Nat /\ ChunksNum * ChunkSize \in Nat
    BY <1>1, ConstantTypes DEF Chunks
  <2> QED
    BY <2>1, <2>2, ConstantTypes DEF InBuffer
<1>3. Cardinality(Holding \ {h}) = Cardinality(Holding) - 1
  BY <1>1, HoldingIsFinite, FS_RemoveElement
<1>4. Cardinality(Holding) >= 1
  <2>1. IsFiniteSet(Holding \ {h})
    BY <1>1, HoldingIsFinite, FS_RemoveElement
  <2>2. Cardinality(Holding \ {h}) \in Nat
    BY <2>1, FS_CardinalityType
  <2> QED
    BY <1>3, <2>2, HoldingIsFinite
<1>5. /\ current \in Int /\ -1 <= current /\ current + 1 <= ChunksNum - 1
      /\ current + 1 \in Chunks
      /\ freeChunks \in [Chunks -> Chunks]
  <2>1. current \in -1..(ChunksNum - 1) /\ current + 1 + Cardinality(Holding) = ChunksNum
        /\ freeChunks \in [Chunks -> Chunks]
    BY DEF PoolInv
  <2>2. current \in Int /\ -1 <= current /\ current + 1 <= ChunksNum - 1
    BY <1>4, <2>1, ConstantTypes, HoldingIsFinite
  <2>3. current + 1 \in 0..(ChunksNum - 1)
    BY <2>2, ConstantTypes
  <2> QED
    BY <2>1, <2>2, <2>3 DEF Chunks
<1>6. /\ held' = [held EXCEPT ![h] = NoChunk]
      /\ current' = current + 1
      /\ used' = (used - ChunkSize) % SizeT
      /\ freeChunks' = [freeChunks EXCEPT ![current + 1] = c]
  BY <1>2, <1>5 DEF Free, Push
<1>6a. NeverOverflown'
  <2>1. status' = status
    BY <1>2, <1>5 DEF Free, Push
  <2> QED
    BY <2>1 DEF NeverOverflown, PoolInv
<1>7. held' \in [Handles -> Held] /\ freeChunks' \in [Chunks -> Chunks]
  <2>1. NoChunk \in Held
    BY DEF NoChunk, Held, Pointers
  <2> QED
    BY <1>1, <1>5, <1>6, <2>1 DEF PoolInv
<1>8. /\ held'[h] = NoChunk
      /\ \A g \in Handles : g # h => held'[g] = held[g]
  BY <1>6 DEF PoolInv
<1>9. Holding' = Holding \ {h} /\ \A g \in Holding' : held'[g] = held[g]
  BY <1>8 DEF Holding
<1>10. /\ FreeSlots' = FreeSlots \cup {current + 1}
       /\ current + 1 \notin FreeSlots
       /\ \A i \in FreeSlots : i \in Chunks
  <2>1. 0..(current + 1) = (0..current) \cup {current + 1}
    BY <1>5
  <2>2. current + 1 \notin 0..current
    BY <1>5
  <2>3. \A i \in 0..current : i \in 0..(ChunksNum - 1)
    BY <1>5, ConstantTypes
  <2> QED
    BY <1>6, <2>1, <2>2, <2>3 DEF FreeSlots, Chunks
<1>11. /\ freeChunks'[current + 1] = c
       /\ \A i \in FreeSlots : freeChunks'[i] = freeChunks[i]
  BY <1>5, <1>6, <1>10
<1>12. \A i \in FreeSlots : freeChunks[i] # c
  BY <1>1 DEF FreeOrHeld, PoolInv
<1>13. FreeOnce'
  BY <1>10, <1>11, <1>12 DEF FreeOnce, PoolInv
<1>14. HeldOnce'
  BY <1>9 DEF HeldOnce, PoolInv
<1>15. \A g \in Holding \ {h} : held[g].chunk # c
  BY <1>1 DEF HeldOnce, PoolInv
<1> HIDE DEF c
<1>16. FreeOrHeld'
  BY <1>9, <1>10, <1>11, <1>15 DEF FreeOrHeld, PoolInv
<1>17. NoneLost'
  <2> SUFFICES ASSUME NEW d \in Chunks
               PROVE  \/ \E i \in FreeSlots' : freeChunks'[i] = d
                      \/ \E g \in Holding' : held'[g].chunk = d
    BY DEF NoneLost
  <2>1. CASE \E i \in FreeSlots : freeChunks[i] = d
    BY <1>10, <1>11, <2>1
  <2>2. CASE \E g \in Holding : held[g].chunk = d
    BY <1>9, <1>10, <1>11, <2>2 DEF c
  <2> QED
    BY <2>1, <2>2 DEF NoneLost, PoolInv
<1>18. \A g \in Holding' : held'[g].chunk \in Chunks
  BY <1>9 DEF PoolInv
<1>19. used' = ChunkSize * Cardinality(Holding')
  <2> DEFINE n == Cardinality(Holding) - 1
  <2>1. n \in Nat /\ n <= ChunksNum
    BY <1>4, ConstantTypes, HoldingIsFinite DEF PoolInv
  <2>2. used - ChunkSize = ChunkSize * n
    BY <1>4, ConstantTypes, HoldingIsFinite DEF PoolInv
  <2>3. used - ChunkSize \in 0..(SizeT - 1)
    BY <2>1, <2>2, Countable
  <2> QED
    BY <1>3, <1>6, <1>9, <2>2, <2>3, ConstantTypes, SmallMod
<1>20. current' \in -1..(ChunksNum - 1) /\ current' + 1 + Cardinality(Holding') = ChunksNum
  BY <1>3, <1>5, <1>6, <1>9, ConstantTypes, HoldingIsFinite DEF PoolInv
<1> QED
  BY <1>6a, <1>7, <1>13, <1>14, <1>16, <1>17, <1>18, <1>19, <1>20 DEF PoolInv

LEMMA PoolStep ==
  ASSUME Elsewhere, PoolInv, [Next]_vars
  PROVE  PoolInv'
<1>1. CASE CallInit
  BY <1>1, FreshPool, UnchangedPool DEF CallInit, ResetList, PoolInv, NeverOverflown
<1>2. CASE Reset
  BY <1>2, FreshPool, UnchangedPool DEF Reset, ResetList, PoolInv, NeverOverflown
<1>3. ASSUME NEW size \in Sizes,
             AllocateTooLarge(size) \/ AllocateFull(size) \/ AllocateUndefined(size)
      PROVE  PoolInv'
  BY <1>3, UnchangedPool
  DEF AllocateTooLarge, AllocateFull, AllocateUndefined, AssertFails, PoolInv, NeverOverflown
<1>4. ASSUME NEW size \in Sizes, NEW h \in Handles, NEW alignment \in Alignments,
             AllocateChunk(h, size, alignment)
      PROVE  PoolInv'
  BY <1>4, PopKeeps
<1>5. ASSUME NEW h \in Handles, Free(h) PROVE PoolInv'
  BY <1>5, PushKeeps
<1>6. ASSUME NEW p \in Foreign, FreeForeign(p) PROVE PoolInv'
  BY <1>6, UnchangedPool DEF FreeForeign, Elsewhere, PoolInv, NeverOverflown
<1>7. CASE Stopped \/ UNCHANGED vars
  BY <1>7, UnchangedPool DEF Stopped, vars, PoolInv, NeverOverflown
<1> QED
  BY <1>1, <1>2, <1>3, <1>4, <1>5, <1>6, <1>7 DEF Next

LEMMA InitPool == Init => PoolInv
<1> SUFFICES ASSUME Init PROVE PoolInv
  OBVIOUS
<1>1. Holding = {}
  BY Zenon DEF Init, Holding
<1>2. Cardinality(Holding) = 0
  BY <1>1, FS_EmptySet
<1>3. NoChunk \in Held
  BY DEF NoChunk, Held, Pointers
<1>4. held \in [Handles -> Held] /\ freeChunks \in [Chunks -> Chunks]
  BY <1>3 DEF Init
<1>5. FreeSlots = Chunks /\ \A i \in Chunks : freeChunks[i] = i
  BY DEF Init, FreeSlots, Chunks
<1>6. FreeOnce /\ HeldOnce /\ FreeOrHeld /\ NoneLost
  BY <1>1, <1>5 DEF FreeOnce, HeldOnce, FreeOrHeld, NoneLost
<1>7. NeverOverflown
  BY DEF Init, NeverOverflown
<1>8. current = ChunksNum - 1 /\ used = 0
  BY DEF Init
<1>9. current \in -1..(ChunksNum - 1) /\ current + 1 + 0 = ChunksNum /\ ChunkSize * 0 = 0
  BY <1>8, ConstantTypes
<1> QED
  BY <1>1, <1>2, <1>4, <1>6, <1>7, <1>8, <1>9 DEF PoolInv

LEMMA PoolInvariant == ASSUME Elsewhere PROVE Spec => []PoolInv
<1>1. PoolInv /\ [Next]_vars => PoolInv'
  BY PoolStep
<1> QED
  BY <1>1, InitPool, PTL DEF Spec

(* Every chunk is free or held, exactly once, after any sequence of calls; *)
(* m_freeChunks is never written past its end.                             *)
THEOREM PoolConservesChunks == ASSUME Elsewhere PROVE Spec => []ChunksConserved
<1>1. PoolInv => ChunksConserved
  <2> SUFFICES ASSUME PoolInv PROVE ChunksConserved
    OBVIOUS
  <2>1. status # "overflow"
    BY DEF PoolInv, NeverOverflown
  <2>2. {freeChunks[i] : i \in FreeSlots} \cup {held[h].chunk : h \in Holding} = Chunks
    <3>1. \A i \in FreeSlots : i \in Chunks
      <4>1. current \in -1..(ChunksNum - 1)
        BY DEF PoolInv
      <4> QED
        BY <4>1, ConstantTypes DEF FreeSlots, Chunks
    <3>2. \A i \in FreeSlots : freeChunks[i] \in Chunks
      BY <3>1 DEF PoolInv
    <3>3. \A h \in Holding : held[h].chunk \in Chunks
      BY DEF PoolInv
    <3>4. NoneLost
      BY DEF PoolInv
    <3> QED
      BY <3>2, <3>3, <3>4 DEF NoneLost
  <2> QED
    BY <2>1, <2>2 DEF PoolInv, ChunksConserved, FreeOnce, HeldOnce, FreeOrHeld
<1> QED
  BY <1>1, PoolInvariant, PTL

(* GetUsedSize() is the size of what is held.                              *)
THEOREM PoolCountsUsed == ASSUME Elsewhere PROVE Spec => []UsedIsHeld
<1>1. PoolInv => UsedIsHeld
  BY DEF PoolInv, UsedIsHeld
<1> QED
  BY <1>1, PoolInvariant, PTL

-----------------------------------------------------------------------------
(* Refinement of AllocatorInterface.                                       *)

Region(c) == [offset |-> c * ChunkSize, size |-> ChunkSize]

LEMMA RegionsApart ==
  ASSUME NEW a \in Chunks, NEW b \in Chunks, a # b
  PROVE  Interface!Apart(Region(a), Region(b))
<1>1. a \in Nat /\ b \in Nat /\ (a < b \/ b < a)
  BY DEF Chunks
<1>2. Region(a).offset = a * ChunkSize /\ Region(a).size = ChunkSize
      /\ Region(b).offset = b * ChunkSize /\ Region(b).size = ChunkSize
  BY DEF Region
<1>3. a * ChunkSize + ChunkSize <= b * ChunkSize \/ b * ChunkSize + ChunkSize <= a * ChunkSize
  BY <1>1, ChunksApart, ConstantTypes
<1> QED
  BY <1>2, <1>3 DEF Interface!Apart

LEMMA RegionInBuffer ==
  ASSUME NEW c \in Chunks
  PROVE  /\ c * ChunkSize \in 0..(ChunksNum * ChunkSize)
         /\ ChunkSize \in 0..(ChunksNum * ChunkSize)
         /\ c * ChunkSize + ChunkSize <= ChunksNum * ChunkSize
<1>1. c \in Nat /\ c < ChunksNum /\ 0 < ChunksNum
  BY ConstantTypes DEF Chunks
<1>2. c * ChunkSize + ChunkSize <= ChunksNum * ChunkSize
      /\ 0 * ChunkSize + ChunkSize <= ChunksNum * ChunkSize
  BY <1>1, ChunksApart, ConstantTypes
<1>3. c * ChunkSize \in Nat /\ ChunksNum * ChunkSize \in Nat /\ 0 * ChunkSize = 0
  BY <1>1, ConstantTypes
<1> QED
  BY <1>2, <1>3, ConstantTypes

LEMMA SameHeld ==
  ASSUME UNCHANGED <<used, held>>
  PROVE  UNCHANGED Interface!ifaceVars
BY DEF Interface!ifaceVars, Extents

LEMMA ResetForgets ==
  ASSUME ResetList
  PROVE  Interface!Forget
<1>1. held' = [h \in Handles |-> NoChunk] /\ used' = 0
  BY DEF ResetList
<1>2. Extents' = [h \in Handles |-> [offset |-> 0, size |-> 0]]
  BY <1>1 DEF Extents
<1> QED
  BY <1>1, <1>2 DEF Interface!Forget, Interface!NoExtent, Extents

LEMMA GrantIsStep ==
  ASSUME NEW h \in Handles,
         NEW o \in 0..(ChunksNum * ChunkSize), NEW n \in 0..(ChunksNum * ChunkSize),
         n > 0, o + n <= ChunksNum * ChunkSize,
         Extents[h] = [offset |-> 0, size |-> 0],
         \A g \in Handles :
            Extents[g].size > 0 => Interface!Apart(Extents[g], [offset |-> o, size |-> n]),
         Extents' = [Extents EXCEPT ![h] = [offset |-> o, size |-> n]],
         used' = (used + n) % SizeT
  PROVE  Interface!IfaceNext
<1>1. [offset |-> o, size |-> n] \in Interface!Extent
  BY ConstantTypes DEF Interface!Extent
<1>2. Extents'[h] = [offset |-> o, size |-> n]
  BY DEF Extents
<1>3. Interface!Grant(h, Extents'[h])
  BY <1>1, <1>2 DEF Interface!Grant, Interface!NoExtent, Extents
<1> QED
  BY <1>3 DEF Interface!IfaceNext, Extents

LEMMA AllocateGrants ==
  ASSUME PoolInv, NEW h \in Handles, NEW size \in Sizes, NEW alignment \in Alignments,
         AllocateChunk(h, size, alignment)
  PROVE  Interface!IfaceNext
<1> DEFINE c == freeChunks[current]
<1>1. current \in FreeSlots /\ c \in Chunks
  <2>1. current \in -1..(ChunksNum - 1) /\ current >= 0 /\ freeChunks \in [Chunks -> Chunks]
    BY DEF PoolInv, AllocateChunk
  <2>2. current \in 0..current /\ current \in 0..(ChunksNum - 1)
    BY <2>1
  <2> QED
    BY <2>1, <2>2 DEF FreeSlots, Chunks
<1>2. /\ held[h] = NoChunk
      /\ held' = [held EXCEPT ![h] = [chunk |-> c, request |-> size]]
      /\ used' = (used + ChunkSize) % SizeT
  BY DEF AllocateChunk, Pop
<1>3. \A g \in Holding : held[g].chunk \in Chunks /\ held[g].chunk # c
  BY <1>1 DEF PoolInv, FreeOrHeld
<1> HIDE DEF c
<1>4. [chunk |-> c, request |-> size] # NoChunk
  BY <1>1, ConstantTypes DEF NoChunk, PastEnd, Chunks
<1>5. Extents[h] = [offset |-> 0, size |-> 0]
  BY <1>2 DEF Extents
<1>6. ASSUME NEW g \in Handles, Extents[g].size > 0
      PROVE  Interface!Apart(Extents[g], Region(c))
  <2>1. held[g] # NoChunk
    BY <1>6 DEF Extents
  <2>2. g \in Holding /\ Extents[g] = Region(held[g].chunk)
    BY <2>1 DEF Extents, Holding, Region
  <2> QED
    BY <1>1, <1>3, <2>2, RegionsApart
<1>7. Extents' = [Extents EXCEPT ![h] = Region(c)]
  BY <1>2, <1>4 DEF Extents, Region, PoolInv
<1>8. PICK o \in 0..(ChunksNum * ChunkSize) :
         Region(c) = [offset |-> o, size |-> ChunkSize] /\ o + ChunkSize <= ChunksNum * ChunkSize
  BY <1>1, RegionInBuffer DEF Region
<1>9. ChunkSize \in 0..(ChunksNum * ChunkSize) /\ ChunkSize > 0
  BY <1>1, RegionInBuffer, ConstantTypes
<1>10. \A g \in Handles :
         Extents[g].size > 0 => Interface!Apart(Extents[g], [offset |-> o, size |-> ChunkSize])
  BY <1>6, <1>8
<1>11. Extents' = [Extents EXCEPT ![h] = [offset |-> o, size |-> ChunkSize]]
  BY <1>7, <1>8
<1> QED
  BY <1>2, <1>5, <1>8, <1>9, <1>10, <1>11, GrantIsStep

LEMMA FreeReleases ==
  ASSUME PoolInv, NEW h \in Handles, Free(h)
  PROVE  Interface!IfaceNext
<1>1. h \in Holding /\ held[h].chunk \in Chunks
  BY DEF Free, Holding, PoolInv
<1>2. InBuffer(held[h].chunk)
  BY <1>1, RegionInBuffer DEF InBuffer
<1>3. held' = [held EXCEPT ![h] = NoChunk] /\ used' = (used - ChunkSize) % SizeT
  BY <1>2 DEF Free, Push
<1>4. Extents[h] = Region(held[h].chunk)
  BY <1>1 DEF Extents, Holding, Region
<1>5. Extents[h].size = ChunkSize /\ Extents[h] # [offset |-> 0, size |-> 0]
  BY <1>4, ConstantTypes DEF Region
<1>6. Extents' = [Extents EXCEPT ![h] = [offset |-> 0, size |-> 0]]
  BY <1>3 DEF Extents, PoolInv
<1>7. Interface!Release(h)
  BY <1>3, <1>5, <1>6 DEF Interface!Release, Interface!NoExtent, Extents
<1> QED
  BY <1>7 DEF Interface!IfaceNext

LEMMA StepRefines ==
  ASSUME Elsewhere, PoolInv, [Next]_vars
  PROVE  Interface!IfaceNext \/ UNCHANGED Interface!ifaceVars
<1>1. CASE CallInit \/ Reset
  BY <1>1, ResetForgets, SameHeld DEF CallInit, Reset, Interface!IfaceNext
<1>2. ASSUME NEW size \in Sizes,
             AllocateTooLarge(size) \/ AllocateFull(size) \/ AllocateUndefined(size)
      PROVE  UNCHANGED Interface!ifaceVars
  BY <1>2, SameHeld DEF AllocateTooLarge, AllocateFull, AllocateUndefined
<1>3. ASSUME NEW size \in Sizes, NEW h \in Handles, NEW alignment \in Alignments,
             AllocateChunk(h, size, alignment)
      PROVE  Interface!IfaceNext
  BY <1>3, AllocateGrants
<1>4. ASSUME NEW h \in Handles, Free(h) PROVE Interface!IfaceNext
  BY <1>4, FreeReleases
<1>5. ASSUME NEW p \in Foreign, FreeForeign(p) PROVE UNCHANGED Interface!ifaceVars
  BY <1>5, SameHeld DEF FreeForeign, Elsewhere
<1>6. CASE Stopped \/ UNCHANGED vars
  BY <1>6, SameHeld DEF Stopped, vars
<1> QED
  BY <1>1, <1>2, <1>3, <1>4, <1>5, <1>6 DEF Next

(* A pool keeps the promise of the base class: Allocate returns bytes of   *)
(* the buffer apart from all that is held, and GetUsedSize() follows.      *)
THEOREM PoolImplementsInterface == ASSUME Elsewhere PROVE Spec => ImplementsInterface
<1>1. Init => Interface!IfaceInit
  <2> SUFFICES ASSUME Init PROVE Interface!IfaceInit
    OBVIOUS
  <2>1. held = [h \in Handles |-> NoChunk] /\ used = 0
    BY DEF Init
  <2> QED
    BY <2>1 DEF Interface!IfaceInit, Interface!NoExtent, Extents
<1>2. PoolInv /\ [Next]_vars => [Interface!IfaceNext]_(Interface!ifaceVars)
  BY StepRefines
<1> QED
  BY <1>1, <1>2, PoolInvariant, PTL DEF Spec, ImplementsInterface, Interface!IfaceSpec

-----------------------------------------------------------------------------
(* Types.                                                                  *)

FlagTypes ==
  /\ status \in {"running", "null list", "too large", "full", "misaligned", "overflow"}
  /\ listed \in BOOLEAN /\ locked \in BOOLEAN

LEMMA FlagsStayTyped ==
  ASSUME FlagTypes, [Next]_vars
  PROVE  FlagTypes'
<1>1. ASSUME NEW how \in {"full", "misaligned"}, AssertFails(how)
      PROVE  status' \in {"running", "null list", "too large", "full", "misaligned", "overflow"}
  BY <1>1 DEF AssertFails, FlagTypes
<1>2. LeaveLocked => locked' \in BOOLEAN
  BY DEF LeaveLocked
<1>3. MallocResults \subseteq BOOLEAN
  BY PoolAssumption
<1>4. CASE CallInit \/ Reset \/ UNCHANGED vars \/ Stopped
  BY <1>3, <1>4 DEF FlagTypes, CallInit, Reset, ResetList, Stopped, vars
<1>5. ASSUME NEW size \in Sizes,
             AllocateTooLarge(size) \/ AllocateFull(size) \/ AllocateUndefined(size)
      PROVE  FlagTypes'
  BY <1>1, <1>2, <1>5 DEF FlagTypes, AllocateTooLarge, AllocateFull, AllocateUndefined
<1>6. ASSUME NEW h \in Handles, NEW size \in Sizes, NEW alignment \in Alignments,
             AllocateChunk(h, size, alignment)
      PROVE  FlagTypes'
  BY <1>1, <1>6 DEF FlagTypes, AllocateChunk
<1>7. ASSUME NEW p, Push(p)
      PROVE  status' \in {status, "overflow"}
  BY <1>7 DEF Push
<1>8. ASSUME NEW h \in Handles, Free(h)
      PROVE  FlagTypes'
  BY <1>2, <1>7, <1>8 DEF FlagTypes, Free
<1>9. ASSUME NEW p \in Foreign, FreeForeign(p)
      PROVE  FlagTypes'
  BY <1>2, <1>7, <1>9 DEF FlagTypes, FreeForeign
<1> QED
  BY <1>4, <1>5, <1>6, <1>8, <1>9 DEF Next

(* m_currFreeChunksIdx stays within the array, from -1 when it is empty,   *)
(* and m_used within the buffer.                                           *)
THEOREM PoolTypesHold == ASSUME Elsewhere PROVE Spec => []TypeOK
<1>1. Init => FlagTypes
  BY DEF Init, FlagTypes
<1>2. FlagTypes /\ [Next]_vars => FlagTypes'
  BY FlagsStayTyped
<1>3. Spec => []FlagTypes
  BY <1>1, <1>2, PTL DEF Spec
<1>4. ASSUME PoolInv
      PROVE  used \in 0..(ChunksNum * ChunkSize)
  <2>1. current + 1 + Cardinality(Holding) = ChunksNum /\ current \in -1..(ChunksNum - 1)
        /\ used = ChunkSize * Cardinality(Holding)
    BY <1>4 DEF PoolInv
  <2>2. Cardinality(Holding) \in Nat /\ Cardinality(Holding) <= ChunksNum
    BY <2>1, HoldingIsFinite, ConstantTypes
  <2> HIDE DEF Holding
  <2>3. \A n \in Nat : n <= ChunksNum => ChunkSize * n \in 0..(ChunksNum * ChunkSize)
    BY ConstantTypes
  <2> QED
    BY <2>1, <2>2, <2>3
<1>5. PoolInv /\ FlagTypes => TypeOK
  BY <1>4 DEF PoolInv, FlagTypes, TypeOK, Pointers
<1> QED
  BY <1>3, <1>5, PoolInvariant, PTL
=============================================================================
