------------------------- MODULE TestProgramProofs -------------------------
(***************************************************************************)
(* The tests of the repository can rely on their bookkeeping, for any      *)
(* number of blocks and for buffers that run out at any of them: a test    *)
(* holds each block once, its loop ends with its list, its allocator is    *)
(* empty when it looks, and every test gets its turn.                      *)
(* That the program ends is a liveness property, which TLC checks.         *)
(***************************************************************************)
EXTENDS TestProgram, FiniteSetTheorems, SequenceTheorems, TLAPS

AllTests ==
  {FreeListAllocatorTest, StackAllocatorTest, LinerAllocatorTest, MallocAllocatorTest,
   PoolAllocatorTest, PoolAllocatorMultiTest}

Tests == AllTests \ {PoolAllocatorMultiTest}

Positions == 1..Len(pointers)

NotNull == {pointers[k] : k \in Positions} \ {Null}

TestTypes ==
  /\ test \in Tests \cup {NoTest}
  /\ step \in {"allocate", "free"}
  /\ pointers \in Seq(Nat \cup {Null})
  /\ used \in Int
  /\ live \in SUBSET Nat /\ IsFiniteSet(live)

(* The pointers are what is live, unless the test drops them.              *)
Listed == test.order # "reset" \/ step = "free" => live = NotNull

HeldOnce ==
  \A j, k \in Positions : j # k => pointers[j] # pointers[k] \/ pointers[j] = Null

(* Nothing was freed yet, and the first block is granted.                  *)
Granted ==
  test # NoTest /\ step = "allocate" =>
    /\ used \in Nat /\ live = 0..(used - 1)
    /\ test.order # "reset" /\ pointers = <<>> => used = 0

(* Of a stack the pointers rise from 0, whatever was refused in between.   *)
Rising ==
  test.order = "last first" =>
    /\ pointers # <<>> => pointers[1] = 0
    /\ \A j, k \in Positions :
         j < k /\ pointers[j] # Null /\ pointers[k] # Null => pointers[j] < pointers[k]

(* Why used is 0 when the last pointer is gone.  In between, nullptr may   *)
(* have taken the offset of a stack out of its buffer.                     *)
Counted ==
  /\ test.order = "random" /\ step = "free" => used = Cardinality(live)
  /\ test.order = "last first" /\ step = "free" /\ pointers = <<>> => used = 0
  /\ test.order = "reset" => pointers = <<>> /\ (step = "free" => used = 0)

(* The loops that free in random order count what is left in the list; a   *)
(* failed assert leaves a test between its request and its list.           *)
Counting ==
  /\ i \in Int /\ status # "out of range"
  /\ test.order = "random" =>
       /\ step = "allocate" /\ Running => Len(pointers) = i
       /\ step = "free" => Len(pointers) = i + 1

TestInv == TestTypes /\ Listed /\ HeldOnce /\ Granted /\ Rising /\ Counted

-----------------------------------------------------------------------------
(* What the RunTest functions do, as the proofs need it.                   *)
LEMMA WhatTestsDo ==
  /\ NoTest \notin AllTests /\ NoTest.order = "returns"
  /\ \A f \in Tests :
       \/ f.order = "random" /\ f.frees = "one" /\ f.nullIs # "far out"
       \/ f.order = "last first" /\ f.frees = "above"
       \/ f.order = "reset"
  /\ \A f \in AllTests : f.order = "returns" <=> f = PoolAllocatorMultiTest
<1>1. /\ FreeListAllocatorTest.name = "FreeListAllocator"
      /\ FreeListAllocatorTest.order = "random" /\ FreeListAllocatorTest.frees = "one"
      /\ FreeListAllocatorTest.nullIs = "crash"
  BY DEF FreeListAllocatorTest
<1>2. /\ StackAllocatorTest.name = "StackAllocator"
      /\ StackAllocatorTest.order = "last first" /\ StackAllocatorTest.frees = "above"
  BY DEF StackAllocatorTest
<1>3. LinerAllocatorTest.name = "LinerAllocator" /\ LinerAllocatorTest.order = "reset"
  BY DEF LinerAllocatorTest
<1>4. /\ MallocAllocatorTest.name = "MallocAllocator"
      /\ MallocAllocatorTest.order = "random" /\ MallocAllocatorTest.frees = "one"
      /\ MallocAllocatorTest.nullIs = "ignored"
  BY DEF MallocAllocatorTest
<1>5. /\ PoolAllocatorTest.name = "PoolAllocator"
      /\ PoolAllocatorTest.order = "random" /\ PoolAllocatorTest.frees = "one"
      /\ PoolAllocatorTest.nullIs = "ignored"
  BY DEF PoolAllocatorTest
<1>6. /\ PoolAllocatorMultiTest.name = "PoolAlloc2Threads"
      /\ PoolAllocatorMultiTest.order = "returns"
  BY DEF PoolAllocatorMultiTest
<1>7. NoTest.name = "none" /\ NoTest.order = "returns"
  BY DEF NoTest
<1>8. \A f \in AllTests : f.name # "none"
  BY <1>1, <1>2, <1>3, <1>4, <1>5, <1>6 DEF AllTests
<1>9. \A f \in Tests :
        \/ f.order = "random" /\ f.frees = "one" /\ f.nullIs # "far out"
        \/ f.order = "last first" /\ f.frees = "above"
        \/ f.order = "reset"
  BY <1>1, <1>2, <1>3, <1>4, <1>5 DEF AllTests, Tests
<1>10. \A f \in Tests : f.order # "returns"
  BY <1>9
<1> QED
  BY <1>6, <1>7, <1>8, <1>9, <1>10 DEF Tests

LEMMA RegistersTests ==
  /\ \A u \in Units : Registers[u] \subseteq AllTests
  /\ AllTests = UNION {Registers[u] : u \in Units}
<1>1. Units = {"FreeListAllocatorTest", "StackAllocatorTest", "LinearAllocatorTest",
               "MallocAllocatorTest", "PoolAllocatorTest", "Test"}
  BY DEF Units, Registers
<1>2. /\ Registers["FreeListAllocatorTest"] = {FreeListAllocatorTest}
      /\ Registers["StackAllocatorTest"] = {StackAllocatorTest}
      /\ Registers["LinearAllocatorTest"] = {LinerAllocatorTest}
      /\ Registers["MallocAllocatorTest"] = {MallocAllocatorTest}
      /\ Registers["PoolAllocatorTest"] = {PoolAllocatorTest, PoolAllocatorMultiTest}
      /\ Registers["Test"] = {}
  BY DEF Registers
<1> QED
  BY <1>1, <1>2 DEF AllTests

(* Without its k-th element, a sequence has the others in their order.     *)
LEMMA Removed ==
  ASSUME NEW S, NEW s \in Seq(S), NEW k \in 1..Len(s)
  PROVE  /\ RemoveAt(s, k) \in Seq(S)
         /\ Len(RemoveAt(s, k)) = Len(s) - 1
         /\ \A j \in 1..(Len(s) - 1) :
              RemoveAt(s, k)[j] = IF j < k THEN s[j] ELSE s[j + 1]
<1> DEFINE a == SubSeq(s, 1, k - 1)
           b == SubSeq(s, k + 1, Len(s))
<1>1. /\ a \in Seq(S) /\ Len(a) = k - 1
      /\ \A j \in 1..(k - 1) : a[j] = s[j]
  BY SubSeqProperties
<1>2. /\ b \in Seq(S) /\ Len(b) = Len(s) - k
      /\ \A j \in 1..(Len(s) - k) : b[j] = s[k + j]
  <2>1. k + 1 \in Int /\ Len(s) \in Int /\ \A j \in (k + 1)..Len(s) : s[j] \in S
    OBVIOUS
  <2>2. /\ SubSeq(s, k + 1, Len(s)) \in Seq(S)
        /\ Len(SubSeq(s, k + 1, Len(s))) =
             IF k + 1 <= Len(s) THEN Len(s) - (k + 1) + 1 ELSE 0
        /\ \A j \in 1..(Len(s) - (k + 1) + 1) :
             SubSeq(s, k + 1, Len(s))[j] = s[(k + 1) + j - 1]
    BY <2>1, SubSeqProperties
  <2> QED
    BY <2>2
<1>3. RemoveAt(s, k) = a \o b
  BY DEF RemoveAt
<1> HIDE DEF a, b
<1>4. /\ a \o b \in Seq(S)
      /\ Len(a \o b) = Len(a) + Len(b)
      /\ \A j \in 1..(Len(a) + Len(b)) :
           (a \o b)[j] = IF j <= Len(a) THEN a[j] ELSE b[j - Len(a)]
  BY <1>1, <1>2, ConcatProperties
<1>5. Len(a) + Len(b) = Len(s) - 1
  BY <1>1, <1>2
<1>6. ASSUME NEW j \in 1..(Len(s) - 1)
      PROVE  (a \o b)[j] = IF j < k THEN s[j] ELSE s[j + 1]
  <2>1. CASE j < k
    BY <1>1, <1>4, <1>5, <2>1
  <2>2. CASE ~(j < k)
    <3>1. /\ (a \o b)[j] = b[j - Len(a)]
          /\ j - Len(a) \in 1..(Len(s) - k) /\ k + (j - Len(a)) = j + 1
      BY <1>1, <1>4, <1>5, <2>2
    <3> QED
      BY <1>2, <2>2, <3>1
  <2> QED
    BY <2>1, <2>2
<1> QED
  BY <1>3, <1>4, <1>5, <1>6

OnceIn(s, e) == \A m, n \in 1..Len(s) : m # n => s[m] # s[n] \/ s[m] = e

ValuesOf(s, e) == {s[j] : j \in 1..Len(s)} \ {e}

(* The values that are left, when each but e occurs once.                  *)
LEMMA RemovedOnce ==
  ASSUME NEW S, NEW s \in Seq(S), NEW k \in 1..Len(s), NEW e, OnceIn(s, e),
         NEW t, t = RemoveAt(s, k)
  PROVE  ValuesOf(t, e) = ValuesOf(s, e) \ {s[k]}
<1>1. /\ Len(t) = Len(s) - 1
      /\ \A j \in 1..(Len(s) - 1) : t[j] = IF j < k THEN s[j] ELSE s[j + 1]
  BY Removed
<1>2. ASSUME NEW j \in 1..Len(t), t[j] # e
      PROVE  t[j] # s[k] /\ \E m \in 1..Len(s) : t[j] = s[m]
  <2>1. PICK m \in 1..Len(s) : m # k /\ t[j] = s[m]
    BY <1>1
  <2> QED
    BY <1>2, <2>1 DEF OnceIn
<1>3. ASSUME NEW m \in 1..Len(s), s[m] # e, s[m] # s[k]
      PROVE  \E j \in 1..Len(t) : t[j] = s[m]
  <2>1. CASE m < k
    BY <1>1, <2>1
  <2>2. CASE m > k
    <3>1. m - 1 \in 1..Len(t) /\ ~(m - 1 < k) /\ (m - 1) + 1 = m
      BY <1>1, <2>2
    <3> QED
      BY <1>1, <3>1
  <2> QED
    BY <1>3, <2>1, <2>2
<1> QED
  BY <1>2, <1>3 DEF ValuesOf

-----------------------------------------------------------------------------
LEMMA TestInvInit == Init => TestInv
<1> SUFFICES ASSUME Init PROVE TestInv
  OBVIOUS
<1>1. /\ test = NoTest /\ step = "free" /\ pointers = <<>> /\ live = {} /\ used = 0
      /\ Positions = {} /\ NotNull = {}
  BY DEF Init, Positions, NotNull
<1>2. test.order = "returns"
  BY <1>1, WhatTestsDo
<1> QED
  BY <1>1, <1>2, FS_EmptySet
  DEF TestInv, TestTypes, Listed, HeldOnce, Granted, Rising, Counted

LEMMA TestInvKept == TestInv /\ UNCHANGED <<test, step, pointers, live, used>> => TestInv'
BY DEF TestInv, TestTypes, Listed, HeldOnce, Granted, Rising, Counted, Positions, NotNull

LEMMA StartTestKept ==
  ASSUME TestInv, NEW f \in AllTests, StartTest(f)
  PROVE  TestInv'
<1>1. /\ step' = "allocate" /\ pointers' = <<>> /\ live' = {} /\ used' = 0
      /\ test' = IF f.order = "returns" THEN NoTest ELSE f
      /\ Positions' = {} /\ NotNull' = {}
  BY DEF StartTest, Positions, NotNull
<1>2. test' \in Tests \cup {NoTest}
  BY <1>1, WhatTestsDo DEF Tests
<1>3. TestTypes'
  BY <1>1, <1>2, FS_EmptySet DEF TestTypes
<1>4. Listed' /\ HeldOnce' /\ Rising'
  BY <1>1 DEF Listed, HeldOnce, Rising
<1>5. Granted'
  <2>1. 0..(0 - 1) = {}
    OBVIOUS
  <2> QED
    BY <1>1, <2>1 DEF Granted
<1>6. Counted'
  BY <1>1 DEF Counted
<1> QED
  BY <1>3, <1>4, <1>5, <1>6 DEF TestInv

(* The loop has ended because there is nothing left to free.               *)
LEMMA NothingLeft ==
  ASSUME TestInv, Counting, NEW d, FinishTest(d)
  PROVE  pointers = <<>>
<1>1. test \in Tests /\ step = "free" /\ ~FreesMore /\ pointers \in Seq(Nat \cup {Null})
  BY DEF FinishTest, TestInv, TestTypes
<1>2. CASE test.order = "random"
  <2>1. ~(i >= 0) /\ i \in Int /\ Len(pointers) = i + 1
    BY <1>1, <1>2 DEF FreesMore, Counting
  <2> QED
    BY <1>1, <2>1
<1>3. CASE test.order = "last first"
  BY <1>1, <1>3 DEF FreesMore
<1>4. CASE test.order = "reset"
  BY <1>4 DEF TestInv, Counted
<1> QED
  BY <1>1, <1>2, <1>3, <1>4, WhatTestsDo

LEMMA FinishTestKept ==
  ASSUME TestInv, Counting, NEW d, FinishTest(d)
  PROVE  TestInv'
<1>1. /\ test' = NoTest /\ step' = step /\ step = "free"
      /\ pointers' = pointers /\ pointers = <<>> /\ live' = live /\ used' = used
      /\ Positions' = {} /\ NotNull' = {} /\ Positions = {} /\ NotNull = {}
  BY NothingLeft DEF FinishTest, Positions, NotNull
<1>2. test'.order = "returns"
  BY <1>1, WhatTestsDo
<1>3. live = {}
  BY <1>1 DEF TestInv, Listed
<1> QED
  BY <1>1, <1>2, <1>3
  DEF TestInv, TestTypes, Listed, HeldOnce, Granted, Rising, Counted

LEMMA EndAllocateKept ==
  ASSUME TestInv, EndAllocate
  PROVE  TestInv'
<1>1. /\ test' = test /\ test # NoTest /\ step = "allocate" /\ step' = "free"
      /\ pointers' = pointers /\ Positions' = Positions /\ NotNull' = NotNull
  BY DEF EndAllocate, Positions, NotNull
<1>2. test \in Tests /\ used \in Nat /\ live = 0..(used - 1)
  BY <1>1 DEF TestInv, TestTypes, Granted
<1>3. CASE test.order = "reset"
  <2>1. live' = {} /\ used' = 0 /\ pointers = <<>> /\ NotNull = {}
    BY <1>3 DEF EndAllocate, TestInv, Counted, Positions, NotNull
  <2> QED
    BY <1>1, <1>2, <1>3, <2>1, FS_EmptySet
    DEF TestInv, TestTypes, Listed, HeldOnce, Granted, Rising, Counted
<1>4. CASE test.order # "reset"
  <2>1. live' = live /\ used' = used
    BY <1>4 DEF EndAllocate
  <2>2. used = Cardinality(live)
    <3>1. /\ 0 \in Int /\ used - 1 \in Int
          /\ used = IF 0 > used - 1 THEN 0 ELSE (used - 1) - 0 + 1
      BY <1>2
    <3> QED
      BY <1>2, <3>1, FS_Interval
  <2>3. pointers = <<>> => used = 0
    BY <1>1, <1>4 DEF TestInv, Granted
  <2>4. live = NotNull
    BY <1>4 DEF TestInv, Listed
  <2> QED
    BY <1>1, <1>2, <1>4, <2>1, <2>2, <2>3, <2>4
    DEF TestInv, TestTypes, Listed, HeldOnce, Granted, Rising, Counted
<1> QED
  BY <1>3, <1>4

-----------------------------------------------------------------------------
(* A pointer that Allocate returned: one past the others, or nullptr.      *)
LEMMA Appended ==
  ASSUME TestInv, NEW p \in Nat \cup {Null}, pointers' = Append(pointers, p)
  PROVE  /\ pointers' \in Seq(Nat \cup {Null}) /\ pointers' # <<>>
         /\ Len(pointers') = Len(pointers) + 1
         /\ \A k \in Positions : pointers'[k] = pointers[k]
         /\ pointers'[Len(pointers) + 1] = p
         /\ Positions' = Positions \cup {Len(pointers) + 1}
         /\ Len(pointers) + 1 \notin Positions
         /\ NotNull' = NotNull \cup ({p} \ {Null})
<1>1. pointers \in Seq(Nat \cup {Null})
  BY DEF TestInv, TestTypes
<1>2. /\ pointers' \in Seq(Nat \cup {Null}) /\ pointers' # <<>>
      /\ Len(pointers') = Len(pointers) + 1
      /\ \A k \in 1..Len(pointers) : pointers'[k] = pointers[k]
      /\ pointers'[Len(pointers) + 1] = p
  BY <1>1, AppendProperties
<1>3. /\ Positions' = Positions \cup {Len(pointers) + 1}
      /\ Len(pointers) + 1 \notin Positions
  BY <1>1, <1>2 DEF Positions
<1>4. NotNull' = {pointers'[k] : k \in Positions'} \ {Null}
  BY DEF NotNull
<1> QED
  BY <1>2, <1>3, <1>4 DEF NotNull, Positions

(* Either the next block was granted, or none, with at least one out.      *)
LEMMA AppendKeepsOrder ==
  ASSUME TestInv, test \in Tests, step = "allocate",
         NEW p \in {used, Null}, pointers' = Append(pointers, p),
         used \in Nat, p = Null => used # 0,
         test' = test, test.order # "reset"
  PROVE  HeldOnce' /\ Rising' /\ pointers' # <<>> /\ NotNull' = NotNull \cup ({p} \ {Null})
<1>1. live = NotNull /\ live = 0..(used - 1) /\ (pointers = <<>> => used = 0)
  BY WhatTestsDo DEF TestInv, Listed, Granted
<1>2. /\ \A k \in Positions : pointers'[k] = pointers[k]
      /\ pointers'[Len(pointers) + 1] = p /\ pointers' # <<>>
      /\ Positions' = Positions \cup {Len(pointers) + 1}
      /\ Len(pointers) + 1 \notin Positions
      /\ NotNull' = NotNull \cup ({p} \ {Null})
  BY Appended
<1>3. Len(pointers) \in Nat /\ Positions = 1..Len(pointers)
  BY DEF TestInv, TestTypes, Positions
<1>4. \A k \in Positions : pointers[k] = Null \/ pointers[k] \in 0..(used - 1)
  BY <1>1 DEF NotNull, Positions
<1>5. used # Null
  BY DEF Null
<1>6. HeldOnce'
  <2>1. ASSUME NEW j \in Positions', NEW k \in Positions', j # k
        PROVE  pointers'[j] # pointers'[k] \/ pointers'[j] = Null
    <3>1. CASE j \in Positions /\ k \in Positions
      <4>1. pointers'[j] = pointers[j] /\ pointers'[k] = pointers[k]
        BY <1>2, <3>1
      <4> QED
        BY <2>1, <3>1, <4>1 DEF TestInv, HeldOnce
    <3>2. CASE j = Len(pointers) + 1 /\ k \in Positions
      <4>1. pointers'[j] = p /\ pointers'[k] = pointers[k]
        BY <1>2, <3>2
      <4> QED
        BY <1>4, <3>2, <4>1
    <3>3. CASE k = Len(pointers) + 1 /\ j \in Positions
      <4>1. pointers'[k] = p /\ pointers'[j] = pointers[j]
        BY <1>2, <3>3
      <4> QED
        BY <1>4, <3>3, <4>1
    <3>4. j \in Positions \cup {Len(pointers) + 1} /\ k \in Positions \cup {Len(pointers) + 1}
      BY <1>2, <2>1
    <3> QED
      BY <2>1, <3>1, <3>2, <3>3, <3>4
  <2> QED
    BY <2>1 DEF HeldOnce
<1>7. Rising'
  <2>1. SUFFICES ASSUME test.order = "last first"
                 PROVE  /\ pointers'[1] = 0
                        /\ \A j, k \in Positions' :
                             j < k /\ pointers'[j] # Null /\ pointers'[k] # Null
                               => pointers'[j] < pointers'[k]
    BY DEF Rising
  <2>2. pointers'[1] = 0
    <3>1. CASE pointers = <<>>
      <4>1. Len(pointers) + 1 = 1 /\ p = used /\ used = 0
        BY <1>1, <3>1
      <4> QED
        BY <1>2, <4>1
    <3>2. CASE pointers # <<>>
      <4>1. 1 \in Positions
        BY <1>3, <3>2 DEF TestInv, TestTypes
      <4> QED
        BY <1>2, <2>1, <3>2, <4>1 DEF TestInv, Rising
    <3> QED
      BY <3>1, <3>2
  <2>3. ASSUME NEW j \in Positions', NEW k \in Positions',
               j < k, pointers'[j] # Null, pointers'[k] # Null
        PROVE  pointers'[j] < pointers'[k]
    <3>1. j \in Positions
      BY <1>2, <1>3, <2>3
    <3>2. pointers'[j] = pointers[j]
      BY <1>2, <3>1
    <3>3. CASE k \in Positions
      <4>1. pointers'[k] = pointers[k]
        BY <1>2, <3>3
      <4> QED
        BY <2>1, <2>3, <3>1, <3>2, <3>3, <4>1 DEF TestInv, Rising
    <3>4. CASE k = Len(pointers) + 1
      <4>1. pointers'[k] = used
        BY <1>2, <2>3, <3>4
      <4> QED
        BY <1>4, <2>3, <3>1, <3>2, <4>1
    <3>5. k \in Positions \cup {Len(pointers) + 1}
      BY <1>2, <2>3
    <3> QED
      BY <3>3, <3>4, <3>5
  <2> QED
    BY <2>2, <2>3
<1> QED
  BY <1>2, <1>6, <1>7

LEMMA AllocateKept ==
  ASSUME TestProgramAssumption, TestInv, Allocate
  PROVE  TestInv'
<1>1. /\ test' = test /\ test # NoTest /\ step = "allocate" /\ step' = step
      /\ test \in Tests
  BY DEF Allocate, TestInv, TestTypes
<1>2. used \in Nat /\ live = 0..(used - 1)
  BY <1>1 DEF TestInv, Granted
<1>3. ASSUME NEW p \in {used, Null}, Keep(p), p = Null => used # 0,
             used' \in Nat, live' = 0..(used' - 1), live' = live \cup ({p} \ {Null})
      PROVE  TestInv'
  <2>0. live' \in SUBSET Nat /\ IsFiniteSet(live') /\ used' \in Int
    <3>1. \A n \in Nat : 0..(n - 1) \subseteq Nat
      OBVIOUS
    <3>2. 0..(used' - 1) \subseteq Nat
      BY <1>3, <3>1
    <3>3. live' \in SUBSET Nat
      BY <1>3, <3>2, Zenon
    <3>4. used' \in Int
      BY <1>3
    <3>5. IsFiniteSet(live')
      BY <1>3, <3>4, FS_Interval
    <3> QED
      BY <3>3, <3>4, <3>5
  <2>1. CASE test.order = "reset"
    <3>1. pointers' = pointers /\ pointers = <<>> /\ Positions' = {}
      BY <1>3, <2>1 DEF Keep, TestInv, Counted, Positions
    <3>2. TestTypes'
      BY <1>1, <2>0, <3>1 DEF TestInv, TestTypes
    <3>3. Listed' /\ HeldOnce' /\ Rising' /\ Counted'
      BY <1>1, <2>1, <3>1 DEF Listed, HeldOnce, Rising, Counted
    <3>4. Granted'
      BY <1>1, <1>3, <2>1 DEF Granted
    <3> QED
      BY <3>2, <3>3, <3>4 DEF TestInv
  <2>2. CASE test.order # "reset"
    <3>1. pointers' = Append(pointers, p)
      BY <1>3, <2>2 DEF Keep
    <3>2. HeldOnce' /\ Rising' /\ pointers' # <<>> /\ NotNull' = NotNull \cup ({p} \ {Null})
      BY <1>1, <1>2, <1>3, <2>2, <3>1, AppendKeepsOrder
    <3>3. pointers' \in Seq(Nat \cup {Null})
      BY <1>2, <3>1, Appended
    <3>4. live = NotNull
      BY <2>2 DEF TestInv, Listed
    <3>5. TestTypes'
      BY <1>1, <2>0, <3>3 DEF TestTypes
    <3>6. Listed'
      BY <1>3, <3>2, <3>4 DEF Listed
    <3>7. Granted'
      BY <1>3, <3>2 DEF Granted
    <3>8. Counted'
      BY <1>1, <2>2, <3>2 DEF Counted
    <3> QED
      BY <3>2, <3>5, <3>6, <3>7, <3>8 DEF TestInv
  <2> QED
    BY <2>1, <2>2
<1>4. CASE AllocateGranted
  <2>1. Keep(used) /\ used' = used + 1 /\ live' = live \cup {used}
    BY <1>4 DEF AllocateGranted
  <2>2. used # Null /\ used' \in Nat /\ live' = 0..(used' - 1)
    BY <1>2, <2>1 DEF Null
  <2> QED
    BY <1>3, <2>1, <2>2
<1>5. CASE AllocateRefused
  <2>1. used # 0 /\ used' = used /\ live' = live
    BY <1>2, <1>5 DEF AllocateRefused, TestProgramAssumption
  <2>2. CASE Keep(Null)
    BY <1>2, <1>3, <2>1, <2>2
  <2>3. CASE pointers' = pointers
    BY <1>1, <2>1, <2>3, TestInvKept
  <2> QED
    BY <1>5, <2>2, <2>3 DEF AllocateRefused
<1> QED
  BY <1>4, <1>5 DEF Allocate

-----------------------------------------------------------------------------
(* The index that is drawn, or taken, is one of the list's.                *)
LEMMA DrawnInRange ==
  ASSUME TestInv, Counting, step = "free", FreesMore, NEW k \in Drawn
  PROVE  k \in Positions /\ (test.order = "last first" => k = Len(pointers))
<1>1. pointers \in Seq(Nat \cup {Null}) /\ Len(pointers) \in Nat
  BY DEF TestInv, TestTypes
<1>2. CASE test.order = "last first"
  <2>1. k = Len(pointers) /\ pointers # <<>>
    BY <1>2 DEF Drawn, FreesMore
  <2>2. Len(pointers) \in Nat \ {0}
    BY <1>1, <2>1
  <2>3. k \in Positions
    BY <2>1, <2>2 DEF Positions
  <2> QED
    BY <2>1, <2>3
<1>3. CASE test.order # "last first"
  <2>1. i \in Int /\ i >= 0 /\ Len(pointers) = i + 1
    BY <1>3 DEF FreesMore, Counting
  <2>2. k \in IF i = 0 THEN {1} ELSE 1..i
    BY <1>3 DEF Drawn
  <2>3. k \in Positions
    BY <2>1, <2>2 DEF Positions
  <2> QED
    BY <1>3, <2>3
<1> QED
  BY <1>2, <1>3

LEMMA FreeErases ==
  ASSUME TestInv, Counting, NEW k \in Drawn, Free(k)
  PROVE  /\ k \in Positions /\ pointers # <<>>
         /\ pointers' = RemoveAt(pointers, k)
         /\ IF pointers[k] = Null THEN FreeNull ELSE FreeBlock(pointers[k])
<1>1. k \in Positions
  BY DrawnInRange DEF Free
<1>2. ~(k > Len(pointers))
  <2>1. Len(pointers) \in Nat
    BY DEF TestInv, TestTypes
  <2> QED
    BY <1>1, <2>1 DEF Positions
<1>3. pointers # <<>>
  <2>1. 1..0 = {} /\ Len(<<>>) = 0
    OBVIOUS
  <2> QED
    BY <1>1, <2>1 DEF Positions
<1> QED
  BY <1>1, <1>2, <1>3 DEF Free, Erased

LEMMA FreeKept ==
  ASSUME TestInv, Counting, NEW k \in Drawn, Free(k)
  PROVE  TestInv'
<1> DEFINE p == pointers[k]
<1>1. /\ test' = test /\ test # NoTest /\ step = "free" /\ step' = step
      /\ test \in Tests
      /\ pointers' = RemoveAt(pointers, k) /\ pointers # <<>>
      /\ IF p = Null THEN FreeNull ELSE FreeBlock(p)
  BY FreeErases DEF Free, TestInv, TestTypes
<1>2. k \in Positions /\ (test.order = "last first" => k = Len(pointers))
  BY DrawnInRange DEF Free
<1>3. /\ pointers \in Seq(Nat \cup {Null}) /\ p \in Nat \cup {Null}
      /\ Len(pointers) \in Nat \ {0} /\ Positions = 1..Len(pointers)
  <2>1. pointers \in Seq(Nat \cup {Null})
    BY DEF TestInv, TestTypes
  <2>2. Len(pointers) \in Nat \ {0}
    BY <1>1, <2>1
  <2>3. k \in 1..Len(pointers)
    BY <1>2 DEF Positions
  <2>4. p \in Nat \cup {Null}
    BY <2>1, <2>3
  <2> QED
    BY <2>1, <2>2, <2>4 DEF Positions
<1>4. live = NotNull /\ IsFiniteSet(live)
  BY <1>1 DEF TestInv, Listed, TestTypes
<1>5. /\ pointers' \in Seq(Nat \cup {Null}) /\ Len(pointers') = Len(pointers) - 1
      /\ \A m \in 1..(Len(pointers) - 1) :
           pointers'[m] = IF m < k THEN pointers[m] ELSE pointers[m + 1]
      /\ NotNull' = NotNull \ {p}
      /\ Positions' = 1..(Len(pointers) - 1)
  <2>1. OnceIn(pointers, Null)
    BY DEF TestInv, HeldOnce, Positions, OnceIn
  <2>2. k \in 1..Len(pointers)
    BY <1>2 DEF Positions
  <2>3. pointers \in Seq(Nat \cup {Null}) /\ pointers' = RemoveAt(pointers, k)
    BY <1>1, <1>3
  <2>4. ValuesOf(pointers', Null) = ValuesOf(pointers, Null) \ {p}
    BY <2>1, <2>2, <2>3, RemovedOnce
  <2>5. NotNull' = NotNull \ {p}
    BY <2>4 DEF NotNull, Positions, ValuesOf
  <2>6. /\ pointers' \in Seq(Nat \cup {Null}) /\ Len(pointers') = Len(pointers) - 1
        /\ \A m \in 1..(Len(pointers) - 1) :
             pointers'[m] = IF m < k THEN pointers[m] ELSE pointers[m + 1]
    BY <2>2, <2>3, Removed
  <2>7. Positions' = 1..(Len(pointers) - 1)
    BY <2>6 DEF Positions
  <2> QED
    BY <2>5, <2>6, <2>7
<1>6. p # Null => p \in live
  BY <1>2, <1>4 DEF NotNull
(* Where a pointer of the new list was in the old one.                     *)
<1>7. ASSUME NEW m \in Positions'
      PROVE  \E n \in Positions : pointers'[m] = pointers[n] /\ n = IF m < k THEN m ELSE m + 1
  <2>1. CASE m < k
    <3>1. m \in Positions /\ pointers'[m] = pointers[m]
      BY <1>3, <1>5, <1>7, <2>1
    <3> QED
      BY <2>1, <3>1
  <2>2. CASE ~(m < k)
    <3>1. m + 1 \in Positions /\ pointers'[m] = pointers[m + 1]
      BY <1>3, <1>5, <1>7, <2>2
    <3> QED
      BY <2>2, <3>1
  <2> QED
    BY <2>1, <2>2
<1>8. HeldOnce'
  <2>1. ASSUME NEW m \in Positions', NEW n \in Positions', m # n
        PROVE  pointers'[m] # pointers'[n] \/ pointers'[m] = Null
    <3>1. PICK a \in Positions : pointers'[m] = pointers[a] /\ a = IF m < k THEN m ELSE m + 1
      BY <1>7, <2>1
    <3>2. PICK b \in Positions : pointers'[n] = pointers[b] /\ b = IF n < k THEN n ELSE n + 1
      BY <1>7, <2>1
    <3>3. m \in Int /\ n \in Int /\ k \in Int
      <4>1. Positions \subseteq Int /\ 1..(Len(pointers) - 1) \subseteq Int
        BY <1>3
      <4> QED
        BY <1>2, <1>5, <2>1, <4>1
    <3>4. a # b
      BY <2>1, <3>1, <3>2, <3>3
    <3> QED
      BY <3>1, <3>2, <3>4 DEF TestInv, HeldOnce
  <2> QED
    BY <2>1 DEF HeldOnce
<1>9. Rising'
  <2>1. SUFFICES ASSUME test.order = "last first"
                 PROVE  /\ pointers' # <<>> => pointers'[1] = 0
                        /\ \A m, n \in Positions' :
                             m < n /\ pointers'[m] # Null /\ pointers'[n] # Null
                               => pointers'[m] < pointers'[n]
    BY <1>1 DEF Rising
  <2>2. /\ pointers[1] = 0
        /\ \A m, n \in Positions :
             m < n /\ pointers[m] # Null /\ pointers[n] # Null => pointers[m] < pointers[n]
    BY <1>1, <2>1 DEF TestInv, Rising
  <2>3. /\ Positions' \subseteq Positions
        /\ \A m \in Positions' : m < k /\ pointers'[m] = pointers[m]
    <3>1. k = Len(pointers)
      BY <1>2, <2>1
    <3> QED
      BY <1>3, <1>5, <3>1
  <2>4. pointers' # <<>> => 1 \in Positions'
    BY <1>3, <1>5
  <2> QED
    BY <2>2, <2>3, <2>4
<1>10. /\ live' = NotNull' /\ live' \in SUBSET Nat /\ IsFiniteSet(live') /\ used' \in Int
       /\ test.order = "random" => used' = Cardinality(live')
       /\ test.order = "last first" /\ pointers' = <<>> => used' = 0
       /\ test.order # "reset"
  <2>1. test.order # "reset"
    BY <1>1 DEF TestInv, Counted
  <2>2. live \in SUBSET Nat /\ used \in Int
    BY DEF TestInv, TestTypes
  <2>3. ASSUME test.order = "last first", pointers' = <<>>
        PROVE  p = 0
    <3>1. pointers[1] = 0
      BY <1>1, <2>3 DEF TestInv, Rising
    <3>2. k = Len(pointers)
      BY <1>2, <2>3
    <3>3. Len(pointers) = 1
      <4>1. Len(pointers') = 0
        BY <2>3
      <4> QED
        BY <1>3, <1>5, <4>1
    <3> QED
      BY <3>1, <3>2, <3>3
  <2>4. CASE p = Null
    <3>1. /\ live' = live /\ used' = IF test.nullIs = "far out" THEN Null ELSE used
      BY <1>1, <2>4 DEF FreeNull
    <3>2. NotNull' = NotNull
      BY <1>5, <2>4 DEF NotNull
    <3>3. test.order = "random" => used' = Cardinality(live')
      BY <1>1, <3>1, WhatTestsDo DEF TestInv, Counted
    <3>4. ~(test.order = "last first" /\ pointers' = <<>>)
      <4>1. Null # 0
        BY DEF Null
      <4> QED
        BY <2>3, <2>4, <4>1
    <3>5. used' \in Int
      <4>1. Null \in Int
        BY DEF Null
      <4> QED
        BY <2>2, <3>1, <4>1
    <3> QED
      BY <1>4, <2>1, <2>2, <3>1, <3>2, <3>3, <3>4, <3>5
  <2>5. CASE p # Null
    <3>1. FreeBlock(p) /\ p \in Nat /\ p \in live
      BY <1>1, <1>3, <1>6, <2>5
    <3>2. CASE test.order = "random"
      <4>1. test.frees = "one" /\ live' = live \ {p} /\ used' = used - 1
        BY <1>1, <3>1, <3>2, WhatTestsDo DEF FreeBlock
      <4>2. used = Cardinality(live)
        BY <1>1, <3>2 DEF TestInv, Counted
      <4>3. used' = Cardinality(live')
        BY <1>4, <3>1, <4>1, <4>2, FS_RemoveElement
      <4>4. live' \in SUBSET Nat /\ IsFiniteSet(live')
        BY <1>4, <2>2, <4>1, FS_RemoveElement
      <4>5. used' \in Int
        BY <2>2, <4>1
      <4> QED
        BY <1>4, <1>5, <3>2, <4>1, <4>3, <4>4, <4>5
    <3>3. CASE test.order = "last first"
      <4>1. test.frees = "above" /\ live' = {q \in live : q < p} /\ used' = p
        BY <1>1, <3>1, <3>3, WhatTestsDo DEF FreeBlock
      <4>2. \A q \in live : q # p => q < p
        <5>1. ASSUME NEW q \in live, q # p PROVE q < p
          <6>1. PICK m \in Positions : q = pointers[m] /\ q # Null
            BY <1>4, <5>1 DEF NotNull
          <6>2. m < k
            <7>1. k = Len(pointers) /\ m # k
              BY <1>2, <3>3, <5>1, <6>1
            <7> QED
              BY <1>3, <7>1
          <6> QED
            BY <1>2, <2>5, <3>3, <6>1, <6>2 DEF TestInv, Rising
        <5> QED
          BY <5>1
      <4>3. live' = live \ {p}
        <5>1. ~(p < p)
          BY <3>1
        <5> QED
          BY <4>1, <4>2, <5>1
      <4>4. pointers' = <<>> => p = 0
        BY <2>3, <3>3
      <4>5. live' \in SUBSET Nat /\ IsFiniteSet(live')
        BY <1>4, <2>2, <4>3, FS_RemoveElement
      <4>6. used' \in Int
        BY <3>1, <4>1
      <4> QED
        BY <1>4, <1>5, <3>3, <4>1, <4>3, <4>4, <4>5, <4>6
    <3> QED
      BY <1>1, <2>1, <3>2, <3>3, WhatTestsDo
  <2> QED
    BY <2>4, <2>5
<1>11. TestTypes'
  BY <1>1, <1>5, <1>10 DEF TestTypes
<1>12. Listed'
  BY <1>10 DEF Listed
<1>13. Granted'
  BY <1>1 DEF Granted
<1>14. Counted'
  BY <1>1, <1>10 DEF Counted
<1> QED
  BY <1>8, <1>9, <1>11, <1>12, <1>13, <1>14 DEF TestInv

-----------------------------------------------------------------------------
(* Which tests were registered, and which have run.                        *)
NamesOf(s) == {r.name : r \in s}

RegistryInv ==
  /\ phase \in {"static", "main", "done"}
  /\ initialised \subseteq Units
  /\ tests = UNION {Registers[u] : u \in initialised}
  /\ left \subseteq AllTests /\ test \notin left
  /\ phase = "static" => left = {} /\ verdicts = {} /\ test = NoTest
  /\ phase # "static" => NamesOf(verdicts) = NamesOf(Tests \ (left \cup {test}))
  /\ phase = "done" => left = {} /\ test = NoTest

ProgramInv == TestInv /\ Counting /\ RegistryInv /\ EveryTestPasses

LEMMA ProgramInvInit == Init => ProgramInv
<1> SUFFICES ASSUME Init PROVE ProgramInv
  OBVIOUS
<1>1. TestInv
  BY TestInvInit
<1>2. RegistryInv
  BY DEF Init, RegistryInv
<1>3. EveryTestPasses
  BY DEF Init, EveryTestPasses
<1>4. Counting
  <2>1. test = NoTest /\ i = 0 /\ status = "running"
    BY DEF Init
  <2>2. test.order # "random"
    BY <2>1, WhatTestsDo
  <2> QED
    BY <2>1, <2>2 DEF Counting
<1> QED
  BY <1>1, <1>2, <1>3, <1>4 DEF ProgramInv

LEMMA RegistryKept ==
  ASSUME TestInv, RegistryInv, Next
  PROVE  RegistryInv'
<1>1. ASSUME NEW u \in Units, StaticInit(u)
      PROVE  RegistryInv'
  <2>1. /\ initialised' \subseteq Units
        /\ tests' = UNION {Registers[w] : w \in initialised'}
    BY <1>1 DEF StaticInit, RegistryInv
  <2>2. UNCHANGED <<phase, left, test, verdicts>> /\ phase = "static"
    BY <1>1 DEF StaticInit, testVars
  <2> QED
    BY <2>1, <2>2 DEF RegistryInv
<1>2. CASE EnterMain
  <2>1. /\ phase' = "main" /\ left' = tests /\ initialised = Units
        /\ UNCHANGED <<initialised, tests, test, verdicts>>
        /\ verdicts = {} /\ test = NoTest
    BY <1>2 DEF EnterMain, RegistryInv, testVars
  <2>2. tests = AllTests
    BY <2>1, RegistersTests DEF RegistryInv
  <2>3. NamesOf(verdicts) = {} /\ Tests \ (AllTests \cup {test}) = {}
    BY <2>1 DEF NamesOf, Tests
  <2>4. NamesOf({}) = {}
    BY DEF NamesOf
  <2> QED
    BY <2>1, <2>2, <2>3, <2>4, WhatTestsDo DEF RegistryInv
<1>3. ASSUME NEW f \in left, StartTest(f)
      PROVE  RegistryInv'
  <2>1. /\ phase = "main" /\ phase' = "main" /\ left' = left \ {f} /\ test = NoTest
        /\ test' = IF f.order = "returns" THEN NoTest ELSE f
        /\ UNCHANGED <<initialised, tests, verdicts>>
    BY <1>3 DEF StartTest
  <2>2. f \in AllTests
    BY <1>3 DEF RegistryInv
  <2>3. Tests \ (left' \cup {test'}) = Tests \ (left \cup {test})
    BY <2>1, <2>2, WhatTestsDo DEF Tests
  <2>4. test' \notin left'
    BY <2>1, <2>2, WhatTestsDo DEF RegistryInv
  <2> QED
    BY <2>1, <2>3, <2>4 DEF RegistryInv
<1>4. ASSUME UNCHANGED <<phase, initialised, tests, left, test, verdicts>>
      PROVE  RegistryInv'
  BY <1>4 DEF RegistryInv
<1>5. ASSUME NEW d \in Durations, FinishTest(d)
      PROVE  RegistryInv'
  <2>1. /\ test' = NoTest /\ test # NoTest /\ UNCHANGED <<phase, initialised, tests, left>>
        /\ \E v : v.name = test.name /\ verdicts' = verdicts \cup {v}
    BY <1>5 DEF FinishTest
  <2>2. test \in Tests \ left /\ NoTest \notin AllTests
    BY <2>1, WhatTestsDo DEF TestInv, TestTypes, RegistryInv
  <2>3. Tests \ (left \cup {NoTest}) = (Tests \ (left \cup {test})) \cup {test}
    BY <2>2 DEF Tests
  <2>4. \A s, r : NamesOf(s \cup {r}) = NamesOf(s) \cup {r.name}
    BY DEF NamesOf
  <2>5. NamesOf(verdicts') = NamesOf(Tests \ (left' \cup {test'}))
    <3>1. PICK v : v.name = test.name /\ verdicts' = verdicts \cup {v}
      BY <2>1
    <3>2. NamesOf(verdicts') = NamesOf(verdicts) \cup {test.name}
      BY <2>4, <3>1
    <3>3. NamesOf(verdicts) = NamesOf(Tests \ (left \cup {test}))
      BY <1>5 DEF FinishTest, RegistryInv, TestInv
    <3>4. NamesOf(Tests \ (left \cup {NoTest}))
            = NamesOf(Tests \ (left \cup {test})) \cup {test.name}
      BY <2>3, <2>4
    <3> QED
      BY <2>1, <3>2, <3>3, <3>4
  <2> QED
    BY <2>1, <2>2, <2>5 DEF RegistryInv
<1>6. CASE LeaveRun
  BY <1>6 DEF LeaveRun, RegistryInv, testVars
<1>7. CASE Allocate
  BY <1>4, <1>7 DEF Allocate
<1>8. CASE EndAllocate
  BY <1>4, <1>8 DEF EndAllocate
<1>9. ASSUME NEW k, Free(k)
      PROVE  RegistryInv'
  BY <1>4, <1>9 DEF Free
<1>10. CASE Ended
  BY <1>4, <1>10 DEF Ended, vars, testVars
<1> QED
  BY <1>1, <1>2, <1>3, <1>5, <1>6, <1>7, <1>8, <1>9, <1>10 DEF Next

LEMMA PassesKept ==
  ASSUME TestInv, Counting, EveryTestPasses, Next
  PROVE  EveryTestPasses'
<1>1. ASSUME UNCHANGED verdicts
      PROVE  EveryTestPasses'
  BY <1>1 DEF EveryTestPasses
<1>2. ASSUME NEW d \in Durations, FinishTest(d)
      PROVE  EveryTestPasses'
  <2>1. PICK v : (used = 0 => v.passed) /\ verdicts' = verdicts \cup {v}
    <3> DEFINE w == [name |-> test.name, duration |-> d, passed |-> used = 0]
    <3>1. used = 0 => w.passed
      OBVIOUS
    <3>2. verdicts' = verdicts \cup {w}
      BY <1>2 DEF FinishTest
    <3> QED
      BY <3>1, <3>2
  <2>2. used = 0
    <3>1. /\ test \in Tests /\ step = "free" /\ pointers = <<>>
      BY <1>2, NothingLeft DEF FinishTest, TestInv, TestTypes
    <3>2. live = {}
      BY <3>1 DEF TestInv, Listed, NotNull, Positions
    <3> QED
      BY <3>1, <3>2, WhatTestsDo, FS_EmptySet DEF TestInv, Counted
  <2> QED
    BY <2>1, <2>2 DEF EveryTestPasses
<1>3. CASE \E u \in Units : StaticInit(u)
  BY <1>1, <1>3 DEF StaticInit
<1>4. CASE EnterMain \/ LeaveRun \/ Allocate \/ EndAllocate
  BY <1>1, <1>4 DEF EnterMain, LeaveRun, Allocate, EndAllocate
<1>5. CASE \E f \in left : StartTest(f)
  BY <1>1, <1>5 DEF StartTest
<1>6. ASSUME NEW k, Free(k)
      PROVE  EveryTestPasses'
  BY <1>1, <1>6 DEF Free
<1>7. CASE Ended
  BY <1>1, <1>7 DEF Ended, vars
<1> QED
  BY <1>2, <1>3, <1>4, <1>5, <1>6, <1>7 DEF Next

LEMMA CountingKept ==
  ASSUME TestProgramAssumption, TestInv, Counting, Next
  PROVE  Counting'
<1>1. CASE (\E u \in Units : StaticInit(u)) \/ EnterMain \/ LeaveRun \/ Ended
  BY <1>1 DEF StaticInit, EnterMain, LeaveRun, Ended, vars, testVars, Counting, Running
<1>2. ASSUME NEW f \in left, StartTest(f)
      PROVE  Counting'
  <2>1. /\ test' \in {f, NoTest} /\ step' = "allocate" /\ pointers' = <<>> /\ i' = 0
        /\ status' = status
    BY <1>2, Zenon DEF StartTest
  <2>2. status # "out of range"
    BY DEF Counting
  <2>3. Len(pointers') = 0 /\ i' \in Int
    BY <2>1
  <2> QED
    BY <2>1, <2>2, <2>3 DEF Counting
<1>3. CASE Allocate
  <2>1. i' = i + 1 /\ i' \in Int /\ step = "allocate" /\ UNCHANGED <<test, step>> /\ Running
    BY <1>3 DEF Allocate, Counting, Running
  <2>2. status' # "out of range"
    BY <1>3 DEF Allocate, AllocateGranted, AllocateRefused, Counting
  <2>3. ASSUME test.order = "random", Running'
        PROVE  Len(pointers') = i'
    <3>1. \E p : pointers' = Append(pointers, p)
      BY <1>3, <2>3 DEF Allocate, AllocateGranted, AllocateRefused, Keep, Running
    <3>2. Len(pointers) = i /\ pointers \in Seq(Nat \cup {Null})
      BY <2>1, <2>3 DEF Counting, TestInv, TestTypes
    <3> QED
      BY <2>1, <3>1, <3>2
  <2> QED
    BY <2>1, <2>2, <2>3 DEF Counting
<1>4. CASE EndAllocate
  <2>1. /\ i = MaxChunksNum /\ i' = MaxChunksNum - 1 /\ step = "allocate" /\ step' = "free"
        /\ UNCHANGED <<status, test, pointers>> /\ Running
    BY <1>4 DEF EndAllocate, LastIndex, Running
  <2> QED
    BY <2>1, TestProgramAssumption DEF Counting, Running
<1>5. ASSUME NEW k \in Drawn, Free(k)
      PROVE  Counting'
  <2>1. /\ step = "free" /\ UNCHANGED <<test, step>>
        /\ i' = IF test.order = "random" THEN i - 1 ELSE i
    BY <1>5 DEF Free
  <2>2. Len(pointers') = Len(pointers) - 1 /\ Len(pointers) \in Nat
    <3>1. pointers \in Seq(Nat \cup {Null}) /\ k \in 1..Len(pointers)
      BY <1>5, FreeErases DEF TestInv, TestTypes, Positions
    <3> QED
      BY <1>5, <3>1, FreeErases, Removed
  <2>3. status' # "out of range"
    BY <1>5, FreeErases DEF FreeNull, FreeBlock, Counting
  <2> QED
    <3>1. i \in Int /\ (test.order = "random" => Len(pointers) = i + 1)
      BY <2>1 DEF Counting
    <3>2. i' \in Int /\ (test.order = "random" => Len(pointers') = i' + 1)
      BY <2>1, <2>2, <3>1
    <3>3. test'.order = test.order /\ step' = "free"
      BY <2>1
    <3> QED
      BY <2>3, <3>2, <3>3 DEF Counting
<1>6. ASSUME NEW d \in Durations, FinishTest(d)
      PROVE  Counting'
  <2>1. test' = NoTest /\ UNCHANGED <<i, status>>
    BY <1>6 DEF FinishTest
  <2> QED
    BY <2>1, WhatTestsDo DEF Counting
<1> QED
  BY <1>1, <1>2, <1>3, <1>4, <1>5, <1>6 DEF Next

LEMMA TestKept ==
  ASSUME TestInv, Counting, RegistryInv, Next
  PROVE  TestInv'
<1>1. CASE (\E u \in Units : StaticInit(u)) \/ EnterMain \/ LeaveRun \/ Ended
  <2>1. UNCHANGED testVars
    BY <1>1 DEF StaticInit, EnterMain, LeaveRun, Ended, vars
  <2> QED
    BY <2>1, TestInvKept DEF testVars
<1>2. ASSUME NEW f \in left, StartTest(f)
      PROVE  TestInv'
  <2>1. f \in AllTests
    BY <1>2 DEF RegistryInv
  <2> QED
    BY <1>2, <2>1, StartTestKept
<1>3. CASE Allocate
  BY <1>3, AllocateKept, TestProgramAssumption
<1>4. CASE EndAllocate
  BY <1>4, EndAllocateKept
<1>5. ASSUME NEW k \in Drawn, Free(k)
      PROVE  TestInv'
  BY <1>5, FreeKept
<1>6. ASSUME NEW d \in Durations, FinishTest(d)
      PROVE  TestInv'
  BY <1>6, FinishTestKept
<1> QED
  BY <1>1, <1>2, <1>3, <1>4, <1>5, <1>6 DEF Next

LEMMA ProgramInvariant == Spec => []ProgramInv
<1>1. ProgramInv /\ [Next]_vars => ProgramInv'
  <2> SUFFICES ASSUME ProgramInv, [Next]_vars PROVE ProgramInv'
    OBVIOUS
  <2>1. CASE Next
    BY <2>1, TestKept, CountingKept, RegistryKept, PassesKept, TestProgramAssumption
    DEF ProgramInv
  <2>2. CASE UNCHANGED vars
    <3>1. TestInv'
      BY <2>2, TestInvKept DEF vars, testVars, ProgramInv
    <3>2. RegistryInv' /\ EveryTestPasses' /\ Counting'
      BY <2>2
      DEF vars, testVars, ProgramInv, RegistryInv, EveryTestPasses, Counting, Running
    <3> QED
      BY <3>1, <3>2 DEF ProgramInv
  <2> QED
    BY <2>1, <2>2
<1> QED
  BY <1>1, ProgramInvInit, PTL DEF Spec

-----------------------------------------------------------------------------
(* A test frees what it holds, each block once, whatever was refused and   *)
(* in whatever order it draws; no counter outruns the list (RunTest of the *)
(* allocator tests).                                                       *)
THEOREM TestsHoldWhatIsLive == Spec => []HoldsWhatIsLive
<1>1. ProgramInv => HoldsWhatIsLive
  BY DEF ProgramInv, TestInv, Counting, Listed, HeldOnce, NotNull, Positions, HoldsWhatIsLive
<1> QED
  BY <1>1, ProgramInvariant, PTL

(* The check of every test, GetUsedSize() == 0, succeeds, also after       *)
(* refused requests and freed null pointers.                               *)
THEOREM EveryCheckSucceeds == Spec => []EveryTestPasses
<1>1. ProgramInv => EveryTestPasses
  BY DEF ProgramInv
<1> QED
  BY <1>1, ProgramInvariant, PTL

(* The static registration loses no test, in any order of initialisation,  *)
(* and Run() leaves none out.                                              *)
THEOREM NoTestIsLost == Spec => []EveryTestRuns
<1>1. ProgramInv => EveryTestRuns
  <2> SUFFICES ASSUME ProgramInv, phase = "done" PROVE EveryTestRuns
    BY DEF EveryTestRuns
  <2>1. NamesOf(verdicts) = NamesOf(Tests \ (left \cup {test})) /\ left = {} /\ test = NoTest
    BY DEF ProgramInv, RegistryInv
  <2>2. Tests \ ({} \cup {NoTest}) = AllTests \ {PoolAllocatorMultiTest}
    BY WhatTestsDo DEF Tests
  <2> QED
    BY <2>1, <2>2, RegistersTests DEF EveryTestRuns, NamesOf
<1> QED
  BY <1>1, ProgramInvariant, PTL
=============================================================================
