---------------------------- MODULE PoolsProofs -----------------------------
(***************************************************************************)
(* Threads that share an array of pools: any number of threads and pools,  *)
(* with the lock, or one thread without.  No chunk has two owners, and     *)
(* each pool behaves as if its calls came one at a time.                   *)
(***************************************************************************)
EXTENDS PoolAllocators, FiniteSetTheorems, WellFoundedInduction, TLAPS

(* No buffer ends where malloc put a block that the pools in front of it   *)
(* do not claim: a pool asked before the owner would take that block in.   *)
Harmless == \A p \in Pools : AtEnd[p] = Nowhere \/ AtEnd[p].pool \in 1..p

Labels == {"idle", "lock", "load", "store", "unlock", "aborted"}

(* The chunks of a pool, and what malloc hands out.                        *)
Home(p) == [pool : {p}, chunk : Chunks]

Block == [pool : {0}, chunk : Nat \ {0}] \cup UNION {Home(p) : p \in Pools}

ClientsOK ==
  /\ at \in [Threads -> Labels]
  /\ op \in [Threads -> {"Allocate", "Free"}]
  /\ pool \in [Threads -> Pools]
  /\ ptr \in [Threads -> Block \cup {Nowhere}]
  /\ copy \in [Threads -> [current : Int, used : Int]]
  /\ held \in [Threads -> SUBSET Block]
  /\ todo \in [Threads -> Nat]

ListsOK ==
  /\ policy \in Policies
  /\ inited \in 0..PoolsNum
  /\ freeChunks \in [Pools -> [Chunks -> Pointer]]
  /\ \A p \in Pools : freeChunks[p] \in [Chunks -> Home(p)]
  /\ current \in [Pools -> -1..(ChunksNum - 1)]
  /\ used \in [Pools -> Int]
  /\ owner \in [Pools -> Threads \cup {NoThread}]

(* Nothing happens before all pools are there.                             *)
Untouched ==
  inited < PoolsNum =>
    /\ status = "running"
    /\ \A t \in Threads : at[t] = "idle" /\ held[t] = {}
    /\ \A p \in Pools : /\ freeChunks[p] = [i \in Chunks |-> [pool |-> p, chunk |-> i]]
                        /\ current[p] = ChunksNum - 1
                        /\ used[p] = 0
                        /\ owner[p] = NoThread

(* Where a thread is within a call says what its pointer can be.           *)
InCall(t) ==
  /\ at[t] = "idle" => ptr[t] = Nowhere
  /\ at[t] \in {"lock", "load", "store", "aborted"} /\ op[t] = "Allocate" => ptr[t] = Nowhere
  /\ at[t] = "unlock" /\ op[t] = "Allocate" => ptr[t] \in Home(pool[t])
  /\ at[t] \in {"lock", "load", "store"} /\ op[t] = "Free" =>
       ptr[t] \in Block /\ (ptr[t].pool = 0 \/ pool[t] <= ptr[t].pool)
  /\ at[t] = "store" /\ op[t] = "Free" => ptr[t] \in Home(pool[t])
  /\ at[t] \in {"lock", "load", "store", "unlock"} /\ op[t] = "Allocate" => todo[t] > 0
  /\ at[t] = "aborted" => op[t] = "Allocate" /\ status = "full"

(* Between load and unlock a thread has its pool for itself: by the lock,  *)
(* or because it is the only one.                                          *)
Alone(t) ==
  /\ Locking /\ at[t] \in {"load", "store", "unlock"} => owner[pool[t]] = t
  /\ ~Locking /\ t # Main => at[t] = "idle" /\ held[t] = {} /\ todo[t] = 0
  /\ ~Locking => \A p \in Pools : owner[p] = NoThread

(* So what it loaded is still true when it stores.                         *)
CopyIsTrue(t) ==
  at[t] = "store" =>
    /\ copy[t].current = current[pool[t]]
    /\ copy[t].used = used[pool[t]]
    /\ op[t] = "Allocate" => copy[t].current >= 0

ListedOnce ==
  \A p \in Pools : \A i, j \in 0..current[p] :
    i # j => freeChunks[p][i] # freeChunks[p][j]

(* Free slots and chunks that are out are as many as there are chunks.     *)
Counted ==
  \A p \in Pools :
    /\ current[p] + 1 + Cardinality(Out(p)) = ChunksNum
    /\ used[p] = ChunkSize[p] * Cardinality(Out(p))

PoolsInv ==
  /\ status \in {"running", "full"}
  /\ status = "full" => \E t \in Threads : at[t] = "aborted"
  /\ ClientsOK /\ ListsOK /\ Untouched
  /\ \A t \in Threads : InCall(t) /\ Alone(t) /\ CopyIsTrue(t)
  /\ ListedOnce /\ NeverTwice /\ Counted

-----------------------------------------------------------------------------
(* Arithmetic and sets.                                                    *)

LEMMA ConstantTypes ==
  /\ PoolsNum \in Nat \ {0} /\ ChunksNum \in Nat \ {0} /\ SizeT \in Nat \ {0}
  /\ Main \in Threads /\ NoThread \notin Threads
  /\ \A p \in Pools : ChunkSize[p] \in Nat \ {0} /\ ChunksNum * ChunkSize[p] < SizeT
BY PoolAllocatorsAssumption

LEMMA LeastNat ==
  ASSUME NEW S \in SUBSET Nat, S # {}
  PROVE  \E m \in S : \A k \in S : m <= k
<1> DEFINE R == OpToRel(<, Nat)
<1>1. IsWellFoundedOn(R, Nat)
  BY NatLessThanWellFounded
<1>2. \A x, y \in Nat : x < y => <<x, y>> \in R
  BY DEF OpToRel
<1> HIDE DEF R
<1>3. PICK x \in S : \A y \in S : ~ (<<y, x>> \in R)
  BY <1>1, WFMin
<1>4. ASSUME NEW y \in S
      PROVE  x <= y
  <2>1. x \in Nat /\ y \in Nat
    OBVIOUS
  <2>2. ~(y < x)
    BY <1>2, <1>3, <2>1
  <2> QED
    BY <2>1, <2>2
<1> QED
  BY <1>4

(* The first pool whose chunks are large enough.                           *)
LEMMA FirstFitting ==
  ASSUME NEW size, Fitting(size) # {}
  PROVE  Min(Fitting(size)) \in Pools
<1>1. Fitting(size) \subseteq Pools /\ Pools \subseteq Nat
  BY ConstantTypes DEF Fitting, Pools
<1>2. \E m \in Fitting(size) : \A k \in Fitting(size) : m <= k
  BY <1>1, LeastNat
<1>3. Min(Fitting(size)) \in Fitting(size)
  BY <1>2 DEF Min
<1> QED
  BY <1>1, <1>3

LEMMA BlockTypes ==
  /\ \A p \in Pools, c \in Chunks : [pool |-> p, chunk |-> c] \in Home(p)
  /\ \A x \in Block : x \in Pointer /\ x # Nowhere
  /\ \A x \in Block : x.pool = 0 \/ (x.pool \in Pools /\ x \in Home(x.pool))
  /\ \A p \in Pools : \A x \in Home(p) :
       x \in Block /\ x.pool = p /\ x.chunk \in Chunks /\ x = [pool |-> p, chunk |-> x.chunk]
<1>1. \A p \in Pools : p \in Nat /\ p # 0 /\ p \in 0..PoolsNum
  BY ConstantTypes DEF Pools
<1>2. \A c \in Chunks : c \in Nat
  BY ConstantTypes DEF Chunks
<1>3. 0 \in 0..PoolsNum
  BY ConstantTypes
<1>4. \A p \in Pools, c \in Chunks : [pool |-> p, chunk |-> c] \in Home(p)
  BY DEF Home
<1>5. ASSUME NEW p \in Pools, NEW x \in Home(p)
      PROVE  /\ x \in Block /\ x.pool = p /\ x.chunk \in Chunks
             /\ x = [pool |-> p, chunk |-> x.chunk] /\ x \in Pointer /\ x # Nowhere
  <2>1. x \in [pool : {p}, chunk : Chunks]
    BY DEF Home
  <2>2. x.pool = p /\ x.chunk \in Chunks /\ x = [pool |-> p, chunk |-> x.chunk]
    BY <2>1
  <2>3. x \in Block
    BY DEF Block
  <2>4. x \in Pointer
    BY <2>2, <1>1, <1>2 DEF Pointer
  <2>5. x # Nowhere
    BY <2>2, <1>1 DEF Nowhere
  <2> QED
    BY <2>2, <2>3, <2>4, <2>5
<1>6. ASSUME NEW x \in [pool : {0}, chunk : Nat \ {0}]
      PROVE  x \in Pointer /\ x # Nowhere /\ x.pool = 0
  BY <1>3 DEF Pointer, Nowhere
<1>7. ASSUME NEW x \in Block
      PROVE  x \in Pointer /\ x # Nowhere /\ (x.pool = 0 \/ (x.pool \in Pools /\ x \in Home(x.pool)))
  <2>1. CASE x \in [pool : {0}, chunk : Nat \ {0}]
    BY <1>6, <2>1
  <2>2. CASE \E p \in Pools : x \in Home(p)
    BY <1>5, <2>2
  <2> QED
    BY <2>1, <2>2 DEF Block
<1> QED
  BY <1>4, <1>5, <1>7, Zenon

-----------------------------------------------------------------------------
(* Who has which chunk.                                                    *)

LEMMA OutIsFinite ==
  ASSUME NEW p \in Pools
  PROVE  /\ IsFiniteSet(Out(p)) /\ Cardinality(Out(p)) \in Nat
         /\ IsFiniteSet(Out(p)') /\ Cardinality(Out(p)') \in Nat
<1>1. IsFiniteSet(Chunks)
  BY FS_Interval, ConstantTypes DEF Chunks
<1>2. Out(p) \subseteq Chunks /\ Out(p)' \subseteq Chunks
  BY DEF Out
<1> QED
  BY <1>1, <1>2, FS_Subset, FS_CardinalityType

(* Steps that leave the lists alone, and who has the chunks on them.       *)
LEMMA BlocksStay ==
  ASSUME ListedOnce, NeverTwice, Counted, UNCHANGED poolVars,
         \A t \in Threads, p \in Pools, c \in Chunks :
            [pool |-> p, chunk |-> c] \in Having(t)' <=> [pool |-> p, chunk |-> c] \in Having(t),
         \A t, u \in Threads : t # u => Having(t)' \cap Having(u)' = {},
         \A t \in Threads : held[t]' \cap Moving(t)' = {},
         \A t \in Threads, p \in Pools : Having(t)' \cap Listed(p) = {}
  PROVE  ListedOnce' /\ NeverTwice' /\ Counted'
<1>1. \A p \in Pools : Out(p)' = Out(p)
  BY DEF Out
<1>2. \A p \in Pools : Listed(p)' = Listed(p)
  BY DEF Listed, poolVars
<1>3. NeverTwice'
  BY <1>2, Zenon DEF NeverTwice
<1>4. freeChunks' = freeChunks /\ current' = current /\ used' = used
  BY DEF poolVars
<1>5. ListedOnce'
  BY <1>4 DEF ListedOnce
<1>6. Counted'
  BY <1>1, <1>4 DEF Counted
<1> QED
  BY <1>3, <1>5, <1>6

LEMMA HavingStays ==
  ASSUME ListedOnce, NeverTwice, Counted, UNCHANGED poolVars,
         \A t \in Threads : Having(t)' = Having(t) /\ held[t]' \cap Moving(t)' = {}
  PROVE  ListedOnce' /\ NeverTwice' /\ Counted'
BY BlocksStay, Zenon DEF NeverTwice

-----------------------------------------------------------------------------
(* What a step of one thread leaves to the others.                         *)

(* Thread u is where it was.                                               *)
Alike(u) ==
  /\ at'[u] = at[u] /\ op'[u] = op[u] /\ pool'[u] = pool[u] /\ ptr'[u] = ptr[u]
  /\ copy'[u] = copy[u] /\ held'[u] = held[u] /\ todo'[u] = todo[u]

(* A step of t: only t moves, only the owner of a lock gives it up, and    *)
(* only a thread that stores changes a pool.                               *)
OnlyOf(t) ==
  /\ Running /\ inited = PoolsNum
  /\ UNCHANGED <<policy, inited>>
  /\ \A u \in Threads \ {t} : Alike(u)
  /\ \A p \in Pools :
       /\ owner'[p] = owner[p] \/ (Locking /\ owner[p] \in {t, NoThread})
       /\ (current'[p] = current[p] /\ used'[p] = used[p]) \/ (at[t] = "store" /\ p = pool[t])

(* And one that leaves the pools alone, and who has which of their chunks. *)
Quiet(t) ==
  /\ OnlyOf(t) /\ UNCHANGED poolVars
  /\ \E x \in Block : x.pool = 0 /\ Having(t)' \cup {x} = Having(t) \cup {x}

(* Two threads are never between load and unlock of the same pool.         *)
LEMMA OneInPool ==
  ASSUME PoolsInv, NEW t \in Threads, NEW u \in Threads, t # u,
         at[t] \in {"load", "store", "unlock"}, at[u] \in {"load", "store", "unlock"}
  PROVE  pool[t] # pool[u]
<1>1. Alone(t) /\ Alone(u)
  BY DEF PoolsInv
<1>2. CASE Locking
  BY <1>1, <1>2 DEF Alone
<1>3. CASE ~Locking
  BY <1>1, <1>3 DEF Alone
<1> QED
  BY <1>2, <1>3

LEMMA OthersKeep ==
  ASSUME PoolsInv, NEW t \in Threads, OnlyOf(t), NEW u \in Threads \ {t}
  PROVE  InCall(u)' /\ Alone(u)' /\ CopyIsTrue(u)' /\ Having(u)' = Having(u) /\ Moving(u)' = Moving(u)
<1>1. InCall(u) /\ Alone(u) /\ CopyIsTrue(u) /\ Alike(u)
  BY DEF PoolsInv, OnlyOf
<1>2. pool[u] \in Pools
  BY DEF PoolsInv, ClientsOK
<1>3. at[u] # "aborted"
  BY <1>1 DEF InCall, OnlyOf, Running
<1>4. InCall(u)'
  BY <1>1, <1>3 DEF InCall, Alike
<1>5. Locking' = Locking
  BY DEF OnlyOf, Locking
<1>6. u # NoThread
  BY ConstantTypes
<1>7. Alone(u)'
  <2>1. CASE Locking
    BY <1>1, <1>2, <1>5, <1>6, <2>1 DEF Alone, Alike, OnlyOf
  <2>2. CASE ~Locking
    BY <1>1, <1>2, <1>5, <1>6, <2>2 DEF Alone, Alike, OnlyOf
  <2> QED
    BY <2>1, <2>2
<1>8. CopyIsTrue(u)'
  <2>1. at[u] = "store" => ~(at[t] = "store" /\ pool[u] = pool[t])
    BY OneInPool
  <2> QED
    BY <1>1, <1>2, <2>1 DEF CopyIsTrue, Alike, OnlyOf
<1>9. Moving(u)' = Moving(u)
  BY <1>1 DEF Moving, Alike
<1>10. Having(u)' = Having(u)
  BY <1>1, <1>9 DEF Having, Alike
<1> QED
  BY <1>4, <1>7, <1>8, <1>9, <1>10

LEMMA StepOf ==
  ASSUME PoolsInv, NEW t \in Threads, OnlyOf(t),
         status' = "running" \/ (status' = "full" /\ at'[t] = "aborted"),
         ClientsOK', ListsOK', InCall(t)', Alone(t)', CopyIsTrue(t)',
         ListedOnce', NeverTwice', Counted'
  PROVE  PoolsInv'
<1>1. Untouched'
  BY DEF OnlyOf, Untouched, PoolsInv, ListsOK
<1>2. \A u \in Threads : InCall(u)' /\ Alone(u)' /\ CopyIsTrue(u)'
  BY OthersKeep
<1> QED
  BY <1>1, <1>2 DEF PoolsInv

(* A step of t that leaves every pool alone, and t with what it had.       *)
LEMMA SameBlocks ==
  ASSUME PoolsInv, NEW t \in Threads, OnlyOf(t), UNCHANGED poolVars,
         Having(t)' = Having(t), held'[t] \cap Moving(t)' = {}
  PROVE  ListedOnce' /\ NeverTwice' /\ Counted' /\ Quiet(t)
<1>1. ListedOnce /\ NeverTwice /\ Counted
  BY DEF PoolsInv
<1>2. \A u \in Threads \ {t} : Having(u)' = Having(u) /\ Moving(u)' = Moving(u) /\ held'[u] = held[u]
  BY OthersKeep DEF OnlyOf, Alike
<1>3. \A u \in Threads : Having(u)' = Having(u) /\ held[u]' \cap Moving(u)' = {}
  BY <1>1, <1>2 DEF NeverTwice
<1>4. Quiet(t)
  <2>1. [pool |-> 0, chunk |-> 1] \in Block
    BY DEF Block
  <2>2. Having(t)' \cup {[pool |-> 0, chunk |-> 1]} = Having(t) \cup {[pool |-> 0, chunk |-> 1]}
    BY <1>3
  <2> QED
    BY <2>1, <2>2 DEF Quiet
<1> QED
  BY <1>1, <1>3, <1>4, HavingStays

-----------------------------------------------------------------------------
(* The steps that move no chunk.                                           *)

(* The types of what t has; StartFree and Proceed find all pools there.    *)
LEMMA TypesOf ==
  ASSUME PoolsInv, NEW t \in Threads
  PROVE  /\ at[t] \in Labels /\ op[t] \in {"Allocate", "Free"} /\ pool[t] \in Pools
         /\ ptr[t] \in Block \cup {Nowhere} /\ held[t] \in SUBSET Block /\ todo[t] \in Nat
         /\ copy[t] \in [current : Int, used : Int]
         /\ Having(t) \subseteq Block
         /\ InCall(t) /\ Alone(t) /\ CopyIsTrue(t)
         /\ at[t] # "idle" \/ held[t] # {} => inited = PoolsNum
<1>1. ClientsOK /\ InCall(t) /\ Alone(t) /\ CopyIsTrue(t)
  BY DEF PoolsInv
<1>2. /\ at[t] \in Labels /\ op[t] \in {"Allocate", "Free"} /\ pool[t] \in Pools
      /\ ptr[t] \in Block \cup {Nowhere} /\ held[t] \in SUBSET Block /\ todo[t] \in Nat
      /\ copy[t] \in [current : Int, used : Int]
  BY <1>1 DEF ClientsOK
<1>3. Having(t) \subseteq Block
  BY <1>1, <1>2 DEF Having, Moving, InCall
<1>4. at[t] # "idle" \/ held[t] # {} => inited = PoolsNum
  BY ConstantTypes DEF PoolsInv, Untouched, ListsOK
<1> QED
  BY <1>1, <1>2, <1>3, <1>4

LEMMA LockKeeps ==
  ASSUME PoolsInv, NEW t \in Threads, Lock(t)
  PROVE  PoolsInv' /\ Quiet(t)
<1>1. /\ Running /\ at[t] = "lock" /\ at' = [at EXCEPT ![t] = "load"]
      /\ UNCHANGED <<policy, status, inited, poolVars, op, pool, ptr, copy, clientVars>>
      /\ Locking => owner[pool[t]] = NoThread /\ owner' = [owner EXCEPT ![pool[t]] = t]
      /\ ~Locking => owner' = owner
  BY DEF Lock, At, Goto
<1>2. ClientsOK /\ ListsOK /\ Locking' = Locking
  BY <1>1 DEF PoolsInv, Locking
<1>3. ClientsOK' /\ ListsOK'
  BY <1>1, <1>2 DEF ClientsOK, ListsOK, Labels, poolVars, clientVars
<1>4. OnlyOf(t)
  BY <1>1, <1>2, TypesOf DEF OnlyOf, Alike, ClientsOK, ListsOK, poolVars, clientVars
<1>5. /\ at'[t] = "load" /\ op'[t] = op[t] /\ pool'[t] = pool[t] /\ ptr'[t] = ptr[t]
      /\ held'[t] = held[t] /\ todo'[t] = todo[t]
  BY <1>1, <1>2 DEF ClientsOK, clientVars
<1>6. InCall(t)'
  BY <1>1, <1>5, TypesOf DEF InCall
<1>7. Alone(t)'
  BY <1>1, <1>2, <1>5, TypesOf DEF Alone, ListsOK
<1>8. CopyIsTrue(t)'
  BY <1>5 DEF CopyIsTrue
<1>9. Moving(t)' = Moving(t)
  BY <1>1, <1>5 DEF Moving
<1>10. Having(t)' = Having(t) /\ held'[t] \cap Moving(t)' = {}
  BY <1>5, <1>9 DEF Having, PoolsInv, NeverTwice
<1>11. ListedOnce' /\ NeverTwice' /\ Counted' /\ Quiet(t)
  BY <1>1, <1>4, <1>10, SameBlocks
<1> QED
  BY <1>1, <1>3, <1>4, <1>6, <1>7, <1>8, <1>11, StepOf DEF Running

LEMMA LoadAllocateKeeps ==
  ASSUME PoolsInv, NEW t \in Threads, LoadAllocate(t)
  PROVE  PoolsInv' /\ Quiet(t)
<1>1. /\ Running /\ at[t] = "load" /\ at' = [at EXCEPT ![t] = "store"]
      /\ UNCHANGED <<policy, status, inited, poolVars, owner, op, pool, ptr, clientVars>>
      /\ copy' = [copy EXCEPT ![t] = [current |-> current[pool[t]], used |-> used[pool[t]]]]
      /\ op[t] = "Allocate" /\ current[pool[t]] >= 0
  BY DEF LoadAllocate, LoadFields, At, Goto
<1>2. ClientsOK /\ ListsOK /\ Locking' = Locking
  BY <1>1 DEF PoolsInv, Locking
<1>3. ClientsOK' /\ ListsOK'
  BY <1>1, <1>2 DEF ClientsOK, ListsOK, Labels, poolVars, clientVars
<1>4. OnlyOf(t)
  BY <1>1, <1>2, TypesOf DEF OnlyOf, Alike, ClientsOK, ListsOK, poolVars, clientVars
<1>5. /\ at'[t] = "store" /\ op'[t] = op[t] /\ pool'[t] = pool[t] /\ ptr'[t] = ptr[t]
      /\ held'[t] = held[t] /\ todo'[t] = todo[t]
      /\ copy'[t] = [current |-> current[pool[t]], used |-> used[pool[t]]]
  BY <1>1, <1>2 DEF ClientsOK, clientVars
<1>6. InCall(t)'
  BY <1>1, <1>5, TypesOf DEF InCall
<1>7. Alone(t)'
  BY <1>1, <1>2, <1>5, TypesOf DEF Alone
<1>8. CopyIsTrue(t)'
  BY <1>1, <1>5 DEF CopyIsTrue, poolVars
<1>9. Moving(t)' = Moving(t)
  BY <1>1, <1>5 DEF Moving
<1>10. Having(t)' = Having(t) /\ held'[t] \cap Moving(t)' = {}
  BY <1>5, <1>9 DEF Having, PoolsInv, NeverTwice
<1>11. ListedOnce' /\ NeverTwice' /\ Counted' /\ Quiet(t)
  BY <1>1, <1>4, <1>10, SameBlocks
<1> QED
  BY <1>1, <1>3, <1>4, <1>6, <1>7, <1>8, <1>11, StepOf DEF Running

(* A pool takes in only what is its own, if the buffers lie harmlessly.    *)
LEMMA TakenInIsOwn ==
  ASSUME Harmless, PoolsInv, NEW t \in Threads, at[t] = "load", op[t] = "Free",
         InBuffer(pool[t], ptr[t])
  PROVE  ptr[t] \in Home(pool[t])
<1>1. ptr[t] \in Block /\ (ptr[t].pool = 0 \/ pool[t] <= ptr[t].pool) /\ pool[t] \in Pools
  BY TypesOf DEF InCall
<1>2. pool[t] \in Nat /\ pool[t] # 0 /\ \A p \in Pools : p \in Nat /\ p # 0
  BY <1>1, ConstantTypes DEF Pools
<1>3. ptr[t].pool = pool[t]
  <2>1. CASE ptr[t] = AtEnd[pool[t]] /\ ptr[t] # Nowhere
    <3>1. ptr[t].pool \in 1..pool[t]
      BY <1>1, <2>1 DEF Harmless
    <3> QED
      BY <1>1, <1>2, <3>1
  <2> QED
    BY <2>1 DEF InBuffer
<1> QED
  BY <1>1, <1>2, <1>3, BlockTypes

LEMMA LoadFreeKeeps ==
  ASSUME Harmless, PoolsInv, NEW t \in Threads, LoadFree(t)
  PROVE  PoolsInv' /\ Quiet(t)
<1>1. /\ Running /\ at[t] = "load" /\ at' = [at EXCEPT ![t] = "store"]
      /\ UNCHANGED <<policy, status, inited, poolVars, owner, op, pool, ptr, clientVars>>
      /\ copy' = [copy EXCEPT ![t] = [current |-> current[pool[t]], used |-> used[pool[t]]]]
      /\ op[t] = "Free" /\ InBuffer(pool[t], ptr[t])
  BY DEF LoadFree, LoadFields, At, Goto
<1>2. ClientsOK /\ ListsOK /\ Locking' = Locking
  BY <1>1 DEF PoolsInv, Locking
<1>3. ClientsOK' /\ ListsOK'
  BY <1>1, <1>2, TypesOf DEF ClientsOK, ListsOK, Labels, poolVars, clientVars
<1>4. OnlyOf(t)
  BY <1>1, <1>2, TypesOf DEF OnlyOf, Alike, ClientsOK, ListsOK, poolVars, clientVars
<1>5. /\ at'[t] = "store" /\ op'[t] = op[t] /\ pool'[t] = pool[t] /\ ptr'[t] = ptr[t]
      /\ held'[t] = held[t] /\ todo'[t] = todo[t]
      /\ copy'[t] = [current |-> current[pool[t]], used |-> used[pool[t]]]
  BY <1>1, <1>2 DEF ClientsOK, clientVars
<1>6. InCall(t)'
  BY <1>1, <1>5, TypesOf, TakenInIsOwn DEF InCall
<1>7. Alone(t)'
  BY <1>1, <1>2, <1>5, TypesOf DEF Alone
<1>8. CopyIsTrue(t)'
  BY <1>1, <1>5 DEF CopyIsTrue, poolVars
<1>9. Moving(t)' = Moving(t)
  BY <1>1, <1>5 DEF Moving
<1>10. Having(t)' = Having(t) /\ held'[t] \cap Moving(t)' = {}
  BY <1>5, <1>9 DEF Having, PoolsInv, NeverTwice
<1>11. ListedOnce' /\ NeverTwice' /\ Counted' /\ Quiet(t)
  BY <1>1, <1>4, <1>10, SameBlocks
<1> QED
  BY <1>1, <1>3, <1>4, <1>6, <1>7, <1>8, <1>11, StepOf DEF Running

LEMMA UnlockKeeps ==
  ASSUME PoolsInv, NEW t \in Threads, Unlock(t)
  PROVE  PoolsInv' /\ Quiet(t)
<1>1. /\ Running /\ at[t] = "unlock" /\ at' = [at EXCEPT ![t] = "idle"]
      /\ UNCHANGED <<policy, status, inited, poolVars, op, pool, copy>>
      /\ ptr' = [ptr EXCEPT ![t] = Nowhere]
      /\ owner' = IF Locking THEN [owner EXCEPT ![pool[t]] = NoThread] ELSE owner
      /\ op[t] = "Allocate" => /\ held' = [held EXCEPT ![t] = held[t] \cup {ptr[t]}]
                               /\ todo' = [todo EXCEPT ![t] = todo[t] - 1]
      /\ op[t] # "Allocate" => UNCHANGED clientVars
  BY DEF Unlock, At, Goto
<1>2. ClientsOK /\ ListsOK /\ Locking' = Locking
  BY <1>1 DEF PoolsInv, Locking
<1>3. op[t] = "Allocate" => ptr[t] \in Block /\ ptr[t] # Nowhere /\ todo[t] - 1 \in Nat
  BY <1>1, TypesOf, BlockTypes DEF InCall
<1>4. ClientsOK'
  <2>1. CASE op[t] = "Allocate"
    <3>1. held'[t] \in SUBSET Block /\ todo'[t] \in Nat
      BY <1>1, <1>2, <1>3, <2>1, TypesOf DEF ClientsOK
    <3>2. held' \in [Threads -> SUBSET Block] /\ todo' \in [Threads -> Nat]
      BY <1>1, <1>2, <2>1, <3>1 DEF ClientsOK
    <3> QED
      BY <1>1, <1>2, <3>2 DEF ClientsOK, Labels
  <2>2. CASE op[t] # "Allocate"
    BY <1>1, <1>2, <2>2 DEF ClientsOK, Labels, clientVars
  <2> QED
    BY <2>1, <2>2
<1>5. ListsOK'
  BY <1>1, <1>2 DEF ListsOK, poolVars
<1>6. OnlyOf(t)
  <2>1. \A u \in Threads \ {t} : Alike(u)
    BY <1>1, <1>2 DEF Alike, ClientsOK, clientVars
  <2>2. Locking => owner[pool[t]] = t
    BY <1>1, TypesOf DEF Alone
  <2> QED
    BY <1>1, <1>2, <2>1, <2>2, TypesOf DEF OnlyOf, ListsOK, poolVars
<1>7. /\ at'[t] = "idle" /\ op'[t] = op[t] /\ ptr'[t] = Nowhere
      /\ held'[t] = held[t] \cup (IF op[t] = "Allocate" THEN {ptr[t]} ELSE {})
      /\ ~Locking => t = Main
  BY <1>1, <1>2, TypesOf DEF ClientsOK, clientVars, Alone
<1>8. InCall(t)'
  BY <1>7 DEF InCall
<1>9. Alone(t)'
  BY <1>1, <1>2, <1>7, TypesOf DEF Alone
<1>10. CopyIsTrue(t)'
  BY <1>7 DEF CopyIsTrue
<1>11. Moving(t)' = {} /\ Moving(t) = IF op[t] = "Allocate" THEN {ptr[t]} ELSE {}
  BY <1>1, <1>3, <1>7 DEF Moving
<1>12. Having(t)' = Having(t) /\ held'[t] \cap Moving(t)' = {}
  BY <1>7, <1>11 DEF Having
<1>13. ListedOnce' /\ NeverTwice' /\ Counted' /\ Quiet(t)
  BY <1>1, <1>6, <1>12, SameBlocks
<1> QED
  BY <1>1, <1>4, <1>5, <1>6, <1>8, <1>9, <1>10, <1>13, StepOf DEF Running

LEMMA StartFreeKeeps ==
  ASSUME PoolsInv, NEW t \in Threads, NEW x \in held[t], StartFree(t, x)
  PROVE  PoolsInv' /\ Quiet(t)
<1>1. /\ Running /\ at[t] = "idle" /\ at' = [at EXCEPT ![t] = "lock"]
      /\ UNCHANGED <<policy, status, inited, poolVars, owner, copy, todo>>
      /\ op' = [op EXCEPT ![t] = "Free"] /\ pool' = [pool EXCEPT ![t] = 1]
      /\ ptr' = [ptr EXCEPT ![t] = x] /\ held' = [held EXCEPT ![t] = held[t] \ {x}]
  BY DEF StartFree, At, Goto
<1>2. ClientsOK /\ ListsOK /\ Locking' = Locking /\ x \in Block
  BY <1>1, TypesOf DEF PoolsInv, Locking
<1>3. 1 \in Pools
  BY ConstantTypes DEF Pools
<1>4. held[t] \ {x} \in SUBSET Block
  BY TypesOf
<1>5. ClientsOK'
  BY <1>1, <1>2, <1>3, <1>4 DEF ClientsOK, Labels
<1>6. ListsOK'
  BY <1>1, <1>2 DEF ListsOK, poolVars
<1>7. OnlyOf(t)
  BY <1>1, <1>2, TypesOf DEF OnlyOf, Alike, ClientsOK, ListsOK, poolVars
<1>8. /\ at'[t] = "lock" /\ op'[t] = "Free" /\ pool'[t] = 1 /\ ptr'[t] = x
      /\ held'[t] = held[t] \ {x} /\ (~Locking => t = Main)
  BY <1>1, <1>2, TypesOf DEF ClientsOK, Alone
<1>9. x.pool = 0 \/ 1 <= x.pool
  BY <1>2, BlockTypes, ConstantTypes DEF Pools
<1>10. InCall(t)'
  BY <1>2, <1>8, <1>9 DEF InCall
<1>11. Alone(t)'
  BY <1>1, <1>2, <1>8, TypesOf DEF Alone
<1>12. CopyIsTrue(t)'
  BY <1>8 DEF CopyIsTrue
<1>13. Moving(t)' = {x} /\ Moving(t) = {}
  BY <1>1, <1>8, TypesOf DEF Moving, InCall
<1>14. Having(t)' = Having(t) /\ held'[t] \cap Moving(t)' = {}
  BY <1>8, <1>13 DEF Having
<1>15. ListedOnce' /\ NeverTwice' /\ Counted' /\ Quiet(t)
  BY <1>1, <1>7, <1>14, SameBlocks
<1> QED
  BY <1>1, <1>5, <1>6, <1>7, <1>10, <1>11, <1>12, <1>15, StepOf DEF Running

-----------------------------------------------------------------------------
(* The steps that get a block from malloc or give one back.                *)

LEMMA ListedAtHome ==
  ASSUME PoolsInv, NEW p \in Pools
  PROVE  Listed(p) \subseteq Home(p)
<1>1. freeChunks[p] \in [Chunks -> Home(p)] /\ current[p] \in -1..(ChunksNum - 1)
  BY DEF PoolsInv, ListsOK
<1>2. 0..current[p] \subseteq Chunks
  BY <1>1, ConstantTypes DEF Chunks
<1> QED
  BY <1>1, <1>2 DEF Listed

LEMMA OtherBlocks ==
  ASSUME PoolsInv, NEW t \in Threads, OnlyOf(t), UNCHANGED poolVars,
         NEW x \in Block, x.pool = 0, \A u \in Threads \ {t} : x \notin Having(u),
         Having(t)' \cup {x} = Having(t) \cup {x}, held'[t] \cap Moving(t)' = {}
  PROVE  ListedOnce' /\ NeverTwice' /\ Counted' /\ Quiet(t)
<1>1. ListedOnce /\ NeverTwice /\ Counted
  BY DEF PoolsInv
<1>2. \A u \in Threads \ {t} : Having(u)' = Having(u) /\ held'[u] \cap Moving(u)' = {}
  BY OthersKeep, <1>1 DEF OnlyOf, Alike, NeverTwice
<1>3. \A p \in Pools : x \notin Home(p) /\ x \notin Listed(p)
  BY BlockTypes, ListedAtHome, ConstantTypes DEF Pools
<1>4. \A u \in Threads, p \in Pools, c \in Chunks :
         [pool |-> p, chunk |-> c] \in Having(u)' <=> [pool |-> p, chunk |-> c] \in Having(u)
  <2> SUFFICES ASSUME NEW u \in Threads, NEW p \in Pools, NEW c \in Chunks
               PROVE  [pool |-> p, chunk |-> c] \in Having(u)' <=> [pool |-> p, chunk |-> c] \in Having(u)
    OBVIOUS
  <2>1. [pool |-> p, chunk |-> c] # x
    BY <1>3, BlockTypes
  <2>2. CASE u = t
    BY <2>1, <2>2
  <2>3. CASE u # t
    BY <1>2, <2>3
  <2> QED
    BY <2>2, <2>3
<1>5. \A u, v \in Threads : u # v => Having(u)' \cap Having(v)' = {}
  BY <1>1, <1>2 DEF NeverTwice
<1>6. \A u \in Threads : held[u]' \cap Moving(u)' = {}
  BY <1>2
<1>7. \A u \in Threads, p \in Pools : Having(u)' \cap Listed(p) = {}
  BY <1>1, <1>2, <1>3 DEF NeverTwice
<1>8. Quiet(t)
  BY DEF Quiet
<1> QED
  BY <1>1, <1>4, <1>5, <1>6, <1>7, <1>8, BlocksStay

LEMMA FreeMissedKeeps ==
  ASSUME PoolsInv, NEW t \in Threads, FreeMissed(t)
  PROVE  PoolsInv' /\ Quiet(t)
<1>1. /\ Running /\ at[t] = "load" /\ op[t] = "Free" /\ ~InBuffer(pool[t], ptr[t])
      /\ UNCHANGED <<policy, status, inited, poolVars, owner, op, copy, clientVars>>
      /\ pool[t] < PoolsNum => /\ pool' = [pool EXCEPT ![t] = pool[t] + 1]
                               /\ at' = [at EXCEPT ![t] = "lock"]
                               /\ ptr' = ptr
      /\ ~(pool[t] < PoolsNum) => /\ ptr' = [ptr EXCEPT ![t] = Nowhere]
                                  /\ at' = [at EXCEPT ![t] = "idle"]
                                  /\ pool' = pool
  BY DEF FreeMissed, At, Goto
<1>2. ClientsOK /\ ListsOK /\ Locking' = Locking
  BY <1>1 DEF PoolsInv, Locking
<1>3. /\ ptr[t] \in Block /\ (ptr[t].pool = 0 \/ pool[t] <= ptr[t].pool) /\ pool[t] \in Pools
      /\ ptr[t].pool = 0 \/ ptr[t].pool \in Pools
      /\ ptr[t].pool # pool[t]
  BY <1>1, TypesOf, BlockTypes DEF InCall, InBuffer
<1>4. pool[t] < PoolsNum => pool[t] + 1 \in Pools
  BY <1>3, ConstantTypes DEF Pools
<1>5. ClientsOK'
  <2>1. CASE pool[t] < PoolsNum
    <3>1. pool' = [pool EXCEPT ![t] = pool[t] + 1] /\ at' = [at EXCEPT ![t] = "lock"]
      BY <1>1, <2>1
    <3>2. pool[t] + 1 \in Pools
      BY <1>4, <2>1
    <3>3. pool' \in [Threads -> Pools]
      BY <1>2, <3>1, <3>2 DEF ClientsOK
    <3>4. at' \in [Threads -> Labels]
      BY <1>2, <3>1 DEF ClientsOK, Labels
    <3>5. ptr' = ptr
      BY <1>1, <2>1
    <3> QED
      BY <1>1, <1>2, <3>3, <3>4, <3>5 DEF ClientsOK, clientVars
  <2>2. CASE ~(pool[t] < PoolsNum)
    <3>1. /\ ptr' = [ptr EXCEPT ![t] = Nowhere] /\ at' = [at EXCEPT ![t] = "idle"]
          /\ pool' = pool
      BY <1>1, <2>2
    <3>2. ptr' \in [Threads -> Block \cup {Nowhere}]
      BY <1>2, <3>1 DEF ClientsOK
    <3>3. at' \in [Threads -> Labels]
      BY <1>2, <3>1 DEF ClientsOK, Labels
    <3> QED
      BY <1>1, <1>2, <3>1, <3>2, <3>3 DEF ClientsOK, clientVars
  <2> QED
    BY <2>1, <2>2
<1>6. ListsOK'
  BY <1>1, <1>2 DEF ListsOK, poolVars
<1>7. OnlyOf(t)
  <2>1. \A u \in Threads \ {t} : Alike(u)
    BY <1>1, <1>2 DEF Alike, ClientsOK, clientVars
  <2> QED
    BY <1>1, <2>1, TypesOf DEF OnlyOf, poolVars
<1>8. /\ op'[t] = "Free" /\ held'[t] = held[t] /\ (~Locking => t = Main)
      /\ pool[t] < PoolsNum => at'[t] = "lock" /\ pool'[t] = pool[t] + 1 /\ ptr'[t] = ptr[t]
      /\ ~(pool[t] < PoolsNum) => at'[t] = "idle" /\ ptr'[t] = Nowhere
  BY <1>1, <1>2, TypesOf DEF ClientsOK, clientVars, Alone
<1>9. ptr[t].pool = 0 \/ pool[t] + 1 <= ptr[t].pool
  BY <1>3, ConstantTypes DEF Pools
<1>10. InCall(t)'
  BY <1>3, <1>8, <1>9 DEF InCall
<1>11. Alone(t)'
  BY <1>1, <1>2, <1>8, TypesOf DEF Alone
<1>12. CopyIsTrue(t)'
  BY <1>8 DEF CopyIsTrue
<1>13. Moving(t) = {ptr[t]}
  BY <1>1 DEF Moving
<1>14. ListedOnce' /\ NeverTwice' /\ Counted' /\ Quiet(t)
  <2>1. CASE pool[t] < PoolsNum
    <3>1. Moving(t)' = {ptr[t]}
      BY <1>8, <2>1 DEF Moving
    <3>2. Having(t)' = Having(t) /\ held'[t] \cap Moving(t)' = {}
      BY <1>8, <1>13, <3>1 DEF Having, PoolsInv, NeverTwice
    <3> QED
      BY <1>1, <1>7, <3>2, SameBlocks
  <2>2. CASE ~(pool[t] < PoolsNum)
    <3>1. Moving(t)' = {}
      BY <1>8, <2>2 DEF Moving
    <3>2. Having(t)' \cup {ptr[t]} = Having(t) \cup {ptr[t]} /\ held'[t] \cap Moving(t)' = {}
      BY <1>8, <1>13, <3>1 DEF Having
    <3>3. ptr[t].pool = 0
      <4>1. ptr[t].pool \in Pools => ptr[t].pool \in Nat /\ ptr[t].pool <= PoolsNum
        BY ConstantTypes DEF Pools
      <4>2. pool[t] \in Nat /\ PoolsNum \in Nat /\ PoolsNum <= pool[t]
        BY <1>3, <2>2, ConstantTypes DEF Pools
      <4> QED
        BY <1>3, <4>1, <4>2
    <3>4. \A u \in Threads \ {t} : ptr[t] \notin Having(u)
      BY <1>13 DEF Having, PoolsInv, NeverTwice
    <3> QED
      BY <1>1, <1>3, <1>7, <3>2, <3>3, <3>4, OtherBlocks
  <2> QED
    BY <2>1, <2>2
<1> QED
  BY <1>1, <1>5, <1>6, <1>7, <1>10, <1>11, <1>12, <1>14, StepOf DEF Running

(* A block from malloc is nobody's.                                        *)
LEMMA FallbackGives ==
  ASSUME PoolsInv, NEW t \in Threads, Fallback(t), todo[t] > 0
  PROVE  /\ \E x \in Block : /\ x.pool = 0
                             /\ \A u \in Threads : x \notin Having(u)
                             /\ held' = [held EXCEPT ![t] = held[t] \cup {x}]
         /\ todo' = [todo EXCEPT ![t] = todo[t] - 1]
         /\ held' \in [Threads -> SUBSET Block] /\ todo' \in [Threads -> Nat]
<1>1. PICK x \in Fresh : /\ held' = [held EXCEPT ![t] = held[t] \cup {x}]
                         /\ todo' = [todo EXCEPT ![t] = todo[t] - 1]
  BY DEF Fallback
<1>2. x \in [pool : {0}, chunk : Nat \ {0}] /\ x \notin Allocated
  BY PoolAllocatorsAssumption DEF Fresh
<1>3. x \in Block /\ x.pool = 0
  BY <1>2 DEF Block
<1>4. \A u \in Threads : x \notin Having(u)
  <2> SUFFICES ASSUME NEW u \in Threads
               PROVE  x \notin held[u] /\ x \notin Moving(u)
    BY DEF Having
  <2>1. held[u] \subseteq Allocated /\ ptr[u] \in Allocated
    BY DEF Allocated
  <2>2. Moving(u) \subseteq {ptr[u]}
    BY DEF Moving
  <2> QED
    BY <1>2, <2>1, <2>2
<1>5. held' \in [Threads -> SUBSET Block] /\ todo' \in [Threads -> Nat]
  BY <1>1, <1>3 DEF PoolsInv, ClientsOK
<1> QED
  BY <1>1, <1>3, <1>4, <1>5

LEMMA AllocateFullKeeps ==
  ASSUME PoolsInv, NEW t \in Threads, AllocateFull(t)
  PROVE  PoolsInv' /\ Quiet(t)
<1>1. /\ Running /\ at[t] = "load" /\ op[t] = "Allocate"
      /\ UNCHANGED <<policy, inited, poolVars, owner, op, pool, ptr, copy>>
      /\ IF NDEBUG THEN Fallback(t) /\ at' = [at EXCEPT ![t] = "idle"] /\ UNCHANGED status
         ELSE status' = "full" /\ at' = [at EXCEPT ![t] = "aborted"] /\ UNCHANGED clientVars
  BY DEF AllocateFull, At, Goto
<1>2. ClientsOK /\ ListsOK /\ Locking' = Locking
  BY <1>1 DEF PoolsInv, Locking
<1>3. ptr[t] = Nowhere /\ todo[t] > 0
  BY <1>1, TypesOf DEF InCall
<1>4. ListsOK'
  BY <1>1, <1>2 DEF ListsOK, poolVars
<1>5. ~Locking => t = Main
  BY <1>1, TypesOf DEF Alone
<1>6. CASE NDEBUG
  <2>1. PICK x \in Block : /\ x.pool = 0 /\ \A u \in Threads : x \notin Having(u)
                           /\ held' = [held EXCEPT ![t] = held[t] \cup {x}]
    BY <1>1, <1>3, <1>6, FallbackGives
  <2>2. /\ at' = [at EXCEPT ![t] = "idle"] /\ status' = status
        /\ todo' = [todo EXCEPT ![t] = todo[t] - 1]
        /\ held' \in [Threads -> SUBSET Block] /\ todo' \in [Threads -> Nat]
    BY <1>1, <1>3, <1>6, FallbackGives
  <2>3. ClientsOK'
    BY <1>1, <1>2, <2>2 DEF ClientsOK, Labels
  <2>4. OnlyOf(t)
    <3>1. \A u \in Threads \ {t} : Alike(u)
      BY <1>1, <1>2, <2>1, <2>2 DEF Alike, ClientsOK
    <3> QED
      BY <1>1, <3>1, TypesOf DEF OnlyOf, poolVars
  <2>5. at'[t] = "idle" /\ op'[t] = "Allocate" /\ ptr'[t] = Nowhere /\ held'[t] = held[t] \cup {x}
    BY <1>1, <1>2, <1>3, <2>1, <2>2 DEF ClientsOK
  <2>6. InCall(t)' /\ CopyIsTrue(t)'
    BY <2>5 DEF InCall, CopyIsTrue
  <2>7. Alone(t)'
    BY <1>1, <1>2, <1>5, <2>5, TypesOf DEF Alone
  <2>8. Moving(t) = {} /\ Moving(t)' = {}
    BY <1>1, <1>3, <2>5 DEF Moving
  <2>9. Having(t)' \cup {x} = Having(t) \cup {x} /\ held'[t] \cap Moving(t)' = {}
    BY <2>5, <2>8 DEF Having
  <2>10. ListedOnce' /\ NeverTwice' /\ Counted' /\ Quiet(t)
    BY <1>1, <2>1, <2>4, <2>9, OtherBlocks
  <2> QED
    BY <1>1, <1>4, <2>2, <2>3, <2>4, <2>6, <2>7, <2>10, StepOf DEF Running
<1>7. CASE ~NDEBUG
  <2>1. /\ status' = "full" /\ at' = [at EXCEPT ![t] = "aborted"] /\ UNCHANGED clientVars
    BY <1>1, <1>7
  <2>2. ClientsOK'
    BY <1>1, <1>2, <2>1 DEF ClientsOK, Labels, clientVars
  <2>3. OnlyOf(t)
    BY <1>1, <1>2, <2>1, TypesOf DEF OnlyOf, Alike, ClientsOK, poolVars, clientVars
  <2>4. at'[t] = "aborted" /\ op'[t] = "Allocate" /\ ptr'[t] = Nowhere /\ held'[t] = held[t]
    BY <1>1, <1>2, <1>3, <2>1 DEF ClientsOK, clientVars
  <2>5. InCall(t)' /\ CopyIsTrue(t)'
    BY <2>1, <2>4 DEF InCall, CopyIsTrue
  <2>6. Alone(t)'
    BY <1>1, <1>2, <1>5, <2>4, TypesOf DEF Alone
  <2>7. Moving(t) = {} /\ Moving(t)' = {}
    BY <1>1, <1>3, <2>4 DEF Moving
  <2>8. Having(t)' = Having(t) /\ held'[t] \cap Moving(t)' = {}
    BY <2>4, <2>7 DEF Having
  <2>9. ListedOnce' /\ NeverTwice' /\ Counted' /\ Quiet(t)
    BY <1>1, <2>3, <2>8, SameBlocks
  <2> QED
    BY <1>4, <2>1, <2>2, <2>3, <2>4, <2>5, <2>6, <2>9, StepOf
<1> QED
  BY <1>6, <1>7

LEMMA StartAllocateKeeps ==
  ASSUME PoolsInv, NEW t \in Threads, NEW size, StartAllocate(t, size)
  PROVE  PoolsInv' /\ Quiet(t)
<1>1. /\ Running /\ at[t] = "idle" /\ inited = PoolsNum /\ todo[t] > 0
      /\ UNCHANGED <<policy, status, inited, poolVars, owner, copy>>
      /\ IF Fitting(size) = {}
         THEN Fallback(t) /\ UNCHANGED <<at, op, pool, ptr>>
         ELSE /\ at' = [at EXCEPT ![t] = "lock"]
              /\ op' = [op EXCEPT ![t] = "Allocate"]
              /\ pool' = [pool EXCEPT ![t] = Min(Fitting(size))]
              /\ ptr' = [ptr EXCEPT ![t] = Nowhere]
              /\ UNCHANGED clientVars
  BY DEF StartAllocate, At, Goto
<1>2. ClientsOK /\ ListsOK /\ Locking' = Locking
  BY <1>1 DEF PoolsInv, Locking
<1>3. ptr[t] = Nowhere /\ Moving(t) = {}
  BY <1>1, TypesOf DEF InCall, Moving
<1>4. ListsOK'
  BY <1>1, <1>2 DEF ListsOK, poolVars
<1>5. ~Locking => t = Main
  BY <1>1, TypesOf DEF Alone
<1>6. CASE Fitting(size) = {}
  <2>1. PICK x \in Block : /\ x.pool = 0 /\ \A u \in Threads : x \notin Having(u)
                           /\ held' = [held EXCEPT ![t] = held[t] \cup {x}]
    BY <1>1, <1>6, FallbackGives
  <2>2. /\ UNCHANGED <<at, op, pool, ptr>>
        /\ todo' = [todo EXCEPT ![t] = todo[t] - 1]
        /\ held' \in [Threads -> SUBSET Block] /\ todo' \in [Threads -> Nat]
    BY <1>1, <1>6, FallbackGives
  <2>3. ClientsOK'
    BY <1>1, <1>2, <2>2 DEF ClientsOK, Labels
  <2>4. OnlyOf(t)
    <3>1. \A u \in Threads \ {t} : Alike(u)
      BY <1>1, <1>2, <2>1, <2>2 DEF Alike, ClientsOK
    <3> QED
      BY <1>1, <3>1 DEF OnlyOf, poolVars
  <2>5. at'[t] = "idle" /\ op'[t] = op[t] /\ ptr'[t] = Nowhere /\ held'[t] = held[t] \cup {x}
    BY <1>1, <1>2, <1>3, <2>1, <2>2 DEF ClientsOK
  <2>6. InCall(t)' /\ CopyIsTrue(t)'
    BY <2>5 DEF InCall, CopyIsTrue
  <2>7. Alone(t)'
    BY <1>1, <1>2, <1>5, <2>5, TypesOf DEF Alone
  <2>8. Moving(t)' = {}
    BY <2>5 DEF Moving
  <2>9. Having(t)' \cup {x} = Having(t) \cup {x} /\ held'[t] \cap Moving(t)' = {}
    BY <1>3, <2>5, <2>8 DEF Having
  <2>10. ListedOnce' /\ NeverTwice' /\ Counted' /\ Quiet(t)
    BY <1>1, <2>1, <2>4, <2>9, OtherBlocks
  <2> QED
    BY <1>1, <1>4, <2>3, <2>4, <2>6, <2>7, <2>10, StepOf DEF Running
<1>7. CASE Fitting(size) # {}
  <2>1. Min(Fitting(size)) \in Pools
    BY <1>7, FirstFitting
  <2>2. /\ at' = [at EXCEPT ![t] = "lock"] /\ op' = [op EXCEPT ![t] = "Allocate"]
        /\ pool' = [pool EXCEPT ![t] = Min(Fitting(size))]
        /\ ptr' = [ptr EXCEPT ![t] = Nowhere] /\ UNCHANGED clientVars
    BY <1>1, <1>7
  <2>3. ClientsOK'
    BY <1>1, <1>2, <2>1, <2>2 DEF ClientsOK, Labels, clientVars
  <2>4. OnlyOf(t)
    BY <1>1, <1>2, <2>2 DEF OnlyOf, Alike, ClientsOK, poolVars, clientVars
  <2>5. /\ at'[t] = "lock" /\ op'[t] = "Allocate" /\ ptr'[t] = Nowhere
        /\ held'[t] = held[t] /\ todo'[t] = todo[t]
    BY <1>1, <1>2, <2>2 DEF ClientsOK, clientVars
  <2>6. InCall(t)' /\ CopyIsTrue(t)'
    BY <1>1, <2>5 DEF InCall, CopyIsTrue
  <2>7. Alone(t)'
    BY <1>1, <1>2, <1>5, <2>5, TypesOf DEF Alone
  <2>8. Moving(t)' = {}
    BY <2>5 DEF Moving
  <2>9. Having(t)' = Having(t) /\ held'[t] \cap Moving(t)' = {}
    BY <1>3, <2>5, <2>8 DEF Having
  <2>10. ListedOnce' /\ NeverTwice' /\ Counted' /\ Quiet(t)
    BY <1>1, <2>4, <2>9, SameBlocks
  <2> QED
    BY <1>1, <1>4, <2>3, <2>4, <2>6, <2>7, <2>10, StepOf DEF Running
<1> QED
  BY <1>6, <1>7

-----------------------------------------------------------------------------
(* The steps that take a chunk off the list of a pool or put it back.      *)

LEMMA Multiples ==
  ASSUME NEW k \in Nat, NEW a \in Nat, NEW b \in Nat, a <= b
  PROVE  k * a \in Nat /\ k * a <= k * b /\ k * (a + 1) = k * a + k
OBVIOUS

(* The other pools have the chunks they had.                               *)
LEMMA OtherPools ==
  ASSUME PoolsInv, NEW t \in Threads, OnlyOf(t), NEW p \in Pools, NEW q \in Pools \ {p},
         freeChunks'[q] = freeChunks[q], current'[q] = current[q],
         NEW x \in Home(p), Having(t)' \cup {x} = Having(t) \cup {x}
  PROVE  Listed(q)' = Listed(q) /\ Out(q)' = Out(q)
<1>1. Listed(q)' = Listed(q)
  BY DEF Listed
<1>2. ASSUME NEW c \in Chunks, NEW u \in Threads
      PROVE  [pool |-> q, chunk |-> c] \in Having(u)' <=> [pool |-> q, chunk |-> c] \in Having(u)
  <2>1. [pool |-> q, chunk |-> c] # x
    BY BlockTypes
  <2>2. CASE u = t
    BY <2>1, <2>2
  <2>3. CASE u # t
    BY OthersKeep, <2>3
  <2> QED
    BY <2>2, <2>3
<1> QED
  BY <1>1, <1>2 DEF Out

(* StoreAllocate takes the chunk on top of the list.                       *)
LEMMA Pops ==
  ASSUME PoolsInv, NEW t \in Threads, StoreAllocate(t), NEW p, p = pool[t]
  PROVE  LET x == freeChunks[p][current[p]]
         IN  /\ OnlyOf(t) /\ p \in Pools /\ current[p] \in Chunks
             /\ freeChunks' = freeChunks
             /\ current' = [current EXCEPT ![p] = current[p] - 1]
             /\ used' = [used EXCEPT ![p] = (used[p] + ChunkSize[p]) % SizeT]
             /\ ptr' = [ptr EXCEPT ![t] = x]
             /\ x \in Home(p) /\ x \in Listed(p)
             /\ Moving(t) = {} /\ Moving(t)' = {x} /\ held'[t] = held[t]
             /\ at'[t] = "unlock" /\ op'[t] = "Allocate" /\ pool'[t] = p /\ ptr'[t] = x
             /\ todo'[t] = todo[t]
<1>1. /\ Running /\ at[t] = "store" /\ op[t] = "Allocate"
      /\ at' = [at EXCEPT ![t] = "unlock"]
      /\ ptr' = [ptr EXCEPT ![t] = freeChunks[p][copy[t].current]]
      /\ current' = [current EXCEPT ![p] = copy[t].current - 1]
      /\ used' = [used EXCEPT ![p] = (copy[t].used + ChunkSize[p]) % SizeT]
      /\ UNCHANGED <<policy, status, inited, freeChunks, owner, op, pool, copy, clientVars>>
  BY DEF StoreAllocate, At, Goto
<1>2. ClientsOK /\ ListsOK
  BY DEF PoolsInv
<1>3. /\ copy[t].current = current[p] /\ copy[t].used = used[p] /\ current[p] >= 0
      /\ p \in Pools /\ ptr[t] = Nowhere
  BY <1>1, TypesOf DEF CopyIsTrue, InCall
<1>4. current[p] \in Chunks /\ freeChunks[p] \in [Chunks -> Home(p)]
  BY <1>2, <1>3, ConstantTypes DEF ListsOK, Chunks
<1> DEFINE x == freeChunks[p][current[p]]
<1>5. x \in Home(p) /\ x \in Listed(p)
  BY <1>3, <1>4, ConstantTypes DEF Listed, Chunks
<1>6. OnlyOf(t)
  <2>1. \A u \in Threads \ {t} : Alike(u)
    BY <1>1, <1>2 DEF Alike, ClientsOK, clientVars
  <2> QED
    BY <1>1, <1>2, <2>1, TypesOf DEF OnlyOf, ListsOK
<1>7. /\ at'[t] = "unlock" /\ op'[t] = "Allocate" /\ pool'[t] = p /\ ptr'[t] = x
      /\ held'[t] = held[t] /\ todo'[t] = todo[t]
  BY <1>1, <1>2, <1>3 DEF ClientsOK, clientVars
<1>8. Moving(t) = {} /\ Moving(t)' = {x}
  BY <1>1, <1>3, <1>5, <1>7, BlockTypes DEF Moving
<1> QED
  BY <1>1, <1>3, <1>4, <1>5, <1>6, <1>7, <1>8

(* So one more chunk of that pool is out, and no more than there are.      *)
LEMMA PopCounts ==
  ASSUME PoolsInv, NEW t \in Threads, StoreAllocate(t), NEW p, p = pool[t]
  PROVE  LET c == freeChunks[p][current[p]].chunk
         IN  /\ c \in Chunks \ Out(p) /\ Out(p)' = Out(p) \cup {c}
             /\ \A q \in Pools \ {p} : Out(q)' = Out(q) /\ Listed(q)' = Listed(q)
             /\ Cardinality(Out(p)') = Cardinality(Out(p)) + 1
             /\ used'[p] = used[p] + ChunkSize[p]
<1> DEFINE x == freeChunks[p][current[p]]
<1>1. /\ OnlyOf(t) /\ p \in Pools /\ x \in Home(p) /\ x \in Listed(p) /\ current[p] \in Chunks
      /\ freeChunks' = freeChunks /\ current' = [current EXCEPT ![p] = current[p] - 1]
      /\ used' = [used EXCEPT ![p] = (used[p] + ChunkSize[p]) % SizeT]
      /\ Moving(t) = {} /\ Moving(t)' = {x} /\ held'[t] = held[t]
  BY Pops
<1> HIDE DEF x
<1>2. x = [pool |-> p, chunk |-> x.chunk] /\ x.chunk \in Chunks
  BY <1>1, BlockTypes
<1>3. Having(t)' = Having(t) \cup {x}
  BY <1>1 DEF Having
<1>4. \A u \in Threads : x \notin Having(u)
  BY <1>1 DEF PoolsInv, NeverTwice
<1>5. x.chunk \notin Out(p)
  BY <1>2, <1>4 DEF Out
<1>6. ASSUME NEW c \in Chunks
      PROVE  c \in Out(p)' <=> c \in Out(p) \/ c = x.chunk
  <2>1. \A u \in Threads \ {t} : Having(u)' = Having(u)
    BY <1>1, OthersKeep
  <2>2. [pool |-> p, chunk |-> c] = x <=> c = x.chunk
    BY <1>2
  <2> QED
    BY <1>3, <2>1, <2>2 DEF Out
<1>7. Out(p)' = Out(p) \cup {x.chunk}
  BY <1>2, <1>6 DEF Out
<1>8. \A q \in Pools \ {p} : Out(q)' = Out(q) /\ Listed(q)' = Listed(q)
  <2>1. \A q \in Pools \ {p} : freeChunks'[q] = freeChunks[q] /\ current'[q] = current[q]
    BY <1>1 DEF PoolsInv, ListsOK
  <2> QED
    BY <1>1, <1>3, <2>1, OtherPools
<1>9. Cardinality(Out(p)') = Cardinality(Out(p)) + 1
  BY <1>1, <1>5, <1>7, OutIsFinite, FS_AddElement
<1>10. used'[p] = used[p] + ChunkSize[p]
  <2> DEFINE n == Cardinality(Out(p))
  <2>1. n \in Nat /\ n + 1 <= ChunksNum /\ used[p] = ChunkSize[p] * n
    BY <1>1, OutIsFinite, ConstantTypes DEF PoolsInv, Counted, Chunks
  <2>2. /\ ChunkSize[p] \in Nat /\ ChunksNum \in Nat /\ SizeT \in Nat \ {0}
        /\ ChunksNum * ChunkSize[p] < SizeT
    BY <1>1, ConstantTypes
  <2> HIDE DEF n
  <2>3. ChunkSize[p] * (n + 1) <= ChunkSize[p] * ChunksNum /\ ChunkSize[p] * n \in Nat
    BY <2>1, <2>2, Multiples
  <2>4. ChunkSize[p] * (n + 1) = ChunkSize[p] * n + ChunkSize[p]
    BY <2>1, <2>2, Multiples
  <2>5. used[p] + ChunkSize[p] \in 0..(SizeT - 1)
    BY <2>1, <2>2, <2>3, <2>4
  <2>6. (used[p] + ChunkSize[p]) % SizeT = used[p] + ChunkSize[p]
    BY <2>2, <2>5
  <2>7. used'[p] = (used[p] + ChunkSize[p]) % SizeT
    BY <1>1 DEF PoolsInv, ListsOK
  <2> QED
    BY <2>6, <2>7
<1> QED
  BY <1>2, <1>5, <1>7, <1>8, <1>9, <1>10 DEF x

LEMMA StoreAllocateKeeps ==
  ASSUME PoolsInv, NEW t \in Threads, StoreAllocate(t)
  PROVE  PoolsInv'
<1>0. PICK p \in Pools : p = pool[t]
  BY TypesOf
<1> DEFINE x == freeChunks[p][current[p]]
<1>1. /\ OnlyOf(t) /\ p \in Pools /\ current[p] \in Chunks
      /\ freeChunks' = freeChunks /\ current' = [current EXCEPT ![p] = current[p] - 1]
      /\ used' = [used EXCEPT ![p] = (used[p] + ChunkSize[p]) % SizeT]
      /\ ptr' = [ptr EXCEPT ![t] = x] /\ x \in Home(p) /\ x \in Listed(p)
      /\ Moving(t) = {} /\ Moving(t)' = {x} /\ held'[t] = held[t] /\ todo'[t] = todo[t]
      /\ at'[t] = "unlock" /\ op'[t] = "Allocate" /\ pool'[t] = p /\ ptr'[t] = x
  BY <1>0, Pops
<1>2. /\ at[t] = "store" /\ Running /\ at' = [at EXCEPT ![t] = "unlock"] /\ op[t] = "Allocate"
      /\ UNCHANGED <<policy, status, inited, freeChunks, owner, op, pool, copy, clientVars>>
  BY DEF StoreAllocate, At, Goto
<1>3. /\ Out(p)' = Out(p) \cup {x.chunk}
      /\ \A q \in Pools \ {p} : Out(q)' = Out(q) /\ Listed(q)' = Listed(q)
      /\ Cardinality(Out(p)') = Cardinality(Out(p)) + 1
      /\ used'[p] = used[p] + ChunkSize[p]
  BY <1>0, PopCounts
<1> HIDE DEF x
<1>4. ClientsOK /\ ListsOK /\ ListedOnce /\ NeverTwice /\ Counted /\ Locking' = Locking
  BY <1>2 DEF PoolsInv, Locking
<1>5. ClientsOK'
  BY <1>1, <1>2, <1>4, BlockTypes DEF ClientsOK, Labels, clientVars
<1>6. ListsOK'
  <2>1. current[p] - 1 \in -1..(ChunksNum - 1)
    BY <1>1, ConstantTypes DEF Chunks
  <2>2. (used[p] + ChunkSize[p]) % SizeT \in Int
    BY <1>1, <1>4, ConstantTypes DEF ListsOK
  <2> QED
    BY <1>1, <1>2, <1>4, <2>1, <2>2 DEF ListsOK
<1>7. InCall(t)' /\ CopyIsTrue(t)'
  BY <1>1, <1>2, TypesOf DEF InCall, CopyIsTrue
<1>8. Alone(t)'
  BY <1>0, <1>1, <1>2, <1>4, TypesOf DEF Alone
<1>9. Having(t)' = Having(t) \cup {x}
  BY <1>1 DEF Having
<1>10. current'[p] = current[p] - 1 /\ \A q \in Pools \ {p} : current'[q] = current[q] /\ used'[q] = used[q]
  BY <1>1, <1>4 DEF ListsOK
<1>11. Listed(p)' \subseteq Listed(p) /\ x \notin Listed(p)'
  <2>1. 0..(current[p] - 1) \subseteq 0..current[p] /\ current[p] \in 0..current[p]
    BY <1>1, ConstantTypes DEF Chunks
  <2>2. \A i \in 0..(current[p] - 1) : i \in 0..current[p] /\ i # current[p]
    BY <1>1, <2>1, ConstantTypes DEF Chunks
  <2>3. \A i \in 0..(current[p] - 1) : freeChunks[p][i] # x
    BY <1>1, <1>4, <2>1, <2>2 DEF ListedOnce, x
  <2> QED
    BY <1>1, <1>10, <2>1, <2>3 DEF Listed
<1>12. ListedOnce'
  <2> SUFFICES ASSUME NEW q \in Pools
               PROVE  \A i, j \in 0..current'[q] : i # j => freeChunks'[q][i] # freeChunks'[q][j]
    BY DEF ListedOnce
  <2>1. CASE q = p
    <3>1. 0..current'[p] \subseteq 0..current[p]
      BY <1>1, <1>10, ConstantTypes DEF Chunks
    <3> QED
      BY <1>1, <1>4, <2>1, <3>1 DEF ListedOnce
  <2>2. CASE q # p
    BY <1>1, <1>4, <1>10, <2>2 DEF ListedOnce
  <2> QED
    BY <2>1, <2>2
<1>13. NeverTwice'
  <2>1. \A u \in Threads \ {t} : Having(u)' = Having(u) /\ Moving(u)' = Moving(u) /\ held'[u] = held[u]
    BY <1>1, OthersKeep DEF OnlyOf, Alike
  <2>2. \A u \in Threads : x \notin Having(u)
    BY <1>1, <1>4 DEF NeverTwice
  <2>3. \A u, v \in Threads : u # v => Having(u)' \cap Having(v)' = {}
    BY <1>4, <1>9, <2>1, <2>2 DEF NeverTwice
  <2>4. \A u \in Threads : held'[u] \cap Moving(u)' = {}
    BY <1>1, <1>4, <2>1, <2>2 DEF NeverTwice, Having
  <2>5. \A u \in Threads, q \in Pools : Having(u)' \cap Listed(q)' = {}
    <3> SUFFICES ASSUME NEW u \in Threads, NEW q \in Pools
                 PROVE  Having(u)' \cap Listed(q)' = {}
      OBVIOUS
    <3>1. Listed(q)' \subseteq Listed(q)
      BY <1>3, <1>11
    <3>2. x \notin Listed(q)'
      <4>1. q # p => x \notin Listed(q)
        BY <1>1, <1>4, ListedAtHome, BlockTypes
      <4> QED
        BY <1>11, <3>1, <4>1
    <3>3. Having(u)' \subseteq Having(u) \cup {x} /\ Having(u) \cap Listed(q) = {}
      BY <1>4, <1>9, <2>1 DEF NeverTwice
    <3> QED
      BY <3>1, <3>2, <3>3
  <2> QED
    BY <2>3, <2>4, <2>5, Zenon DEF NeverTwice
<1>14. Counted'
  <2> SUFFICES ASSUME NEW q \in Pools
               PROVE  /\ current'[q] + 1 + Cardinality(Out(q)') = ChunksNum
                      /\ used'[q] = ChunkSize[q] * Cardinality(Out(q)')
    BY DEF Counted
  <2>1. CASE q = p
    <3>1. Cardinality(Out(p)) \in Nat /\ ChunkSize[p] \in Nat
      BY <1>1, OutIsFinite, ConstantTypes
    <3>2. ChunkSize[p] * (Cardinality(Out(p)) + 1) = ChunkSize[p] * Cardinality(Out(p)) + ChunkSize[p]
      BY <3>1, Multiples
    <3>3. current[p] + 1 + Cardinality(Out(p)) = ChunksNum /\ used[p] = ChunkSize[p] * Cardinality(Out(p))
      BY <1>1, <1>4 DEF Counted
    <3>4. current[p] \in Int
      BY <1>1, ConstantTypes DEF Chunks
    <3>5. current'[p] + 1 + Cardinality(Out(p)') = ChunksNum
      BY <1>3, <1>10, <3>1, <3>3, <3>4, ConstantTypes
    <3>6. used'[p] = ChunkSize[p] * Cardinality(Out(p)')
      BY <1>3, <3>2, <3>3
    <3> QED
      BY <2>1, <3>5, <3>6
  <2>2. CASE q # p
    BY <1>3, <1>4, <1>10, <2>2 DEF Counted
  <2> QED
    BY <2>1, <2>2
<1> QED
  BY <1>1, <1>2, <1>5, <1>6, <1>7, <1>8, <1>12, <1>13, <1>14, StepOf DEF Running

(* StoreFree finds room on the list: the chunk that comes back was out.    *)
LEMMA PushCounts ==
  ASSUME PoolsInv, NEW t \in Threads, StoreFree(t), NEW p, p = pool[t]
  PROVE  LET c == ptr[t].chunk
         IN  /\ p \in Pools /\ ptr[t] \in Home(p) /\ ptr[t] = [pool |-> p, chunk |-> c]
             /\ c \in Out(p) /\ current[p] + 1 \in Chunks
             /\ Cardinality(Out(p) \ {c}) = Cardinality(Out(p)) - 1
             /\ ChunkSize[p] * Cardinality(Out(p) \ {c}) = used[p] - ChunkSize[p]
             /\ (used[p] - ChunkSize[p]) % SizeT = used[p] - ChunkSize[p]
             /\ copy[t].current = current[p] /\ copy[t].used = used[p]
             /\ Moving(t) = {ptr[t]}
<1> DEFINE c == ptr[t].chunk
           n == Cardinality(Out(p))
<1>1. at[t] = "store" /\ op[t] = "Free"
  BY DEF StoreFree, At
<1>2. /\ p \in Pools /\ ptr[t] \in Home(p)
      /\ copy[t].current = current[p] /\ copy[t].used = used[p]
  BY <1>1, TypesOf DEF InCall, CopyIsTrue
<1>3. ptr[t] = [pool |-> p, chunk |-> c] /\ c \in Chunks
  BY <1>2, BlockTypes
<1>4. Moving(t) = {ptr[t]}
  BY <1>1 DEF Moving
<1>5. c \in Out(p)
  <2>1. [pool |-> p, chunk |-> c] \in Having(t)
    BY <1>3, <1>4 DEF Having
  <2> QED
    BY <1>3, <2>1 DEF Out
<1>6. n \in Nat /\ Cardinality(Out(p) \ {c}) = n - 1 /\ Cardinality(Out(p) \ {c}) \in Nat
  BY <1>2, <1>5, OutIsFinite, FS_RemoveElement, FS_CardinalityType
<1>7. current[p] + 1 + n = ChunksNum /\ used[p] = ChunkSize[p] * n /\ current[p] \in -1..(ChunksNum - 1)
  BY <1>2 DEF PoolsInv, Counted, ListsOK
<1>8. ChunkSize[p] \in Nat /\ ChunksNum \in Nat /\ SizeT \in Nat \ {0} /\ ChunksNum * ChunkSize[p] < SizeT
  BY <1>2, ConstantTypes
<1> HIDE DEF n, c
<1>9. n >= 1 /\ n - 1 \in Nat /\ n <= ChunksNum
  BY <1>6, <1>7, <1>8
<1>10. current[p] + 1 \in Chunks
  BY <1>6, <1>7, <1>8, <1>9 DEF Chunks
<1>11. ChunkSize[p] * (n - 1) = used[p] - ChunkSize[p] /\ ChunkSize[p] * (n - 1) \in Nat
  <2>1. ChunkSize[p] * ((n - 1) + 1) = ChunkSize[p] * (n - 1) + ChunkSize[p]
    BY <1>8, <1>9, Multiples
  <2>2. (n - 1) + 1 = n
    BY <1>6
  <2>3. ChunkSize[p] * (n - 1) \in Nat
    BY <1>8, <1>9, Multiples
  <2> QED
    BY <1>7, <1>8, <2>1, <2>2, <2>3
<1>12. ChunkSize[p] * (n - 1) <= ChunkSize[p] * ChunksNum
  BY <1>6, <1>8, <1>9, Multiples
<1>13. (used[p] - ChunkSize[p]) % SizeT = used[p] - ChunkSize[p]
  <2>1. used[p] - ChunkSize[p] \in 0..(SizeT - 1)
    BY <1>8, <1>11, <1>12
  <2> QED
    BY <1>8, <2>1
<1>14. Cardinality(Out(p) \ {c}) = n - 1 /\ n = Cardinality(Out(p))
  BY <1>6 DEF n
<1> QED
  BY <1>2, <1>3, <1>4, <1>5, <1>10, <1>11, <1>13, <1>14 DEF c

LEMMA Pushes ==
  ASSUME PoolsInv, NEW t \in Threads, StoreFree(t), NEW p, p = pool[t]
  PROVE  LET top == current[p] + 1
         IN  /\ OnlyOf(t)
             /\ freeChunks' = [freeChunks EXCEPT ![p][top] = ptr[t]]
             /\ current' = [current EXCEPT ![p] = top]
             /\ used' = [used EXCEPT ![p] = used[p] - ChunkSize[p]]
             /\ Moving(t)' = {} /\ held'[t] = held[t] /\ todo'[t] = todo[t]
             /\ at'[t] = "unlock" /\ op'[t] = "Free" /\ pool'[t] = p
             /\ Having(t)' = Having(t) \ {ptr[t]}
             /\ Out(p)' = Out(p) \ {ptr[t].chunk}
             /\ \A q \in Pools \ {p} : Out(q)' = Out(q) /\ Listed(q)' = Listed(q)
<1> DEFINE top == current[p] + 1
<1>1. /\ p \in Pools /\ ptr[t] \in Home(p) /\ ptr[t] = [pool |-> p, chunk |-> ptr[t].chunk]
      /\ top \in Chunks /\ copy[t].current = current[p] /\ copy[t].used = used[p]
      /\ (used[p] - ChunkSize[p]) % SizeT = used[p] - ChunkSize[p]
      /\ Moving(t) = {ptr[t]}
  BY PushCounts
<1>2. /\ Running /\ at[t] = "store" /\ op[t] = "Free"
      /\ at' = [at EXCEPT ![t] = "unlock"]
      /\ current' = [current EXCEPT ![p] = top]
      /\ used' = [used EXCEPT ![p] = used[p] - ChunkSize[p]]
      /\ freeChunks' = [freeChunks EXCEPT ![p][top] = ptr[t]]
      /\ UNCHANGED <<policy, status, inited, owner, op, pool, ptr, copy, clientVars>>
  BY <1>1 DEF StoreFree, At, Goto
<1>3. ClientsOK /\ ListsOK
  BY DEF PoolsInv
<1>4. OnlyOf(t)
  <2>1. \A u \in Threads \ {t} : Alike(u)
    BY <1>2, <1>3 DEF Alike, ClientsOK, clientVars
  <2> QED
    BY <1>2, <1>3, <2>1, TypesOf DEF OnlyOf, ListsOK
<1>5. /\ at'[t] = "unlock" /\ op'[t] = "Free" /\ pool'[t] = p
      /\ held'[t] = held[t] /\ todo'[t] = todo[t]
  BY <1>2, <1>3 DEF ClientsOK, clientVars
<1>6. Moving(t)' = {}
  BY <1>5 DEF Moving
<1>7. Having(t)' = Having(t) \ {ptr[t]}
  BY <1>1, <1>5, <1>6 DEF Having, PoolsInv, NeverTwice
<1>8. \A u \in Threads \ {t} : Having(u)' = Having(u) /\ ptr[t] \notin Having(u)
  <2>1. \A u \in Threads \ {t} : Having(u) \cap Having(t) = {} /\ ptr[t] \in Having(t)
    BY <1>1 DEF Having, PoolsInv, NeverTwice
  <2> QED
    BY <1>4, <2>1, OthersKeep
<1>9. Out(p)' = Out(p) \ {ptr[t].chunk}
  <2> SUFFICES ASSUME NEW c \in Chunks
               PROVE  c \in Out(p)' <=> c \in Out(p) /\ c # ptr[t].chunk
    BY DEF Out
  <2>1. [pool |-> p, chunk |-> c] = ptr[t] <=> c = ptr[t].chunk
    BY <1>1
  <2>2. \A u \in Threads : [pool |-> p, chunk |-> c] \in Having(u)' <=>
                             [pool |-> p, chunk |-> c] \in Having(u) /\ c # ptr[t].chunk
    BY <1>7, <1>8, <2>1
  <2> QED
    BY <2>2 DEF Out
<1>10. \A q \in Pools \ {p} : Out(q)' = Out(q) /\ Listed(q)' = Listed(q)
  <2>1. \A q \in Pools \ {p} : freeChunks'[q] = freeChunks[q] /\ current'[q] = current[q]
    BY <1>2, <1>3 DEF ListsOK
  <2>2. Having(t)' \cup {ptr[t]} = Having(t) \cup {ptr[t]}
    BY <1>7
  <2> QED
    BY <1>1, <1>4, <2>1, <2>2, OtherPools
<1> QED
  BY <1>2, <1>4, <1>5, <1>6, <1>7, <1>9, <1>10

LEMMA StoreFreeKeeps ==
  ASSUME PoolsInv, NEW t \in Threads, StoreFree(t)
  PROVE  PoolsInv'
<1>0. PICK p \in Pools : p = pool[t]
  BY TypesOf
<1> DEFINE top == current[p] + 1
<1>1. /\ ptr[t] \in Home(p) /\ top \in Chunks /\ Moving(t) = {ptr[t]}
      /\ ChunkSize[p] * Cardinality(Out(p) \ {ptr[t].chunk}) = used[p] - ChunkSize[p]
      /\ Cardinality(Out(p) \ {ptr[t].chunk}) = Cardinality(Out(p)) - 1
  BY <1>0, PushCounts
<1>2. /\ OnlyOf(t)
      /\ freeChunks' = [freeChunks EXCEPT ![p][top] = ptr[t]]
      /\ current' = [current EXCEPT ![p] = top]
      /\ used' = [used EXCEPT ![p] = used[p] - ChunkSize[p]]
      /\ Moving(t)' = {} /\ held'[t] = held[t] /\ todo'[t] = todo[t]
      /\ at'[t] = "unlock" /\ op'[t] = "Free" /\ pool'[t] = p
      /\ Having(t)' = Having(t) \ {ptr[t]}
      /\ Out(p)' = Out(p) \ {ptr[t].chunk}
      /\ \A q \in Pools \ {p} : Out(q)' = Out(q) /\ Listed(q)' = Listed(q)
  BY <1>0, Pushes
<1>3. /\ at[t] = "store" /\ Running /\ at' = [at EXCEPT ![t] = "unlock"] /\ op[t] = "Free"
      /\ UNCHANGED <<policy, inited, owner, op, pool, ptr, copy, clientVars>>
      /\ status' = status
  <2>1. top = copy[t].current + 1
    BY <1>0, PushCounts
  <2> QED
    BY <1>0, <1>1, <2>1 DEF StoreFree, At, Goto
<1>4. ClientsOK /\ ListsOK /\ ListedOnce /\ NeverTwice /\ Counted /\ Locking' = Locking
  BY <1>3 DEF PoolsInv, Locking
<1>5. ClientsOK'
  BY <1>3, <1>4 DEF ClientsOK, Labels, clientVars
<1>6. /\ current'[p] = top /\ used'[p] = used[p] - ChunkSize[p]
      /\ freeChunks'[p] = [freeChunks[p] EXCEPT ![top] = ptr[t]]
      /\ \A q \in Pools \ {p} : /\ current'[q] = current[q] /\ used'[q] = used[q]
                                /\ freeChunks'[q] = freeChunks[q]
  BY <1>2, <1>4 DEF ListsOK
<1>7. ListsOK'
  <2>1. top \in -1..(ChunksNum - 1) /\ used[p] - ChunkSize[p] \in Int
    BY <1>1, <1>4, ConstantTypes DEF Chunks, ListsOK
  <2>2. freeChunks'[p] \in [Chunks -> Home(p)] /\ ptr[t] \in Pointer
    BY <1>1, <1>4, <1>6, BlockTypes DEF ListsOK
  <2>3. \A q \in Pools : freeChunks'[q] \in [Chunks -> Home(q)]
    BY <1>4, <1>6, <2>2 DEF ListsOK
  <2>4. freeChunks' \in [Pools -> [Chunks -> Pointer]]
    BY <1>2, <1>4, <2>2 DEF ListsOK
  <2> QED
    BY <1>2, <1>3, <1>4, <2>1, <2>3, <2>4 DEF ListsOK
<1>8. InCall(t)' /\ CopyIsTrue(t)'
  BY <1>2 DEF InCall, CopyIsTrue
<1>9. Alone(t)'
  BY <1>0, <1>2, <1>3, <1>4, TypesOf DEF Alone
<1>10. ptr[t] \in Having(t) /\ \A u \in Threads \ {t} : ptr[t] \notin Having(u)
  BY <1>1, <1>4 DEF NeverTwice, Having
<1>11. \A i \in 0..current[p] : i \in Chunks /\ i # top /\ freeChunks[p][i] # ptr[t]
  <2>1. ptr[t] \notin Listed(p)
    BY <1>4, <1>10 DEF NeverTwice
  <2> QED
    BY <1>4, <2>1, ConstantTypes DEF Listed, ListsOK, Chunks
<1>12. ListedOnce'
  <2> SUFFICES ASSUME NEW q \in Pools, NEW i \in 0..current'[q], NEW j \in 0..current'[q], i # j
               PROVE  freeChunks'[q][i] # freeChunks'[q][j]
    BY DEF ListedOnce
  <2>1. CASE q = p
    <3>1. \A k \in 0..current'[p] : k = top \/ k \in 0..current[p]
      BY <1>4, <1>6, ConstantTypes DEF ListsOK
    <3>2. freeChunks[p] \in [Chunks -> Home(p)]
      BY <1>4 DEF ListsOK
    <3>3. freeChunks'[p][top] = ptr[t] /\ \A k \in 0..current[p] : freeChunks'[p][k] = freeChunks[p][k]
      BY <1>1, <1>6, <1>11, <3>2
    <3> QED
      BY <1>4, <1>11, <2>1, <3>1, <3>3 DEF ListedOnce
  <2>2. CASE q # p
    BY <1>4, <1>6, <2>2 DEF ListedOnce
  <2> QED
    BY <2>1, <2>2
<1>13. Listed(p)' \subseteq Listed(p) \cup {ptr[t]}
  <2>1. \A k \in 0..current'[p] : k = top \/ k \in 0..current[p]
    BY <1>4, <1>6, ConstantTypes DEF ListsOK
  <2>2. freeChunks[p] \in [Chunks -> Home(p)]
    BY <1>4 DEF ListsOK
  <2>3. freeChunks'[p][top] = ptr[t] /\ \A k \in 0..current[p] : freeChunks'[p][k] = freeChunks[p][k]
    BY <1>1, <1>6, <1>11, <2>2
  <2> QED
    BY <2>1, <2>3 DEF Listed
<1>14. NeverTwice'
  <2>1. \A u \in Threads \ {t} : Having(u)' = Having(u) /\ Moving(u)' = Moving(u) /\ held'[u] = held[u]
    BY <1>2, OthersKeep DEF OnlyOf, Alike
  <2>2. \A u \in Threads : Having(u)' \subseteq Having(u) \ {ptr[t]}
    BY <1>2, <1>10, <2>1
  <2>3. \A u, v \in Threads : u # v => Having(u)' \cap Having(v)' = {}
    BY <1>4, <2>2 DEF NeverTwice
  <2>4. \A u \in Threads : held'[u] \cap Moving(u)' = {}
    BY <1>2, <1>4, <2>1 DEF NeverTwice
  <2>5. \A u \in Threads, q \in Pools : Having(u)' \cap Listed(q)' = {}
    <3> SUFFICES ASSUME NEW u \in Threads, NEW q \in Pools
                 PROVE  Having(u)' \cap Listed(q)' = {}
      OBVIOUS
    <3>1. Listed(q)' \subseteq Listed(q) \cup {ptr[t]}
      BY <1>2, <1>13
    <3>2. Having(u) \cap Listed(q) = {}
      BY <1>4 DEF NeverTwice
    <3> QED
      BY <2>2, <3>1, <3>2
  <2> QED
    BY <2>3, <2>4, <2>5, Zenon DEF NeverTwice
<1>15. Counted'
  <2> SUFFICES ASSUME NEW q \in Pools
               PROVE  /\ current'[q] + 1 + Cardinality(Out(q)') = ChunksNum
                      /\ used'[q] = ChunkSize[q] * Cardinality(Out(q)')
    BY DEF Counted
  <2>1. CASE q = p
    <3>1. /\ current[p] + 1 + Cardinality(Out(p)) = ChunksNum /\ Cardinality(Out(p)) \in Nat
          /\ current[p] \in Int
      BY <1>4, OutIsFinite DEF Counted, ListsOK
    <3>2. current'[p] + 1 + Cardinality(Out(p)') = ChunksNum
      BY <1>1, <1>2, <1>6, <3>1, ConstantTypes
    <3>3. used'[p] = ChunkSize[p] * Cardinality(Out(p)')
      BY <1>1, <1>2, <1>6
    <3> QED
      BY <2>1, <3>2, <3>3
  <2>2. CASE q # p
    BY <1>2, <1>4, <1>6, <2>2 DEF Counted
  <2> QED
    BY <2>1, <2>2
<1> QED
  BY <1>2, <1>3, <1>5, <1>7, <1>8, <1>9, <1>12, <1>14, <1>15, StepOf DEF Running

-----------------------------------------------------------------------------
(* The invariant.                                                          *)

(* Steps that change nothing but how many pools are initialised.           *)
LEMMA ConstructKeeps ==
  ASSUME PoolsInv, Construct \/ UNCHANGED vars
  PROVE  PoolsInv'
<1>1. /\ UNCHANGED <<policy, status, poolVars, owner, at, op, pool, ptr, copy, clientVars>>
      /\ inited' = inited \/ (inited < PoolsNum /\ inited' = inited + 1)
  BY DEF Construct, vars
<1>2. inited \in 0..PoolsNum /\ inited' \in 0..PoolsNum /\ (inited' < PoolsNum => inited < PoolsNum)
  BY <1>1, ConstantTypes DEF PoolsInv, ListsOK
<1>3. Untouched'
  BY <1>1, <1>2 DEF PoolsInv, Untouched, poolVars, clientVars
<1>4. ClientsOK' /\ ListsOK'
  BY <1>1, <1>2 DEF PoolsInv, ClientsOK, ListsOK, poolVars, clientVars
<1>5. \A t \in Threads : InCall(t)' /\ Alone(t)' /\ CopyIsTrue(t)'
  BY <1>1 DEF PoolsInv, InCall, Alone, CopyIsTrue, Locking, poolVars, clientVars
<1>6. \A t \in Threads : Having(t)' = Having(t) /\ held[t]' \cap Moving(t)' = {}
  BY <1>1 DEF Having, Moving, clientVars, PoolsInv, NeverTwice
<1>7. ListedOnce' /\ NeverTwice' /\ Counted'
  BY <1>1, <1>6, HavingStays DEF PoolsInv
<1>8. /\ status' \in {"running", "full"}
      /\ status' = "full" => \E t \in Threads : at'[t] = "aborted"
  BY <1>1 DEF PoolsInv
<1> QED
  BY <1>3, <1>4, <1>5, <1>7, <1>8 DEF PoolsInv

LEMMA InitiallyPoolsInv ==
  ASSUME Init
  PROVE  PoolsInv
<1>1. todo \in [Threads -> Nat] /\ (~Locking => \A t \in Threads \ {Main} : todo[t] = 0)
  <2>1. Cardinality(Threads) \in Nat /\ Cardinality(Threads) # 0 /\ Allocs \in Nat
    BY PoolAllocatorsAssumption, FS_CardinalityType, FS_EmptySet
  <2>2. Allocs \div Cardinality(Threads) \in Nat
    BY <2>1
  <2> QED
    BY <2>1, <2>2 DEF Init, Tests
<1>2. \A p \in Pools, i \in Chunks : [pool |-> p, chunk |-> i] \in Pointer
                                       /\ [pool |-> p, chunk |-> i] \in Home(p)
  BY BlockTypes
<1>3. \A t \in Threads : Having(t) = {} /\ Moving(t) = {} /\ held[t] = {}
  BY DEF Init, Having, Moving
<1>4. \A p \in Pools : Out(p) = {} /\ Cardinality(Out(p)) = 0
  BY <1>3, FS_EmptySet DEF Out
<1>5. ClientsOK
  BY <1>1, ConstantTypes DEF Init, ClientsOK, Labels, Pools
<1>6. ListsOK
  <2>1. ChunksNum - 1 \in -1..(ChunksNum - 1) /\ 0 \in 0..PoolsNum
    BY ConstantTypes
  <2> QED
    BY <1>2, <2>1, ConstantTypes DEF Init, ListsOK
<1>7. Untouched
  BY DEF Init, Untouched
<1>8. \A t \in Threads : InCall(t) /\ Alone(t) /\ CopyIsTrue(t)
  BY <1>1, <1>3 DEF Init, InCall, Alone, CopyIsTrue
<1>9. ListedOnce
  BY DEF Init, ListedOnce, Chunks
<1>10. NeverTwice
  BY <1>3 DEF NeverTwice
<1>11. Counted
  BY <1>4, ConstantTypes DEF Init, Counted
<1> QED
  BY <1>5, <1>6, <1>7, <1>8, <1>9, <1>10, <1>11 DEF Init, PoolsInv

LEMMA NextKeepsPoolsInv ==
  ASSUME Harmless, PoolsInv, [Next]_vars
  PROVE  PoolsInv'
<1>1. ASSUME NEW t \in Threads, Proceed(t)
      PROVE  PoolsInv'
  BY <1>1, LockKeeps, AllocateFullKeeps, LoadAllocateKeeps, StoreAllocateKeeps,
     FreeMissedKeeps, LoadFreeKeeps, StoreFreeKeeps, UnlockKeeps DEF Proceed
<1>2. ASSUME NEW t \in Threads, Step(t)
      PROVE  PoolsInv'
  BY <1>1, <1>2, StartAllocateKeeps, StartFreeKeeps DEF Step
<1>3. CASE Construct \/ UNCHANGED vars
  BY <1>3, ConstructKeeps
<1> QED
  BY <1>2, <1>3 DEF Next, Ended

(* What the theorems below rest on: whoever is between a load and a store  *)
(* owns the lock, and what it loaded is still so.                          *)
THEOREM PoolsSafe == ASSUME Harmless PROVE Spec => []PoolsInv
<1>1. Init => PoolsInv
  BY InitiallyPoolsInv
<1>2. PoolsInv /\ [Next]_vars => PoolsInv'
  BY NextKeepsPoolsInv
<1> QED
  BY <1>1, <1>2, PTL DEF Spec

(* No chunk is in two hands.                                               *)
THEOREM ChunksHaveOneOwner == ASSUME Harmless PROVE Spec => []NeverTwice
<1>1. PoolsInv => NeverTwice
  BY DEF PoolsInv
<1> QED
  BY <1>1, PoolsSafe, PTL

-----------------------------------------------------------------------------
(* GetUsedSize() of all pools.                                             *)

(* A sum of zeros is zero: MapThenSumSet adds up along any function that   *)
(* satisfies its recursive equation, and a smallest set where the sum is   *)
(* something else would have a smaller one.                                *)
LEMMA SumOfZeros ==
  ASSUME \A p \in Pools : used[p] = 0
  PROVE  MapThenSumSet(LAMBDA p : used[p], Pools) = 0
<1> DEFINE pick(s) == CHOOSE x \in s : TRUE
           Sums(f) == f = [s \in SUBSET Pools |-> IF s = {} THEN 0 ELSE used[pick(s)] + f[s \ {pick(s)}]]
           iter == CHOOSE f : Sums(f)
<1>1. MapThenSumSet(LAMBDA p : used[p], Pools) = iter[Pools]
  BY DEF MapThenSumSet, MapThenFoldSet
<1>2. \A s \in SUBSET Pools : s # {} => pick(s) \in s /\ s \ {pick(s)} \in SUBSET Pools
  OBVIOUS
<1>3. Sums([s \in SUBSET Pools |-> 0])
  <2> DEFINE zero == [s \in SUBSET Pools |-> 0]
  <2>1. \A s \in SUBSET Pools : s # {} => used[pick(s)] + zero[s \ {pick(s)}] = 0
    BY <1>2
  <2> QED
    BY <2>1
<1>4. Sums(iter)
  BY <1>3
<1> HIDE DEF iter
<1>5. \A s \in SUBSET Pools : iter[s] = IF s = {} THEN 0 ELSE used[pick(s)] + iter[s \ {pick(s)}]
  BY <1>4
<1> HIDE DEF pick
<1>6. IsFiniteSet(Pools)
  BY FS_Interval, ConstantTypes DEF Pools
<1> DEFINE Wrong == {s \in SUBSET Pools : iter[s] # 0}
           Numbers == {Cardinality(s) : s \in Wrong}
<1>7. \A s \in SUBSET Pools : IsFiniteSet(s) /\ Cardinality(s) \in Nat
  BY <1>6, FS_Subset, FS_CardinalityType
<1>8. ASSUME Wrong # {}
      PROVE  FALSE
  <2>1. Numbers \in SUBSET Nat /\ Numbers # {}
    BY <1>7, <1>8
  <2> HIDE DEF Numbers
  <2>2. PICK m \in Numbers : \A k \in Numbers : m <= k
    BY <2>1, LeastNat
  <2>3. PICK s \in Wrong : m = Cardinality(s)
    BY <2>2 DEF Numbers
  <2>4. s # {}
    BY <1>5, <2>3
  <2> DEFINE less == s \ {pick(s)}
  <2>5. pick(s) \in s /\ less \in SUBSET Pools
    BY <1>2, <2>4
  <2>6. Cardinality(less) = m - 1
    BY <1>7, <2>3, <2>5, FS_RemoveElement
  <2>7. less \notin Wrong
    <3>1. less \in Wrong => Cardinality(less) \in Numbers
      BY DEF Numbers
    <3>2. m \in Nat
      BY <1>7, <2>3
    <3> QED
      BY <2>2, <2>6, <3>1, <3>2
  <2>8. iter[less] = 0
    BY <2>5, <2>7
  <2>9. iter[s] = used[pick(s)] + iter[less]
    BY <1>5, <2>3, <2>4
  <2>10. used[pick(s)] = 0
    BY <2>3, <2>5
  <2>11. iter[s] = 0
    BY <2>8, <2>9, <2>10
  <2> QED
    BY <2>3, <2>11
<1> QED
  BY <1>1, <1>8

(* The tests print Test Passed!: when every thread has allocated and freed *)
(* its blocks, every pool has all its chunks back and counts no used byte. *)
THEOREM TestsPass == ASSUME Harmless PROVE Spec => []TestPasses
<1>1. ASSUME PoolsInv, Joined
      PROVE  TotalUsed = 0
  <2>1. \A t \in Threads : Having(t) = {}
    BY <1>1 DEF Joined, Having, Moving, PoolsInv, InCall
  <2>2. \A p \in Pools : Out(p) = {} /\ Cardinality(Out(p)) = 0
    BY <2>1, FS_EmptySet DEF Out
  <2>3. \A p \in Pools : used[p] = 0
    BY <1>1, <2>2, ConstantTypes DEF PoolsInv, Counted
  <2>4. MapThenSumSet(LAMBDA p : used[p], Pools) = 0
    BY <2>3, SumOfZeros
  <2>5. 0 % Uint32 = 0
    BY PoolAllocatorsAssumption
  <2> QED
    BY <2>4, <2>5 DEF TotalUsed
<1>2. PoolsInv => TestPasses
  BY <1>1 DEF TestPasses
<1> QED
  BY <1>2, PoolsSafe, PTL

-----------------------------------------------------------------------------
(* Each pool as its clients see it.                                        *)

InSection(t, p) == at[t] \in {"load", "store", "unlock"} /\ pool[t] = p

HeldThere(p) == [c \in Chunks |-> IF c \in Out(p) THEN [chunk |-> c, request |-> 1]
                                  ELSE [chunk |-> ChunksNum, request |-> 0]]

LEMMA ViewedStatus ==
  ASSUME NEW p \in Pools
  PROVE  View[p].status = StatusOf(p) /\ View[p].status' = StatusOf(p)'
<1>1. View[p].status = StatusOf(p)
  BY DEF View
<1>2. (View[p].status = StatusOf(p))'
  BY <1>1, PTL
<1> QED
  BY <1>1, <1>2

LEMMA ViewedLocked ==
  ASSUME NEW p \in Pools
  PROVE  View[p].locked = Left(p) /\ View[p].locked' = Left(p)'
<1>1. View[p].locked = Left(p)
  BY DEF View
<1>2. (View[p].locked = Left(p))'
  BY <1>1, PTL
<1> QED
  BY <1>1, <1>2

LEMMA ViewedList ==
  ASSUME NEW p \in Pools
  PROVE  /\ View[p].freeChunks = [i \in Chunks |-> freeChunks[p][i].chunk]
         /\ View[p].freeChunks' = [i \in Chunks |-> freeChunks'[p][i].chunk]
<1>1. View[p].freeChunks = [i \in Chunks |-> freeChunks[p][i].chunk]
  BY DEF View
<1>2. (View[p].freeChunks = [i \in Chunks |-> freeChunks[p][i].chunk])'
  BY <1>1, PTL
<1> QED
  BY <1>1, <1>2

LEMMA ViewedHeld ==
  ASSUME NEW p \in Pools
  PROVE  View[p].held = HeldThere(p) /\ View[p].held' = HeldThere(p)'
<1>1. View[p].held = HeldThere(p)
  BY DEF View, HeldThere
<1>2. (View[p].held = HeldThere(p))'
  BY <1>1, PTL
<1> QED
  BY <1>1, <1>2

LEMMA RunsThere ==
  ASSUME NEW p \in Pools
  PROVE  /\ PoolsInv /\ Running => StatusOf(p) = "running"
         /\ PoolsInv' /\ status' = "running" => StatusOf(p)' = "running"
<1>1. PoolsInv /\ Running => StatusOf(p) = "running"
  BY DEF PoolsInv, InCall, StatusOf, Running
<1>2. PoolsInv' /\ status' = "running" => StatusOf(p)' = "running"
  BY DEF PoolsInv, InCall, StatusOf
<1> QED
  BY <1>1, <1>2

LEMMA LeftStays ==
  ASSUME PoolsInv, NEW t \in Threads, OnlyOf(t), NEW p \in Pools,
         owner'[p] = owner[p], owner[p] = t => (InSection(t, p)' <=> InSection(t, p))
  PROVE  Left(p)' = Left(p)
<1>1. owner[p] \in Threads \cup {NoThread}
  BY DEF PoolsInv, ListsOK
<1>2. \A u \in Threads \ {t} : at'[u] = at[u] /\ pool'[u] = pool[u]
  BY DEF OnlyOf, Alike
<1>3. CASE owner[p] = t
  BY <1>3 DEF Left, InSection
<1>4. CASE owner[p] # t
  BY <1>1, <1>2, <1>4 DEF Left, InSection
<1> QED
  BY <1>3, <1>4

(* What a pool does not see.                                               *)
LEMMA Unseen ==
  ASSUME NEW p \in Pools, NEW r, freeChunks'[p] = freeChunks[p], current'[p] = current[p],
         used'[p] = used[p], Left(p)' = Left(p), Out(p)' = Out(p),
         StatusOf(p)' = StatusOf(p), (inited >= p)' <=> (inited >= p)
  PROVE  UNCHANGED Pool(p, r)!vars
<1>1. HeldThere(p)' = HeldThere(p)
  BY DEF HeldThere
<1>2. (inited >= p)' = (inited >= p)
  BY DEF Pools
<1>3. View[p].status' = View[p].status
  BY ViewedStatus
<1>4. View[p].locked' = View[p].locked
  BY ViewedLocked
<1>5. View[p].freeChunks' = View[p].freeChunks
  BY ViewedList
<1>6. View[p].held' = View[p].held
  BY <1>1, ViewedHeld
<1> QED
  BY <1>2, <1>3, <1>4, <1>5, <1>6 DEF Pool!vars

(* A quiet step of t: p does not see it, unless it leaves the lock behind. *)
LEMMA QuietSteps ==
  ASSUME PoolsInv, PoolsInv', NEW t \in Threads, Quiet(t), NEW p \in Pools
  PROVE  /\ Out(p)' = Out(p) /\ ((inited >= p)' <=> (inited >= p))
         /\ freeChunks'[p] = freeChunks[p] /\ current'[p] = current[p] /\ used'[p] = used[p]
<1>1. OnlyOf(t) /\ UNCHANGED poolVars
  BY DEF Quiet
<1>2. PICK x \in Block : x.pool = 0 /\ Having(t)' \cup {x} = Having(t) \cup {x}
  BY DEF Quiet
<1>3. ASSUME NEW c \in Chunks, NEW u \in Threads
      PROVE  [pool |-> p, chunk |-> c] \in Having(u)' <=> [pool |-> p, chunk |-> c] \in Having(u)
  <2>1. [pool |-> p, chunk |-> c] # x
    BY <1>2, ConstantTypes DEF Pools
  <2>2. CASE u = t
    BY <1>2, <2>1, <2>2
  <2>3. CASE u # t
    BY <1>1, OthersKeep, <2>3
  <2> QED
    BY <2>2, <2>3
<1>4. Out(p)' = Out(p)
  BY <1>3 DEF Out
<1> QED
  BY <1>1, <1>4 DEF poolVars, OnlyOf

LEMMA QuietUnseen ==
  ASSUME PoolsInv, PoolsInv', NEW t \in Threads, Quiet(t), NEW p \in Pools, NEW r,
         StatusOf(p)' = StatusOf(p), Left(p)' = Left(p)
  PROVE  UNCHANGED Pool(p, r)!vars
BY QuietSteps, Unseen

LEMMA ThreadMoves ==
  ASSUME PoolsInv, NEW t \in Threads, NEW label, Goto(t, label)
  PROVE  at'[t] = label
BY DEF PoolsInv, ClientsOK, Goto

(* No pool sees how a thread gets to it, and what it does there before it  *)
(* stores and after.                                                       *)
LEMMA LockUnseen ==
  ASSUME PoolsInv, PoolsInv', NEW t \in Threads, Lock(t), NEW p \in Pools, NEW r
  PROVE  UNCHANGED Pool(p, r)!vars
<1>1. Quiet(t) /\ OnlyOf(t)
  BY LockKeeps DEF Quiet
<1>2. /\ Running /\ at[t] = "lock" /\ at'[t] = "load" /\ pool' = pool /\ status' = status
      /\ Locking => owner[pool[t]] = NoThread /\ owner' = [owner EXCEPT ![pool[t]] = t]
      /\ ~Locking => owner' = owner
  BY ThreadMoves DEF Lock, At
<1>3. owner \in [Pools -> Threads \cup {NoThread}] /\ (~Locking => owner[p] = NoThread)
  BY TypesOf DEF PoolsInv, ListsOK, Alone
<1>4. Left(p)' = Left(p)
  <2>1. CASE Locking /\ p = pool[t]
    BY <1>2, <1>3, <2>1, ConstantTypes DEF Left
  <2>2. CASE ~(Locking /\ p = pool[t])
    <3>1. owner'[p] = owner[p]
      BY <1>2, <1>3, <2>2
    <3>2. owner[p] = t => (InSection(t, p)' <=> InSection(t, p))
      BY <1>2, <1>3, <2>2, ConstantTypes DEF InSection
    <3> QED
      BY <1>1, <3>1, <3>2, LeftStays
  <2> QED
    BY <2>1, <2>2
<1>5. StatusOf(p)' = StatusOf(p)
  BY <1>2, RunsThere DEF Running
<1> QED
  BY <1>1, <1>4, <1>5, QuietUnseen

LEMMA LoadUnseen ==
  ASSUME Harmless, PoolsInv, PoolsInv', NEW t \in Threads, LoadAllocate(t) \/ LoadFree(t),
         NEW p \in Pools, NEW r
  PROVE  UNCHANGED Pool(p, r)!vars
<1>1. Quiet(t) /\ OnlyOf(t)
  BY LoadAllocateKeeps, LoadFreeKeeps DEF Quiet
<1>2. /\ Running /\ at[t] = "load" /\ at'[t] = "store" /\ pool' = pool /\ status' = status
      /\ owner' = owner
  BY ThreadMoves DEF LoadAllocate, LoadFree, LoadFields, At
<1>3. Left(p)' = Left(p)
  BY <1>1, <1>2, LeftStays DEF InSection
<1>4. StatusOf(p)' = StatusOf(p)
  BY <1>2, RunsThere DEF Running
<1> QED
  BY <1>1, <1>3, <1>4, QuietUnseen

LEMMA UnlockUnseen ==
  ASSUME PoolsInv, PoolsInv', NEW t \in Threads, Unlock(t), NEW p \in Pools, NEW r
  PROVE  UNCHANGED Pool(p, r)!vars
<1>1. Quiet(t) /\ OnlyOf(t)
  BY UnlockKeeps DEF Quiet
<1>2. /\ Running /\ at[t] = "unlock" /\ at'[t] = "idle" /\ pool' = pool /\ status' = status
      /\ owner' = IF Locking THEN [owner EXCEPT ![pool[t]] = NoThread] ELSE owner
  BY ThreadMoves DEF Unlock, At
<1>3. /\ owner \in [Pools -> Threads \cup {NoThread}] /\ (~Locking => owner[p] = NoThread)
      /\ Locking => owner[pool[t]] = t
  BY <1>2, TypesOf DEF PoolsInv, ListsOK, Alone
<1>4. Left(p)' = Left(p)
  <2>1. CASE Locking /\ p = pool[t]
    BY <1>2, <1>3, <2>1, ConstantTypes DEF Left
  <2>2. CASE ~(Locking /\ p = pool[t])
    <3>1. owner'[p] = owner[p]
      BY <1>2, <1>3, <2>2
    <3>2. owner[p] = t => (InSection(t, p)' <=> InSection(t, p))
      BY <1>2, <1>3, <2>2, ConstantTypes DEF InSection
    <3> QED
      BY <1>1, <3>1, <3>2, LeftStays
  <2> QED
    BY <2>1, <2>2
<1>5. StatusOf(p)' = StatusOf(p)
  BY <1>2, RunsThere DEF Running
<1> QED
  BY <1>1, <1>4, <1>5, QuietUnseen

LEMMA StartUnseen ==
  ASSUME PoolsInv, PoolsInv', NEW t \in Threads,
         (\E x \in held[t] : StartFree(t, x)) \/ (\E size \in Sizes : StartAllocate(t, size)),
         NEW p \in Pools, NEW r
  PROVE  UNCHANGED Pool(p, r)!vars
<1>1. Quiet(t) /\ OnlyOf(t)
  BY StartFreeKeeps, StartAllocateKeeps DEF Quiet
<1>2. Running /\ at[t] = "idle" /\ at'[t] \in {"idle", "lock"} /\ status' = status /\ owner' = owner
  <2>1. ASSUME NEW x, StartFree(t, x)
        PROVE  Running /\ at[t] = "idle" /\ at'[t] = "lock" /\ status' = status /\ owner' = owner
    BY <2>1, ThreadMoves DEF StartFree, At
  <2>2. ASSUME NEW size, StartAllocate(t, size)
        PROVE  Running /\ at[t] = "idle" /\ at'[t] \in {"idle", "lock"} /\ status' = status /\ owner' = owner
    BY <2>2, ThreadMoves DEF StartAllocate, At
  <2> QED
    BY <2>1, <2>2
<1>3. Left(p)' = Left(p)
  BY <1>1, <1>2, LeftStays DEF InSection
<1>4. StatusOf(p)' = StatusOf(p)
  BY <1>2, RunsThere DEF Running
<1> QED
  BY <1>1, <1>3, <1>4, QuietUnseen

(* Init() of pool p, or of another one.                                    *)
LEMMA ConstructSeen ==
  ASSUME PoolsInv, PoolsInv', Construct, NEW p \in Pools, NEW r
  PROVE  Pool(p, r)!CallInit \/ UNCHANGED Pool(p, r)!vars
<1>1. /\ Running /\ inited < PoolsNum /\ inited' = inited + 1
      /\ UNCHANGED <<policy, status, poolVars, owner, at, op, pool, ptr, copy, clientVars>>
      /\ inited \in Int /\ p \in Int
  BY ConstantTypes DEF Construct, PoolsInv, ListsOK, Pools
<1>2. /\ freeChunks[p] = [i \in Chunks |-> [pool |-> p, chunk |-> i]]
      /\ current[p] = ChunksNum - 1 /\ used[p] = 0 /\ owner[p] = NoThread
      /\ \A t \in Threads : at[t] = "idle" /\ held[t] = {}
  BY <1>1 DEF PoolsInv, Untouched
<1>3. \A t \in Threads : Having(t) = {} /\ Having(t)' = {}
  BY <1>1, <1>2 DEF Having, Moving, clientVars, PoolsInv, InCall
<1>4. Out(p) = {} /\ Out(p)' = {}
  BY <1>3 DEF Out
<1>5. Left(p) = FALSE /\ Left(p)' = FALSE
  BY <1>1, <1>2 DEF Left
<1>6. StatusOf(p) = "running" /\ StatusOf(p)' = "running"
  BY <1>1, RunsThere DEF Running
<1>7. freeChunks'[p] = freeChunks[p] /\ current'[p] = current[p] /\ used'[p] = used[p]
  BY <1>1 DEF poolVars
<1>8. CASE inited' >= p /\ ~(inited >= p)
  <2>1. View[p].status = "running" /\ View[p].status' = View[p].status
    BY <1>6, ViewedStatus
  <2>2. View[p].locked = FALSE /\ View[p].locked' = View[p].locked
    BY <1>5, ViewedLocked
  <2>3. View[p].freeChunks' = [i \in Chunks |-> i]
    BY <1>2, <1>7, ViewedList
  <2>4. View[p].held' = [c \in Chunks |-> [chunk |-> ChunksNum, request |-> 0]]
    BY <1>4, ViewedHeld DEF HeldThere
  <2>5. Pool(p, r)!ResetList
    BY <1>2, <1>7, <2>3, <2>4
       DEF Pool!ResetList, Pool!NoChunk, Pool!PastEnd, Pool!Chunks, Chunks
  <2>6. (inited >= p)' = TRUE
    BY <1>8
  <2>7. Pool(p, r)!Running /\ Pool(p, r)!LockTaken
    BY <2>1, <2>2 DEF Pool!Running, Pool!LockTaken
  <2> QED
    BY <2>1, <2>2, <2>5, <2>6, <2>7 DEF Pool!CallInit
<1>9. CASE ~(inited' >= p /\ ~(inited >= p))
  <2>1. (inited >= p)' <=> (inited >= p)
    BY <1>1, <1>9
  <2> QED
    BY <1>4, <1>5, <1>6, <1>7, <2>1, Unseen
<1> QED
  BY <1>8, <1>9

(* The lock of the pool a thread is in was not left behind.                *)
LEMMA NotLeft ==
  ASSUME PoolsInv, NEW t \in Threads, InSection(t, pool[t])
  PROVE  Left(pool[t]) = FALSE
BY TypesOf DEF Alone, Left, InSection

(* The other pools do not see a chunk go or come back.                     *)
LEMMA StoreUnseen ==
  ASSUME PoolsInv, PoolsInv', NEW t \in Threads, StoreAllocate(t) \/ StoreFree(t),
         NEW p \in Pools, p # pool[t], NEW r
  PROVE  UNCHANGED Pool(p, r)!vars
<1>0. PICK q \in Pools : q = pool[t]
  BY TypesOf
<1>1. /\ OnlyOf(t) /\ at[t] = "store" /\ at'[t] = "unlock" /\ pool' = pool /\ owner' = owner
      /\ Out(p)' = Out(p) /\ freeChunks'[p] = freeChunks[p]
      /\ current'[p] = current[p] /\ used'[p] = used[p]
      /\ Running /\ status' = "running"
  <2>1. CASE StoreAllocate(t)
    <3>1. /\ freeChunks' = freeChunks /\ current' = [current EXCEPT ![q] = current[q] - 1]
          /\ used' = [used EXCEPT ![q] = (used[q] + ChunkSize[q]) % SizeT]
          /\ OnlyOf(t) /\ at'[t] = "unlock"
      BY <1>0, <2>1, Pops
    <3>2. Out(p)' = Out(p)
      BY <1>0, <2>1, PopCounts
    <3> QED
      BY <1>0, <2>1, <3>1, <3>2 DEF StoreAllocate, At, PoolsInv, ListsOK, Running
  <2>2. CASE StoreFree(t)
    <3>1. /\ freeChunks' = [freeChunks EXCEPT ![q][current[q] + 1] = ptr[t]]
          /\ current' = [current EXCEPT ![q] = current[q] + 1]
          /\ used' = [used EXCEPT ![q] = used[q] - ChunkSize[q]]
          /\ OnlyOf(t) /\ at'[t] = "unlock" /\ Out(p)' = Out(p)
      BY <1>0, <2>2, Pushes
    <3>2. current[q] + 1 \in Chunks /\ copy[t].current = current[q]
      BY <1>0, <2>2, PushCounts
    <3>3. status' = status
      BY <1>0, <2>2, <3>2 DEF StoreFree
    <3> QED
      BY <1>0, <2>2, <3>1, <3>3 DEF StoreFree, At, PoolsInv, ListsOK, Running
  <2> QED
    BY <2>1, <2>2
<1>2. Left(p)' = Left(p)
  BY <1>1, LeftStays DEF InSection
<1>3. StatusOf(p)' = StatusOf(p)
  BY <1>1, RunsThere
<1>4. (inited >= p)' <=> (inited >= p)
  BY <1>1 DEF OnlyOf
<1> QED
  BY <1>1, <1>2, <1>3, <1>4, Unseen

(* What the pool a thread is in shows when the thread has the lock.        *)
LEMMA ViewedInSection ==
  ASSUME PoolsInv, Running, NEW t \in Threads, NEW p \in Pools, p = pool[t], InSection(t, p), NEW r
  PROVE  Pool(p, r)!Running /\ Pool(p, r)!LockTaken /\ (inited >= p) = TRUE
<1>1. View[p].status = "running"
  BY RunsThere, ViewedStatus
<1>2. View[p].locked = FALSE
  BY NotLeft, ViewedLocked
<1>3. inited = PoolsNum /\ p <= PoolsNum /\ p \in Int
  BY TypesOf, ConstantTypes DEF InSection, Pools
<1> QED
  BY <1>1, <1>2, <1>3, ConstantTypes DEF Pool!Running, Pool!LockTaken

(* The chunk on top of the list goes to a client that does not have it.    *)
LEMMA StoreAllocateSeen ==
  ASSUME PoolsInv, PoolsInv', NEW t \in Threads, StoreAllocate(t), NEW q
  PROVE  \A p \in Pools : p = pool[t] =>
           \E c \in Chunks : Pool(p, q)!AllocateChunk(c, 1, 1)
<1> SUFFICES ASSUME NEW p \in Pools
             PROVE  p = pool[t] =>
                      \E c \in Chunks : Pool(p, q)!AllocateChunk(c, 1, 1)
  OBVIOUS
<1>0. HAVE p = pool[t]
<1>20. /\ View[p].status = StatusOf(p) /\ View[p].status' = StatusOf(p)'
      /\ View[p].locked = Left(p) /\ View[p].locked' = Left(p)'
      /\ View[p].freeChunks = [i \in Chunks |-> freeChunks[p][i].chunk]
      /\ View[p].freeChunks' = [i \in Chunks |-> freeChunks'[p][i].chunk]
      /\ View[p].held = HeldThere(p) /\ View[p].held' = HeldThere(p)'
  BY ViewedStatus, ViewedLocked, ViewedList, ViewedHeld
<1> DEFINE x == freeChunks[p][current[p]]
           c == x.chunk
<1>1. /\ OnlyOf(t) /\ current[p] \in Chunks /\ freeChunks' = freeChunks
      /\ current' = [current EXCEPT ![p] = current[p] - 1]
      /\ used' = [used EXCEPT ![p] = (used[p] + ChunkSize[p]) % SizeT]
      /\ at'[t] = "unlock" /\ pool'[t] = p
  BY <1>0, Pops
<1>2. c \in Chunks \ Out(p) /\ Out(p)' = Out(p) \cup {c}
  BY <1>0, PopCounts
<1>3. /\ Running /\ at[t] = "store" /\ owner' = owner /\ status' = status
  BY <1>0 DEF StoreAllocate, At
<1>4. InSection(t, p) /\ InSection(t, p)'
  BY <1>0, <1>1, <1>3 DEF InSection
<1>5. Left(p)' = Left(p)
  BY <1>1, <1>3, <1>4, LeftStays
<1>6. Pool(p, q)!Running /\ Pool(p, q)!LockTaken /\ (inited >= p) = TRUE
  BY <1>0, <1>3, <1>4, ViewedInSection
<1>7. View[p].status' = View[p].status
  BY <1>3, RunsThere, <1>20 DEF Running
<1>8. View[p].locked' = View[p].locked
  BY <1>5, <1>20
<1>9. View[p].freeChunks' = View[p].freeChunks /\ View[p].freeChunks[current[p]] = c
  BY <1>1, <1>20
<1>10. View[p].held[c] = [chunk |-> ChunksNum, request |-> 0]
  BY <1>2, <1>20 DEF HeldThere
<1>11. View[p].held' = [View[p].held EXCEPT ![c] = [chunk |-> c, request |-> 1]]
  BY <1>2, <1>20 DEF HeldThere
<1>12. current'[p] = current[p] - 1 /\ used'[p] = (used[p] + ChunkSize[p]) % SizeT
  BY <1>1 DEF PoolsInv, ListsOK
<1>13. c \in Int /\ 1 <= ChunkSize[p] /\ current[p] >= 0 /\ ChunkSize[p] \in Int
  BY <1>1, <1>2, ConstantTypes DEF Chunks
<1>14. (inited >= p)' = (inited >= p)
  BY <1>1 DEF OnlyOf
<1> HIDE DEF c
<1>15. (c * ChunkSize[p]) % 1 = 0
  BY <1>13
<1>16. Pool(p, q)!AllocateChunk(c, 1, 1)
  BY <1>6, <1>7, <1>8, <1>9, <1>10, <1>11, <1>12, <1>13, <1>14, <1>15
     DEF Pool!AllocateChunk, Pool!Accepted, Pool!Pop, Pool!NoChunk, Pool!PastEnd
<1> QED
  BY <1>2, <1>16

(* A chunk a client has comes back, on top of the list.                    *)
LEMMA StoreFreeSeen ==
  ASSUME PoolsInv, PoolsInv', NEW t \in Threads, StoreFree(t), NEW q
  PROVE  \A p \in Pools : p = pool[t] =>
           \E c \in Chunks : Pool(p, q)!Free(c)
<1> SUFFICES ASSUME NEW p \in Pools
             PROVE  p = pool[t] =>
                      \E c \in Chunks : Pool(p, q)!Free(c)
  OBVIOUS
<1>0. HAVE p = pool[t]
<1>20. /\ View[p].status = StatusOf(p) /\ View[p].status' = StatusOf(p)'
      /\ View[p].locked = Left(p) /\ View[p].locked' = Left(p)'
      /\ View[p].freeChunks = [i \in Chunks |-> freeChunks[p][i].chunk]
      /\ View[p].freeChunks' = [i \in Chunks |-> freeChunks'[p][i].chunk]
      /\ View[p].held = HeldThere(p) /\ View[p].held' = HeldThere(p)'
  BY ViewedStatus, ViewedLocked, ViewedList, ViewedHeld
<1>21. PICK c \in Chunks : c = ptr[t].chunk
  BY <1>0, PushCounts DEF Out
<1> DEFINE top == current[p] + 1
<1>1. /\ ptr[t] = [pool |-> p, chunk |-> c] /\ c \in Out(p) /\ top \in Chunks
      /\ (used[p] - ChunkSize[p]) % SizeT = used[p] - ChunkSize[p]
      /\ copy[t].current = current[p]
  BY <1>0, <1>21, PushCounts
<1>2. /\ OnlyOf(t) /\ freeChunks' = [freeChunks EXCEPT ![p][top] = ptr[t]]
      /\ current' = [current EXCEPT ![p] = top]
      /\ used' = [used EXCEPT ![p] = used[p] - ChunkSize[p]]
      /\ at'[t] = "unlock" /\ pool'[t] = p
      /\ Out(p)' = Out(p) \ {c}
  BY <1>0, <1>21, Pushes
<1>3. Running /\ at[t] = "store" /\ owner' = owner /\ status' = status
  BY <1>0, <1>1 DEF StoreFree, At
<1>4. InSection(t, p) /\ InSection(t, p)'
  BY <1>0, <1>2, <1>3 DEF InSection
<1>5. Left(p)' = Left(p)
  BY <1>2, <1>3, <1>4, LeftStays
<1>6. Pool(p, q)!Running /\ Pool(p, q)!LockTaken /\ (inited >= p) = TRUE
  BY <1>0, <1>3, <1>4, ViewedInSection
<1>7. View[p].status' = View[p].status
  BY <1>3, RunsThere, <1>20 DEF Running
<1>8. View[p].locked' = View[p].locked
  BY <1>5, <1>20
<1>9. c \in Chunks /\ freeChunks[p] \in [Chunks -> Home(p)]
  BY <1>1 DEF Out, PoolsInv, ListsOK
<1>10. View[p].freeChunks' = [View[p].freeChunks EXCEPT ![top] = c]
  <2>1. freeChunks'[p] = [freeChunks[p] EXCEPT ![top] = ptr[t]]
    BY <1>2 DEF PoolsInv, ListsOK
  <2>2. \A i \in Chunks : freeChunks'[p][i].chunk = IF i = top THEN c ELSE freeChunks[p][i].chunk
    BY <1>9, <1>21, <2>1
  <2> QED
    BY <1>1, <2>2, <1>20
<1>11. View[p].held[c] = [chunk |-> c, request |-> 1]
  BY <1>1, <1>9, <1>20 DEF HeldThere
<1>12. View[p].held' = [View[p].held EXCEPT ![c] = [chunk |-> ChunksNum, request |-> 0]]
  BY <1>2, <1>9, <1>20 DEF HeldThere
<1>13. current'[p] = top /\ used'[p] = (used[p] - ChunkSize[p]) % SizeT
  BY <1>1, <1>2 DEF PoolsInv, ListsOK
<1>14. c \in Nat /\ c # ChunksNum /\ c <= ChunksNum /\ ChunkSize[p] \in Nat /\ ChunksNum \in Nat
  BY <1>9, ConstantTypes DEF Chunks
<1>15. (inited >= p)' = (inited >= p)
  BY <1>2 DEF OnlyOf
<1>16. c * ChunkSize[p] \in 0..(ChunksNum * ChunkSize[p])
  <2>1. ChunkSize[p] * c \in Nat /\ ChunkSize[p] * c <= ChunkSize[p] * ChunksNum
    BY <1>14, Multiples
  <2>2. ChunkSize[p] * c = c * ChunkSize[p] /\ ChunkSize[p] * ChunksNum = ChunksNum * ChunkSize[p]
    BY <1>14
  <2> QED
    BY <1>14, <2>1, <2>2
<1>17. Pool(p, q)!Push(c)
  BY <1>1, <1>7, <1>10, <1>13 DEF Pool!Push, Pool!Chunks, Chunks
<1>18. Pool(p, q)!Free(c)
  BY <1>6, <1>8, <1>11, <1>12, <1>14, <1>15, <1>16, <1>17
     DEF Pool!Free, Pool!InBuffer, Pool!NoChunk, Pool!PastEnd
<1> QED
  BY <1>18

(* A pool that refuses a pointer keeps its lock; so does one that is full. *)
LEMMA RefusalLeaves ==
  ASSUME PoolsInv, PoolsInv', NEW t \in Threads, Quiet(t), at[t] = "load",
         at'[t] \in {"idle", "lock", "aborted"}, owner' = owner
  PROVE  /\ \A p \in Pools : p # pool[t] => Left(p)' = Left(p)
         /\ \A p \in Pools : p = pool[t] => /\ Left(p) = FALSE
                                            /\ Left(p)' = (policy = "ENABLE_SPIN_LOCK")
<1>1. OnlyOf(t) /\ pool[t] \in Pools
  BY TypesOf DEF Quiet
<1>2. ASSUME NEW p \in Pools, p # pool[t]
      PROVE  Left(p)' = Left(p)
  BY <1>1, <1>2, LeftStays DEF InSection
<1>3. ASSUME NEW p \in Pools
      PROVE  p = pool[t] => Left(p) = FALSE /\ Left(p)' = (policy = "ENABLE_SPIN_LOCK")
  <2>1. HAVE p = pool[t]
  <2>2. Left(p) = FALSE
    BY <2>1, NotLeft DEF InSection
  <2>3. CASE Locking
    <3>1. owner[p] = t /\ t # NoThread
      BY <2>1, <2>3, TypesOf, ConstantTypes DEF Alone
    <3> QED
      BY <2>2, <2>3, <3>1 DEF Left, Locking
  <2>4. CASE ~Locking
    <3>1. owner[p] = NoThread
      BY <2>4, TypesOf DEF Alone
    <3> QED
      BY <2>2, <2>4, <3>1 DEF Left, Locking
  <2> QED
    BY <2>3, <2>4
<1> QED
  BY <1>2, <1>3

(* A pool is asked for a pointer that is not its own.                      *)
LEMMA FreeMissedSeen ==
  ASSUME PoolsInv, PoolsInv', NEW t \in Threads, FreeMissed(t), NEW q
  PROVE  \A p \in Pools : /\ p # pool[t] => UNCHANGED Pool(p, q)!vars
                          /\ p = pool[t] /\ q = policy => Pool(p, q)!FreeForeign(ChunksNum + 1)
<1>1. Quiet(t) /\ OnlyOf(t)
  BY FreeMissedKeeps DEF Quiet
<1>2. Running /\ at[t] = "load" /\ at'[t] \in {"idle", "lock"} /\ owner' = owner /\ status' = status
  BY ThreadMoves DEF FreeMissed, At
<1>3. ASSUME NEW p \in Pools, p # pool[t]
      PROVE  UNCHANGED Pool(p, q)!vars
  <2>1. Left(p)' = Left(p)
    BY <1>1, <1>2, <1>3, RefusalLeaves
  <2>2. StatusOf(p)' = StatusOf(p)
    BY <1>2, RunsThere DEF Running
  <2> QED
    BY <1>1, <2>1, <2>2, QuietUnseen
<1>4. ASSUME NEW p \in Pools
      PROVE  p = pool[t] /\ q = policy => Pool(p, q)!FreeForeign(ChunksNum + 1)
  <2>1. HAVE p = pool[t] /\ q = policy
  <2>7. /\ View[p].status = StatusOf(p) /\ View[p].status' = StatusOf(p)'
        /\ View[p].locked = Left(p) /\ View[p].locked' = Left(p)'
        /\ View[p].freeChunks = [i \in Chunks |-> freeChunks[p][i].chunk]
        /\ View[p].freeChunks' = [i \in Chunks |-> freeChunks'[p][i].chunk]
        /\ View[p].held = HeldThere(p) /\ View[p].held' = HeldThere(p)'
    BY ViewedStatus, ViewedLocked, ViewedList, ViewedHeld
  <2>2. Pool(p, q)!Running /\ Pool(p, q)!LockTaken /\ (inited >= p) = TRUE
    BY <1>2, <2>1, ViewedInSection DEF InSection
  <2>3. StatusOf(p)' = StatusOf(p)
    BY <1>2, RunsThere DEF Running
  <2>4. /\ View[p].locked' = (q = "ENABLE_SPIN_LOCK") /\ View[p].status' = View[p].status
        /\ View[p].held' = View[p].held /\ View[p].freeChunks' = View[p].freeChunks
    <3>1. Left(p)' = (policy = "ENABLE_SPIN_LOCK")
      BY <1>1, <1>2, <2>1, RefusalLeaves
    <3>2. HeldThere(p)' = HeldThere(p) /\ freeChunks'[p] = freeChunks[p]
      BY <1>1, QuietSteps DEF HeldThere
    <3> QED
      BY <2>1, <2>3, <2>7, <3>1, <3>2
  <2>5. current'[p] = current[p] /\ used'[p] = used[p] /\ (inited >= p)' = (inited >= p)
    BY <1>1, QuietSteps DEF OnlyOf
  <2>6. ~((ChunksNum + 1) * ChunkSize[p] \in 0..(ChunksNum * ChunkSize[p]))
    <3>1. ChunkSize[p] \in Nat \ {0} /\ ChunksNum \in Nat
      BY ConstantTypes
    <3>2. /\ ChunkSize[p] * (ChunksNum + 1) = ChunkSize[p] * ChunksNum + ChunkSize[p]
          /\ ChunkSize[p] * ChunksNum \in Nat
      BY <3>1, Multiples
    <3>3. /\ (ChunksNum + 1) * ChunkSize[p] = ChunkSize[p] * (ChunksNum + 1)
          /\ ChunksNum * ChunkSize[p] = ChunkSize[p] * ChunksNum
      BY <3>1
    <3> QED
      BY <3>1, <3>2, <3>3
  <2> QED
    BY <2>2, <2>4, <2>5, <2>6 DEF Pool!FreeForeign, Pool!InBuffer, Pool!LeaveLocked
<1> QED
  BY <1>3, <1>4

(* A full pool is asked for a chunk: an assert of it fails, or it gives    *)
(* none.                                                                   *)
LEMMA AllocateFullSeen ==
  ASSUME PoolsInv, PoolsInv', NEW t \in Threads, AllocateFull(t), NEW q
  PROVE  \A p \in Pools : /\ p # pool[t] => UNCHANGED Pool(p, q)!vars
                          /\ p = pool[t] /\ q = policy => Pool(p, q)!AllocateFull(1)
<1>1. Quiet(t) /\ OnlyOf(t)
  BY AllocateFullKeeps DEF Quiet
<1>2. /\ Running /\ at[t] = "load" /\ owner' = owner /\ current[pool[t]] < 0 /\ pool' = pool
      /\ NDEBUG => at'[t] = "idle" /\ status' = status
      /\ ~NDEBUG => at'[t] = "aborted" /\ status' = "full"
  BY ThreadMoves DEF AllocateFull, At
<1>3. \A p \in Pools : StatusOf(p) = "running"
  BY <1>2, RunsThere
<1>4. \A p \in Pools : StatusOf(p)' = IF NDEBUG \/ p # pool[t] THEN "running" ELSE "full"
  <2>1. CASE NDEBUG
    BY <1>2, <2>1, RunsThere DEF Running
  <2>2. CASE ~NDEBUG
    <3>1. \A u \in Threads \ {t} : at'[u] # "aborted"
      BY <1>1, <1>2, TypesOf DEF InCall, Running, OnlyOf, Alike
    <3>2. at'[t] = "aborted" /\ pool'[t] = pool[t] /\ status' = "full"
      BY <1>2, <2>2
    <3> QED
      BY <2>2, <3>1, <3>2 DEF StatusOf
  <2> QED
    BY <2>1, <2>2
<1>5. ASSUME NEW p \in Pools, p # pool[t]
      PROVE  UNCHANGED Pool(p, q)!vars
  <2>1. Left(p)' = Left(p)
    BY <1>1, <1>2, <1>5, RefusalLeaves
  <2>2. StatusOf(p)' = StatusOf(p)
    BY <1>3, <1>4, <1>5
  <2> QED
    BY <1>1, <2>1, <2>2, QuietUnseen
<1>6. ASSUME NEW p \in Pools
      PROVE  p = pool[t] /\ q = policy => Pool(p, q)!AllocateFull(1)
  <2>1. HAVE p = pool[t] /\ q = policy
  <2>7. /\ View[p].status = StatusOf(p) /\ View[p].status' = StatusOf(p)'
        /\ View[p].locked = Left(p) /\ View[p].locked' = Left(p)'
        /\ View[p].freeChunks = [i \in Chunks |-> freeChunks[p][i].chunk]
        /\ View[p].freeChunks' = [i \in Chunks |-> freeChunks'[p][i].chunk]
        /\ View[p].held = HeldThere(p) /\ View[p].held' = HeldThere(p)'
    BY ViewedStatus, ViewedLocked, ViewedList, ViewedHeld
  <2>2. Pool(p, q)!Running /\ Pool(p, q)!LockTaken /\ (inited >= p) = TRUE
    BY <1>2, <2>1, ViewedInSection DEF InSection
  <2>3. /\ View[p].locked' = (q = "ENABLE_SPIN_LOCK")
        /\ View[p].held' = View[p].held /\ View[p].freeChunks' = View[p].freeChunks
    <3>1. Left(p)' = (policy = "ENABLE_SPIN_LOCK")
      BY <1>1, <1>2, <2>1, RefusalLeaves
    <3>2. HeldThere(p)' = HeldThere(p) /\ freeChunks'[p] = freeChunks[p]
      BY <1>1, QuietSteps DEF HeldThere
    <3> QED
      BY <2>1, <2>7, <3>1, <3>2
  <2>4. View[p].status' = IF NDEBUG THEN View[p].status ELSE "full"
    BY <1>3, <1>4, <2>1, <2>7
  <2>5. current'[p] = current[p] /\ used'[p] = used[p] /\ (inited >= p)' = (inited >= p)
    BY <1>1, QuietSteps DEF OnlyOf
  <2>6. 1 <= ChunkSize[p] /\ current[p] < 0
    BY <1>2, <2>1, ConstantTypes
  <2> QED
    BY <2>2, <2>3, <2>4, <2>5, <2>6
       DEF Pool!AllocateFull, Pool!Accepted, Pool!AssertFails, Pool!LeaveLocked
<1> QED
  BY <1>5, <1>6

LEMMA PoolsStartAlone ==
  ASSUME Init, NEW p \in Pools, NEW q
  PROVE  Pool(p, q)!Init
<1>1. /\ freeChunks[p] = [i \in Chunks |-> [pool |-> p, chunk |-> i]] /\ current[p] = ChunksNum - 1
      /\ used[p] = 0 /\ owner[p] = NoThread /\ inited = 0 /\ Running
      /\ \A t \in Threads : Having(t) = {}
  BY DEF Init, Having, Moving, Running
<1>2. Out(p) = {} /\ Left(p) = FALSE /\ StatusOf(p) = "running"
  BY <1>1, InitiallyPoolsInv, RunsThere DEF Out, Left
<1>3. View[p].status = "running" /\ View[p].locked = FALSE
  BY <1>2, ViewedStatus, ViewedLocked
<1>4. View[p].freeChunks = [i \in Chunks |-> i]
  <2>1. \A i \in Chunks : freeChunks[p][i].chunk = i
    BY <1>1
  <2>2. View[p].freeChunks = [i \in Chunks |-> freeChunks[p][i].chunk]
    BY ViewedList
  <2> QED
    BY <2>1, <2>2
<1>5. View[p].held = [c \in Chunks |-> [chunk |-> ChunksNum, request |-> 0]]
  BY <1>2, ViewedHeld DEF HeldThere
<1>6. (inited >= p) = FALSE
  BY <1>1, ConstantTypes DEF Pools
<1> QED
  BY <1>1, <1>3, <1>4, <1>5, <1>6 DEF Pool!Init, Pool!Chunks, Pool!NoChunk, Pool!PastEnd, Chunks

LEMMA PoolsStepAlone ==
  ASSUME Harmless, PoolsInv, PoolsInv', Next, NEW p \in Pools, NEW q
  PROVE  q = policy => [Pool(p, q)!Next]_(Pool(p, q)!vars)
<1> SUFFICES ASSUME q = policy
             PROVE  Pool(p, q)!Next \/ UNCHANGED Pool(p, q)!vars
  OBVIOUS
<1>1. CASE Construct
  BY <1>1, ConstructSeen DEF Pool!Next
<1>2. ASSUME NEW t \in Threads, Step(t)
      PROVE  Pool(p, q)!Next \/ UNCHANGED Pool(p, q)!vars
  <2>1. CASE \/ \E size \in Sizes : StartAllocate(t, size)
             \/ \E x \in held[t] : StartFree(t, x)
    BY <2>1, StartUnseen
  <2>2. CASE Lock(t) \/ LoadAllocate(t) \/ LoadFree(t) \/ Unlock(t)
    BY <2>2, LockUnseen, LoadUnseen, UnlockUnseen
  <2>3. CASE StoreAllocate(t)
    <3>1. CASE p = pool[t]
      <4>1. \E c \in Chunks : Pool(p, q)!AllocateChunk(c, 1, 1)
        BY <2>3, <3>1, StoreAllocateSeen
      <4> QED
        BY <4>1 DEF Pool!Next
    <3>2. CASE p # pool[t]
      BY <2>3, <3>2, StoreUnseen
    <3> QED
      BY <3>1, <3>2
  <2>4. CASE StoreFree(t)
    <3>1. CASE p = pool[t]
      <4>1. \E c \in Chunks : Pool(p, q)!Free(c)
        BY <2>4, <3>1, StoreFreeSeen
      <4> QED
        BY <4>1 DEF Pool!Next
    <3>2. CASE p # pool[t]
      BY <2>4, <3>2, StoreUnseen
    <3> QED
      BY <3>1, <3>2
  <2>5. CASE FreeMissed(t)
    <3>1. /\ p # pool[t] => UNCHANGED Pool(p, q)!vars
          /\ p = pool[t] => Pool(p, q)!FreeForeign(ChunksNum + 1)
      BY <2>5, FreeMissedSeen
    <3> QED
      BY <3>1 DEF Pool!Next
  <2>6. CASE AllocateFull(t)
    <3>1. /\ p # pool[t] => UNCHANGED Pool(p, q)!vars
          /\ p = pool[t] => Pool(p, q)!AllocateFull(1)
      BY <2>6, AllocateFullSeen
    <3> QED
      BY <3>1 DEF Pool!Next
  <2> QED
    BY <1>2, <2>1, <2>2, <2>3, <2>4, <2>5, <2>6 DEF Step, Proceed
<1>3. CASE UNCHANGED vars
  <2>1. /\ freeChunks'[p] = freeChunks[p] /\ current'[p] = current[p] /\ used'[p] = used[p]
        /\ (inited >= p)' <=> (inited >= p)
    BY <1>3 DEF vars, poolVars
  <2>2. Left(p)' = Left(p) /\ StatusOf(p)' = StatusOf(p)
    BY <1>3 DEF Left, StatusOf, vars
  <2>3. Out(p)' = Out(p)
    BY <1>3 DEF Out, Having, Moving, vars, clientVars
  <2> QED
    BY <2>1, <2>2, <2>3, Unseen
<1> QED
  BY <1>1, <1>2, <1>3 DEF Next, Ended

(* However the threads' calls interleave, each pool behaves as if they     *)
(* came one at a time, in the order in which they store.                   *)
THEOREM PoolsActAlone == ASSUME Harmless PROVE Spec => ImplementsPools
<1>1. Init => \A p \in Pools, q \in Policies : Pool(p, q)!Init
  BY PoolsStartAlone
<1>2. PoolsInv /\ PoolsInv' /\ [Next]_vars
        => [\A p \in Pools, q \in Policies :
              q = policy => [Pool(p, q)!Next]_(Pool(p, q)!vars)]_vars
  BY PoolsStepAlone
<1> QED
  BY <1>1, <1>2, PoolsSafe, PTL DEF Spec, ImplementsPools
=============================================================================
