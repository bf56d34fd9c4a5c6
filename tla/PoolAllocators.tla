--------------------------- MODULE PoolAllocators ---------------------------
(***************************************************************************)
(* PoolAllocators and the tests that drive it                              *)
(* (src/PoolAllocatorTest.cpp): an array of pools with chunks of different *)
(* sizes, shared by threads that allocate some blocks and free them.       *)
(*                                                                         *)
(* A call of a pool takes the pool's lock, loads its fields, stores them   *)
(* and releases the lock, one step each: nothing but the lock keeps the    *)
(* compiler from working on copies of m_used and m_currFreeChunksIdx.  The *)
(* lock is a Mutex, which is what Spinlock is shown to implement.          *)
(***************************************************************************)
EXTENDS Integers, FiniteSetsExt

CONSTANTS
  Threads,      \* those of RunMultiThreadTest
  Main,         \* the one of them that stands for RunTest
  NoThread,     \* not a thread
  PoolsNum,     \* number of pools in mAllocators
  ChunksNum,    \* sMaxChunksNum: chunks in each pool
  ChunkSize,    \* pool -> m_chunkSize
  SizeT,        \* 2^64, the modulus of std::size_t
  Uint32,       \* 2^32, the modulus of GetUsedSize()
  Policies,     \* values of cPoolAllocThreadPolicy
  NDEBUG,       \* TRUE when assert() is compiled out
  Sizes,        \* sizes the threads ask for
  Allocs,       \* how many blocks a test allocates
  AtEnd         \* pool -> the pointer that equals the end of its buffer, or Nowhere

Pools == 1..PoolsNum

Chunks == 0..(ChunksNum - 1)

(* malloc() is a pool 0 that always has a block.                           *)
Pointer == [pool : 0..PoolsNum, chunk : Nat]

Nowhere == [pool |-> 0, chunk |-> 0]

ASSUME PoolAllocatorsAssumption ==
  /\ Main \in Threads /\ NoThread \notin Threads /\ IsFiniteSet(Threads)
  /\ PoolsNum \in Nat \ {0} /\ ChunksNum \in Nat \ {0}
  /\ ChunkSize \in [Pools -> Nat \ {0}]
  /\ \A p \in Pools : ChunksNum * ChunkSize[p] < SizeT
  /\ SizeT \in Nat \ {0} /\ Uint32 \in Nat \ {0}
  /\ Policies \subseteq {"NONE", "ENABLE_SPIN_LOCK"}
  /\ NDEBUG \in BOOLEAN
  /\ Sizes \subseteq Nat /\ Allocs \in Nat
  /\ AtEnd \in [Pools -> Pointer]

VARIABLES
  policy,     \* cPoolAllocThreadPolicy
  status,     \* "running", or how the program stopped
  inited,     \* how many pools the constructor has initialised
  freeChunks, \* pool -> m_freeChunks
  current,    \* pool -> m_currFreeChunksIdx
  used,       \* pool -> m_used
  owner,      \* pool -> the thread that has its lock
  at,         \* where each thread is
  op,         \* the call it is in: "Allocate" or "Free"
  pool,       \* the pool it is calling
  ptr,        \* what it frees, or what Allocate returns
  copy,       \* the fields it has loaded
  held,       \* thread -> the pointers in its memPointers
  todo        \* thread -> the blocks it still has to allocate

poolVars == <<freeChunks, current, used>>
clientVars == <<held, todo>>
vars == <<policy, status, inited, poolVars, owner, at, op, pool, ptr, copy, clientVars>>

Running == status = "running"

At(t, label) == Running /\ at[t] = label

Goto(t, label) == at' = [at EXCEPT ![t] = label]

Locking == policy = "ENABLE_SPIN_LOCK"

(* The pools an Allocate(size) could use.                                  *)
Fitting(size) == {p \in Pools : size <= ChunkSize[p]}

(* The range check of PoolAllocator::Free, end of the buffer included.     *)
InBuffer(p, x) == x.pool = p \/ (x # Nowhere /\ x = AtEnd[p])

(* Blocks malloc has handed out and nobody has freed.                      *)
Allocated == (UNION {held[t] : t \in Threads}) \cup {ptr[t] : t \in Threads}

(* The blocks malloc may return.  2 * Allocs + 1 bounds them: more than    *)
(* the threads ever have.                                                  *)
Fresh == {x \in [pool : {0}, chunk : 1..(2 * Allocs + 1)] : x \notin Allocated}

-----------------------------------------------------------------------------
(* The constructor initialises one pool after the other.                   *)
Construct ==
  /\ Running
  /\ inited < PoolsNum
  /\ inited' = inited + 1
  /\ UNCHANGED <<policy, status, poolVars, owner, at, op, pool, ptr, copy, clientVars>>

(* The thread gets a block from the system instead; the first one will do. *)
Fallback(t) ==
  \E x \in Fresh :
    /\ \A y \in Fresh : x.chunk <= y.chunk
    /\ held' = [held EXCEPT ![t] = held[t] \cup {x}]
    /\ todo' = [todo EXCEPT ![t] = todo[t] - 1]

(* Allocate(size) looks for the first pool whose chunks are large enough.  *)
StartAllocate(t, size) ==
  /\ At(t, "idle")
  /\ inited = PoolsNum
  /\ todo[t] > 0
  /\ IF Fitting(size) = {}
     THEN Fallback(t) /\ UNCHANGED <<at, op, pool, ptr>>
     ELSE /\ Goto(t, "lock")
          /\ op' = [op EXCEPT ![t] = "Allocate"]
          /\ pool' = [pool EXCEPT ![t] = Min(Fitting(size))]
          /\ ptr' = [ptr EXCEPT ![t] = Nowhere]
          /\ UNCHANGED clientVars
  /\ UNCHANGED <<policy, status, inited, poolVars, owner, copy>>

(* Free(p) asks the pools one after the other, from the first.             *)
StartFree(t, x) ==
  /\ At(t, "idle")
  /\ Goto(t, "lock")
  /\ op' = [op EXCEPT ![t] = "Free"]
  /\ pool' = [pool EXCEPT ![t] = 1]
  /\ ptr' = [ptr EXCEPT ![t] = x]
  /\ held' = [held EXCEPT ![t] = held[t] \ {x}]
  /\ UNCHANGED <<policy, status, inited, poolVars, owner, copy, todo>>

(* Mutant: Free does not take the lock.                                    *)
LockToAllocate(t) ==
  /\ At(t, "lock")
  /\ IF Locking /\ op[t] = "Allocate"
     THEN owner[pool[t]] = NoThread /\ owner' = [owner EXCEPT ![pool[t]] = t]
     ELSE UNCHANGED owner
  /\ Goto(t, "load")
  /\ UNCHANGED <<policy, status, inited, poolVars, op, pool, ptr, copy, clientVars>>

Lock(t) ==
  /\ At(t, "lock")
  /\ IF Locking
     THEN owner[pool[t]] = NoThread /\ owner' = [owner EXCEPT ![pool[t]] = t]
     ELSE UNCHANGED owner
  /\ Goto(t, "load")
  /\ UNCHANGED <<policy, status, inited, poolVars, op, pool, ptr, copy, clientVars>>

LoadFields(t) ==
  /\ copy' = [copy EXCEPT ![t] = [current |-> current[pool[t]], used |-> used[pool[t]]]]
  /\ Goto(t, "store")

(* The pool is full: an assert, or nullptr is returned, with the lock      *)
(* still taken, and PoolAllocators falls back to malloc.                   *)
AllocateFull(t) ==
  /\ At(t, "load") /\ op[t] = "Allocate"
  /\ current[pool[t]] < 0
  /\ IF NDEBUG
     THEN Fallback(t) /\ Goto(t, "idle") /\ UNCHANGED status
     ELSE status' = "full" /\ Goto(t, "aborted") /\ UNCHANGED clientVars
  /\ UNCHANGED <<policy, inited, poolVars, owner, op, pool, ptr, copy>>

LoadAllocate(t) ==
  /\ At(t, "load") /\ op[t] = "Allocate"
  /\ current[pool[t]] >= 0
  /\ LoadFields(t)
  /\ UNCHANGED <<policy, status, inited, poolVars, owner, op, pool, ptr, clientVars>>

StoreAllocate(t) ==
  LET p == pool[t]
  IN  /\ At(t, "store") /\ op[t] = "Allocate"
      /\ ptr' = [ptr EXCEPT ![t] = freeChunks[p][copy[t].current]]
      /\ current' = [current EXCEPT ![p] = copy[t].current - 1]
      /\ used' = [used EXCEPT ![p] = (copy[t].used + ChunkSize[p]) % SizeT]
      /\ Goto(t, "unlock")
      /\ UNCHANGED <<policy, status, inited, freeChunks, owner, op, pool, copy, clientVars>>

(* Mutant: the loop over the pools asks the first one again.               *)
FreeMissedAgain(t) ==
  /\ At(t, "load") /\ op[t] = "Free"
  /\ ~InBuffer(pool[t], ptr[t])
  /\ Goto(t, "lock")
  /\ UNCHANGED <<policy, status, inited, poolVars, owner, op, pool, ptr, copy, clientVars>>

(* Mutant: the pool that refused p is the last one asked.                  *)
FreeMissedOnce(t) ==
  /\ At(t, "load") /\ op[t] = "Free"
  /\ ~InBuffer(pool[t], ptr[t])
  /\ Goto(t, "idle")
  /\ ptr' = [ptr EXCEPT ![t] = Nowhere]
  /\ UNCHANGED <<policy, status, inited, poolVars, owner, op, pool, copy, clientVars>>

(* The pool refuses p and keeps its lock; the next one is asked, and after *)
(* the last one free(p) is called.                                         *)
FreeMissed(t) ==
  /\ At(t, "load") /\ op[t] = "Free"
  /\ ~InBuffer(pool[t], ptr[t])
  /\ IF pool[t] < PoolsNum
     THEN /\ pool' = [pool EXCEPT ![t] = pool[t] + 1]
          /\ Goto(t, "lock")
          /\ UNCHANGED ptr
     ELSE /\ ptr' = [ptr EXCEPT ![t] = Nowhere]
          /\ Goto(t, "idle")
          /\ UNCHANGED pool
  /\ UNCHANGED <<policy, status, inited, poolVars, owner, op, copy, clientVars>>

LoadFree(t) ==
  /\ At(t, "load") /\ op[t] = "Free"
  /\ InBuffer(pool[t], ptr[t])
  /\ LoadFields(t)
  /\ UNCHANGED <<policy, status, inited, poolVars, owner, op, pool, ptr, clientVars>>

(* Nothing stops Free from writing past the end of m_freeChunks.           *)
StoreFree(t) ==
  LET p == pool[t]
      top == copy[t].current + 1
  IN  /\ At(t, "store") /\ op[t] = "Free"
      /\ used' = [used EXCEPT ![p] = (copy[t].used - ChunkSize[p]) % SizeT]
      /\ current' = [current EXCEPT ![p] = top]
      /\ IF top \in Chunks
         THEN freeChunks' = [freeChunks EXCEPT ![p][top] = ptr[t]] /\ UNCHANGED status
         ELSE status' = "overflow" /\ UNCHANGED freeChunks
      /\ Goto(t, "unlock")
      /\ UNCHANGED <<policy, inited, owner, op, pool, ptr, copy, clientVars>>

(* unlock(), and the call returns.                                         *)
Unlock(t) ==
  /\ At(t, "unlock")
  /\ owner' = IF Locking THEN [owner EXCEPT ![pool[t]] = NoThread] ELSE owner
  /\ IF op[t] = "Allocate"
     THEN /\ held' = [held EXCEPT ![t] = held[t] \cup {ptr[t]}]
          /\ todo' = [todo EXCEPT ![t] = todo[t] - 1]
     ELSE UNCHANGED clientVars
  /\ ptr' = [ptr EXCEPT ![t] = Nowhere]
  /\ Goto(t, "idle")
  /\ UNCHANGED <<policy, status, inited, poolVars, op, pool, copy>>

-----------------------------------------------------------------------------
(* What each thread has to allocate: RunTest has one thread,               *)
(* RunMultiThreadTest returns at once if nothing locks.                    *)
Tests ==
  LET alone == [t \in Threads |-> IF t = Main THEN Allocs ELSE 0]
      split == [t \in Threads |-> Allocs \div Cardinality(Threads)]
  IN  IF Locking THEN {alone, split} ELSE {alone}

Init ==
  /\ policy \in Policies
  /\ status = "running"
  /\ inited = 0
  /\ freeChunks = [p \in Pools |-> [i \in Chunks |-> [pool |-> p, chunk |-> i]]]
  /\ current = [p \in Pools |-> ChunksNum - 1]
  /\ used = [p \in Pools |-> 0]
  /\ owner = [p \in Pools |-> NoThread]
  /\ at = [t \in Threads |-> "idle"]
  /\ op = [t \in Threads |-> "Free"]
  /\ pool = [t \in Threads |-> 1]
  /\ ptr = [t \in Threads |-> Nowhere]
  /\ copy = [t \in Threads |-> [current |-> 0, used |-> 0]]
  /\ held = [t \in Threads |-> {}]
  /\ todo \in Tests

(* What a thread does within a call.                                       *)
Proceed(t) ==
  \/ Lock(t)
  \/ AllocateFull(t) \/ LoadAllocate(t) \/ StoreAllocate(t)
  \/ FreeMissed(t) \/ LoadFree(t) \/ StoreFree(t)
  \/ Unlock(t)

(* Every thread has allocated its blocks and freed them.                   *)
Joined == \A t \in Threads : at[t] = "idle" /\ todo[t] = 0 /\ held[t] = {}

Ended == (~Running \/ Joined) /\ UNCHANGED vars

(* Threads that free what they hold whenever they like; those of the tests *)
(* allocate everything first.                                              *)
Step(t) ==
  \/ \E size \in Sizes : StartAllocate(t, size)
  \/ \E x \in held[t] : StartFree(t, x)
  \/ Proceed(t)

Next == Construct \/ (\E t \in Threads : Step(t)) \/ Ended

Spec == Init /\ [][Next]_vars

(* The scheduler runs every thread that is not waiting for a lock, and a   *)
(* thread goes on until it has allocated and freed all it is to.           *)
FairSpec ==
  /\ Spec
  /\ WF_vars(Construct)
  /\ \A t \in Threads : WF_vars(Step(t))

-----------------------------------------------------------------------------
(* Properties.                                                             *)

TotalUsed == MapThenSumSet(LAMBDA p : used[p], Pools) % Uint32

(* The tests print Test Passed! when, after the join, GetUsedSize() is 0.  *)
TestPasses == Running /\ Joined => TotalUsed = 0

Listed(p) == {freeChunks[p][i] : i \in 0..current[p]}

(* On its way to the thread, or to a pool that has not stored it yet.      *)
Moving(t) ==
  IF op[t] = "Allocate" THEN {ptr[t]} \ {Nowhere}
  ELSE IF at[t] \in {"lock", "load", "store"} THEN {ptr[t]} ELSE {}

Having(t) == held[t] \cup Moving(t)

(* No chunk is in the hands of two threads, or free and held, or on its    *)
(* way from or to a pool and anywhere else.                                *)
NeverTwice ==
  /\ \A t, u \in Threads : t # u => Having(t) \cap Having(u) = {}
  /\ \A t \in Threads : held[t] \cap Moving(t) = {}
  /\ \A t \in Threads, p \in Pools : Having(t) \cap Listed(p) = {}

(* The calls are over at some point: join() returns.                       *)
TestEnds == <>Joined

(* Chunks of pool p the threads have: Free keeps its argument until the    *)
(* pool has stored it.                                                     *)
Out(p) == {c \in Chunks : \E t \in Threads : [pool |-> p, chunk |-> c] \in Having(t)}

(* A lock left behind by a call that is over.                              *)
Left(p) ==
  /\ owner[p] # NoThread
  /\ ~(at[owner[p]] \in {"load", "store", "unlock"} /\ pool[owner[p]] = p)

(* How a pool stopped, if it did: an assert that fails in one of them ends *)
(* the program, and leaves the others as they are.                         *)
StatusOf(p) ==
  IF \E t \in Threads : at[t] = "aborted" /\ pool[t] = p THEN "full"
  ELSE IF status = "overflow" THEN status ELSE "running"

(* Nothing but a lock left behind keeps the tests from their end.          *)
TestEndsUnlessLeft == <>(Joined \/ \E p \in Pools : Left(p))

(* What a pool with one client would have in its place.                    *)
View == [p \in Pools |->
  [status     |-> StatusOf(p),
   locked     |-> Left(p),
   freeChunks |-> [i \in Chunks |-> freeChunks[p][i].chunk],
   held       |-> [c \in Chunks |-> IF c \in Out(p) THEN [chunk |-> c, request |-> 1]
                                    ELSE [chunk |-> ChunksNum, request |-> 0]]]]

Pool(p, threadPolicy) == INSTANCE PoolAllocator WITH
  ThreadPolicy  <- threadPolicy,
  ChunkSize     <- ChunkSize[p],
  Handles       <- Chunks,
  Sizes         <- {1},
  Alignments    <- {1},
  Foreign       <- {ChunksNum + 1},
  MallocResults <- {TRUE},
  status        <- View[p].status,
  listed        <- inited >= p,
  freeChunks    <- View[p].freeChunks,
  current       <- current[p],
  used          <- used[p],
  locked        <- View[p].locked,
  held          <- View[p].held

(* The threads cannot tell: each pool behaves as if its calls came one at  *)
(* a time, in the order in which they store; Pool(p, policy)!Spec.         *)
ImplementsPools ==
  /\ \A p \in Pools, q \in Policies : Pool(p, q)!Init
  /\ [][\A p \in Pools, q \in Policies :
          q = policy => [Pool(p, q)!Next]_(Pool(p, q)!vars)]_vars
=============================================================================
