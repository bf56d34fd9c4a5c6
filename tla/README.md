# Verification of MemoryAllocators

TLA+ models of the allocators in `src/`, the TLC configurations that check them
on small instances, and proofs checked by TLAPS. `PROJECT.json` lists the runs
and theorems, and says for each definition which lines of the source it models.

    tlc -config FreeList.cfg MCFreeList      # a run: its cfg and its module
    tlapm FreeListProofs.tla                 # the proofs of a module

## The system

MemoryAllocators is a small C++11 library of memory allocators behind one base
class, with a test program and benchmarks. It does no I/O and keeps nothing on
disk, so there is no recovery and there are no messages. What is hard is
arithmetic on offsets and sizes, bookkeeping that several functions must keep
consistent over long sequences of calls, ownership of the buffers, and threads
that share an allocator under a spinlock.

| Component | State | Operations | Talks to | What is hard | What makes it correct |
|---|---|---|---|---|---|
| `AllocatorInterface` | `m_totalSize`, `m_used` | `Allocate`, `Free`, `Init`, `GetUsedSize` | base class of all allocators | – | live blocks lie in the buffer, share no byte, are counted |
| `FreeListAllocator` | buffer; unordered array of free blocks; number in use; a header in front of each block; spinlock | `Init`, `Allocate`, `Free`, `Reset`, `FullMergeMemBlocks`, `IsFullyMerged` | `malloc`; reads headers from memory the client writes next to | best fit, splitting, merging while slots move, array at its limit, casts to 32 bits | every byte is free or held, once; merging joins all; headers survive |
| `StackAllocator` | buffer, offset | `Init`, `Allocate`, `Free`, `Reset` | `malloc` | `Free` gives up all that is above, and takes `nullptr` | live blocks are stacked; `m_used` is the offset |
| `LinearAllocator` | buffer, offset | `Init`, `Allocate`, `Reset` (`Free` asserts) | `malloc` | `Reset` frees the buffer; use before `Init` | as above, and pointers are real |
| `PoolAllocator` | buffer of equal chunks; stack of free ones; spinlock | `Init`, `Allocate`, `Free`, `Reset` | `malloc`, `Spinlock` | nothing checks what is pushed; range check; lock left by early returns | every chunk is free or held, once |
| `PoolAllocators` (tests) | nine pools | `Allocate`, `Free`, `GetUsedSize` | pools, `malloc` as a fallback, two threads | finding out whose a block is; threads | blocks go back to where they came from; calls look atomic; the test ends |
| `Spinlock` | one atomic flag | `lock`, `unlock` | guards a pool or the free list | relaxed and stale loads | exclusion, visibility, no deadlock |
| Lifetime of the four allocators | the buffers they own | constructors, copies, `Init`, `Reset`, destructors | `malloc`, `free` | who frees what, after copies and failed `malloc`s | nothing is freed twice |
| Linked lists, `CalculatePadding` | `head`, `next` | `push`, `pop`, `insert`, `remove` | unused | uninitialised `head`, old `next` fields, a cast to `char` | fields stand for the intended sequence |
| Test program | set of functions, set of results, the pointers of a test | `Register`, `Run`, the `RunTest` functions | all allocators | static initialisation; bookkeeping with random order; results compared by duration only | every test runs, frees what it has once, and passes |
| `SpinlockGuard`, `benchmark/`, build files | – | – | unused, vendored | – | – |

## Modules

| Module | What it is |
|---|---|
| `AllocatorInterface` | abstract specification: extents granted and released, and `used` |
| `FreeListAllocator`, `MCFreeList` | the free list; `FreeListProofs` |
| `BumpAllocation` | what `StackAllocator.h` and `LinearAllocator.h` have in common, line for line |
| `StackAllocator`, `LinearAllocator`, `BumpAllocators` | each of the two extends it by its `Free` and `Reset`; the third is a program with one or the other; `BumpProofs` |
| `PoolAllocator`, `MCPool` | one pool, calls are atomic; `PoolProofs` |
| `Mutex` | abstract specification of a lock |
| `Spinlock` | implements it on one atomic flag; `SpinlockProofs` |
| `PoolAllocators`, `MCPools` | threads, an array of pools and malloc; one step per lock, load and store; `PoolsProofs` |
| `AllocatorLifetime`, `MCLifetime` | objects of the four classes and the memory they own; `LifetimeProofs` |
| `LinkedLists`, `MCLinkedLists` | the two list classes and the padding; `LinkedListProofs` |
| `TestProgram` | registration, `Run`, the tests and their results; `TestProgramProofs` |

They fit together by refinement: `Spinlock` implements `Mutex`; `PoolAllocators`
uses a `Mutex` per pool, and each of its pools implements `PoolAllocator`, in
which a call is one step; `PoolAllocator`, `FreeListAllocator`, `StackAllocator`
and `LinearAllocator` implement `AllocatorInterface`. `TestProgram` is a client
of what they promise, and `HoldsWhatIsLive` is in turn what they ask of clients.

### How state and actions correspond to the code

An address is an offset from `m_start_ptr` (for a pool: a number of chunks).
`Handles` are pointer variables of the client; what the model remembers under
one (`block`, `held`, `live`) is what the client got. Every public member
function is an action or a disjunction of actions, one for each way to return:
`AllocateRefused`, `AllocateSplit`, `AllocateExact`, and so on. A failed assert
sets `status` and is the end of the program if asserts are compiled in; undefined
behaviour that the code walks into (an index of -1, an overwritten header, a
write past an array, a null list) sets `status` too. `Stopped` keeps such states
from being taken for deadlocks. The compile-time policies are constants, or
variables that never change where one run takes in all of them (`ndebug`,
`class`, `policy`, `kind`). `locked` is the spinlock as the last call left it:
with one thread a lock that is taken when a call starts is never released.

* **FreeListAllocator.** `slots` and `currSize` are `m_freeMemBlocks` and
  `m_currSize`. The search of `FindFreeMemBlockIndex` is stated declaratively
  (`Fitting`, `Wide`, `Preferred`), its cast of sizes to `int` included;
  `SearchLoop` is the loop itself, and `SearchLoopAgrees` compares the two in
  every state. `FullMergeMemBlocks` is the one function whose iterations are
  steps (`merge` is the index), so that invariants hold between them. A header
  is kept with its block; `ClientWrite` lets a client write to its block, which
  overwrites headers that overlap it, and so does the header of a new block. `exactFit` and `coalesced` are history
  variables that the properties read and no action depends on.
* **Stack and linear allocator.** `live` is the sequence of pointers since the
  last `Init` or `Reset`. Padding is computed from the size, not the address,
  as in the code; all sums are modulo `SizeT`. `Start` is the address of the
  buffer, which matters to `Free(nullptr)` of a stack only: the test calls it
  when an `Allocate` was refused, and the offset becomes `SizeT - Start`.
* **PoolAllocator.** `freeChunks` and `current` are `m_freeChunks` and
  `m_currFreeChunksIdx`. `FreeForeign` is a call with a pointer from elsewhere,
  which is how `PoolAllocators` uses `Free`. Of the two `malloc`s of `Init` only
  the second can fail here; what the first leaves behind is in
  `AllocatorLifetime`.
* **Spinlock.** A load may return an older value of the flag unless the thread
  already knows the last one (`seesFlag`). `seesData[t]` says that all writes to
  the guarded data happened before t's next step, `published` that they happened
  before that of whoever acquires the flag next; acquire, release and the
  release sequence through failed exchanges decide how they change.
* **PoolAllocators.** A call is `Lock`, a load of the pool's fields, a store of
  them and `Unlock`; `at` is where the thread is. `Tests` are `RunTest` (one
  thread, `Main`) and `RunMultiThreadTest`, which does nothing unless the pools
  lock. malloc is a pool 0 that always has a block. `AtEnd` says which foreign
  pointer equals the end of a buffer: the range check of `Free` lets it pass. An
  assert that fails in a pool leaves its thread at `aborted`, so that `StatusOf`
  can tell which pool it was: the others are stopped, not broken. `Having(t)` is
  what a thread holds and what a call of it has in hand; `View` is how one pool
  looks to `PoolAllocator`.
* **AllocatorLifetime.** `start` and `chunks` are the pointers an object owns,
  `heap` what malloc handed out and has not got back. A buffer is a name: what
  is in it is left to the other modules. `ready` is what the client knows, that
  it called `Init` and no `Reset` of a linear allocator since. `Use` is the first
  call after that, and a step only if it goes wrong. `shared` and `failed` are
  history variables. The pool has a copy constructor; the stack and the linear
  allocator have deleted theirs but not the copy assignment, so `Assign` is one
  of their operations.
* **LinkedLists.** `head` and `next` are the fields, `lists` the sequences that
  the calls should have made of them, by which the client names the previous
  node. `Stray` is an uninitialised pointer: `BuildStack` and `BuildSingly` take
  it from the initialisers each class has and has not.
* **TestProgram.** A test is a record of what tells the `RunTest` functions
  apart. A pointer is the number of blocks granted before it; a buffer surely
  has room for `MinGranted` blocks and refuses whenever it likes from there on.
  `i` is the counter of the loops. The ones that free in random order count down
  from `LastIndex` and never look at the list, the one of the stack test ends when
  the list is empty (`FreesMore`). `Drawn` is `rand() % i`, which never draws the
  last index but for the only one; an index past the list is a status. `refused`
  is a history variable. The full merge at the end of the free list's test is not
  here: `FullMergeRestoresBuffer` and `FullMergeTestPasses` of
  `FreeListAllocator` are its check. `StaticInit` registers the tests of one translation unit.

## Runs

Properties are listed in `PROJECT.json`, and explained where they are defined.

| Run | Question and answer | Bounds, and why they are enough |
|---|---|---|
| `freelist_core` | With the policies of the source, and until an exact fit: the buffer is partitioned, bookkeeping agrees, one pass merges all, the search is best fit and its loop agrees with that, a slot is always there, no assert but "Not enough memory" fails, the abstract allocator is implemented. **Holds.** | 72 bytes, header 8, 3 pointers, 2 sizes, 4 slots: room for 3 blocks and fragments between them; a freed block has a neighbour on either side, on one, on none; the array fills up to the slot before its last. Sizes from 40 on are negative as `int` (`Uint32 = 80`): such a slot and another one that fits, of either sign, are on the list together, but never two such slots with room for both |
| `freelist_exact_fit` | What about exact fits, mixed alignments, a failing malloc, leaked locks, a buffer size cut to 32 bits, `FAST_MERGE`? Types hold and `Reset`/`Init` restore all promises. **Holds.** | 2 pointers of 2 block sizes: an exact fit of slot 0 and of another one, and whatever the list then holds |
| `freelist_lost_block` | Is the buffer whole when everything is freed and merged, as the test expects? **No**, after an exact fit. | the smallest buffer with the case |
| `bump` | Stack or linear, asserts in or out, any order of frees, `nullptr` among them: stacked, large enough, aligned if what lies below is, and every call but `Init` and `Free(nullptr)` leaves `m_used` where the last block ends. Calls in LIFO order implement the interface. **Holds.** | 20 bytes, alignments 1 and 4, a size that is a multiple of one: up to 10 blocks of every mix; `SizeT = 64` and `Start = 40` keep every sum below the wrap, and `Free(nullptr)` above the buffer |
| `linear_no_buffer` | Do pointers point into a buffer? **No**, before `Init` and after `Reset`. | – |
| `pool` | Any order of frees and resets, foreign pointers: chunks are conserved, counted, and the interface is implemented. **Holds.** | No lock, as shipped, so that calls go on after a foreign pointer; asserts, so that a full pool ends the program (`pools` goes on from there). 4 chunks and one pointer more than chunks: empty, full and everything between, every order of the stack |
| `spinlock` | Exclusion, visibility, progress, implements `Mutex`. **Holds.** | 4 threads: a holder, one at the exchange, one at the load, one outside |
| `pools` | Two pools, both policies, both tests: no chunk has two owners, no lost update, atomic calls, blocks find their way back, and only a lock left behind keeps the tests from their end. **Holds.** | sizes for pool 1, pool 2 and none; 3 chunks and 4 allocations, so pools run full; 2 blocks for each of two threads, so a freed chunk is reused by the other while the first is in a call; one buffer ends where another starts |
| `pools_deadlock` | Are the test's threads joined with more than one pool? **No.** | one block for each thread |
| `linked_lists` | Do `head` and `next` stand for the lists the calls should have made? Where does a stray pointer come from, and where does the padding lead? **To the sequence; from construction only; to the next multiple below 128, 256 bytes short of it from there on.** | 4 nodes that move between 2 lists: insertion and removal at the front, in the middle and at the end, with `next` fields from the other list. Addresses up to twice 256, alignments on both sides of 128 |
| `lifetime` | Is anything freed twice, used after it was freed, or lost? **Only after a copy of an allocator with memory; only where a pool is initialised again or a buffer assigned over.** | 3 objects of any class and 4 buffers: two pools at once, a copy of a copy, an address that malloc hands out again |
| `test_program` | Do all tests run, pass and free each block once, do their counters stay in step with their lists, and does `Run` return? **Yes, unless an allocator refused a block: then its assert or `Free(nullptr)` may stop the program.** | 4 blocks, of which 2 are surely granted: refusals before and after grants, every random order; 2 durations, so that times are equal |

`CHECK_DEADLOCK FALSE` is used in `pools` and `pools_deadlock` only: there a
thread that spins has no step in the model, and whether the program gets stuck
is the question `TestEnds` and `TestEndsUnlessLeft` ask.

The bound on `Sizes` is below `Uint32` in the free list runs, and far from
`SizeT` in the bump and pool runs. What happens beyond is stated by the
assumptions of the theorems (below): `GrantCoversRequest` needs them.

### Fairness

Three specifications have some. `Spinlock!FairSpec`: each thread that can read the
latest flag, exchange, write or unlock does so in the end. It rests on the
scheduler, and on the C++ rule that a store becomes visible in finite time. No
thread has to call `lock()`. `SomeoneEnters` promises that some waiting thread
gets in, nothing to a given one: the code is not free of starvation.
`PoolAllocators!FairSpec`: a thread that is not waiting for a lock runs, and goes
on until it has allocated and freed its blocks, as the loops of `threadFunc` do.
Weak fairness is enough since each thread makes a finite number of calls.
`TestProgram!Spec`: the one thread there is runs on. `RunEnds` is then a matter
of the loops: that what they count, or the list, comes to its end, and that no
index leaves the list. A program that stopped without a refusal violates it.

### What the failing runs show

1. **Exact fit (`FreeListAllocator.h:100`).** When a free block is taken whole
   the code overwrites the slot *before* it with the slot *behind* the last one.
   A free block is lost, and the one handed out may stay on the list; for slot 0
   the index is -1. Allocating, freeing and allocating one size is enough. The
   test never gets there since it frees after its last `Allocate`.
2. **Linear allocator without a buffer (`LinearAllocator.h:67`).** `Reset` frees
   the buffer, and `Allocate` then returns offsets from `nullptr`. The test and
   the benchmark never call `Init` at all, and pass.
3. **Leaked lock (`PoolAllocator.h:95`).** `Free` returns `false` with the lock
   taken. `PoolAllocators::Free` asks the pools in order, so with
   `ENABLE_SPIN_LOCK` the multi-threaded test hangs at the first block that is
   not of the first pool.

Further deviations have no failing run of their own, since no document says
otherwise. A passing property describes each of them, or a hazard of
`PROJECT.json` has a note:

* requests and buffers of 2^32 bytes and more (free list), sums that wrap at 2^64
  (stack and linear allocator), `GetUsedSize` of the pools cut to 32 bits;
* mixed alignments: padding rounds the size of a block and not its address
  (`Aligned`; the assert at `FreeListAllocator.h:108` fails);
* `Free(nullptr)` of a stack, after which nothing is granted until a live
  pointer is freed (`Stacked`), and of a free list, which crashes;
* copies: a pool that has memory, and an assigned stack or linear allocator,
  lead to a double free (`FreesOnce`), and two places lose memory
  (`LeaksByInitOrAssign`);
* the end of the buffer in a pool's range check; a fallback to malloc while
  other pools have chunks;
* `SinglyLinkedList` without an initial `head` (`StrayOnlyIfBuilt`), and
  `CalculatePadding` from 128 on (`PaddingAligns`);
* the summary of the tests drops all but one result of the same duration
  (`Emplace`; no property repeats that comparison);
* `GetUsedSize()` of a stack or linear allocator is stale from `Init` to the next
  call that grants or frees a block (`UsedFollowsLive`).

## Proofs

Each theorem below states a property of a passing run, here for every value of
the constants that satisfies the module's named assumption (types of the
constants and, for a pool, that its size fits `std::size_t`) and the extra
assumption in the table. Every safety property, action property and refinement
that a passing run checks is stated by a theorem.

| Theorems | Extra assumptions | Inductive invariant |
|---|---|---|
| `TypeCorrect` | none | `TypeOK` is inductive by itself: `merge < currSize` keeps the merge loop in the list although slots are removed under it |
| `BufferPartitioned`, `HeadersStayIntact`, `SearchIsBestFit` | none: all merge policies, exact fits included as the end of the promise | `IInv` = `TypeOK` and `ShapeOK`: until an exact fit, blocks are larger than their headers, headers hold their sizes, and slots and blocks share the buffer (apart, inside, covering every byte). `Partitioned` alone is not inductive: `Free` returns what the *header* says |
| `BlocksCoverRequests` | sizes below 2^32 | by itself |
| `OnePassIsEnough` | none | `MergedOK`: behind the loop index no slot touches another one, whatever slot moved there, and no free block is empty |
| `FullMergeIsFull` | buffer below 2^32 | the two together, and that two blocks that do not touch leave a byte between them that is neither free nor held |
| `ArrayHasRoom` | `Roomy` | `RoomOK`: the array is full only while the merge pass runs, and then the pointer just freed is idle. When no two free blocks touch, each but the topmost has a held block right above it, so there are at most as many as held ones and one: the pigeonhole in `FewBlocks` |
| `OnlyMemoryRunsOut` | `Roomy`, `OneAlignment` | `GridOK` on top of these: every free and every held block begins at a multiple of the alignment |
| `LoopAgrees` | `WideEnough` | none: a statement about every list that `IInv` allows, by induction on the slots looked at (`BestSoFar`) |
| `FreeListImplementsInterface` | behaviours up to an exact fit | `IInv` |
| `BlocksStack`, `UsedCountsLive`, `BumpGrantsEnough`, `BlocksAligned`, `BumpKeepsPromise` | `NoWrap` | `BumpInv`, for both classes: each block begins where the one before ends, the last one ends at the offset (or the offset is where `Free(nullptr)` left it), within the buffer; `BelowLater`, since `Free` gives up what lies above; `EndsAligned`, that a block ends at a multiple of every alignment that all blocks up to it were padded to |
| `PoolConservesChunks`, `PoolCountsUsed`, `PoolTypesHold`, `PoolImplementsInterface` | `Elsewhere` | `PoolInv`: chunks are free or held once, *and* free slots plus held chunks are `ChunksNum`. That the push never leaves the array is a matter of counting, which conservation does not give by itself |
| `ChunksHaveOneOwner`, `TestsPass`, `PoolsActAlone` (all from `PoolsSafe`) | `Harmless` | `PoolsInv`: whoever is between load and unlock is the owner of the lock, or the only thread (`Alone`); so what it loaded is still true when it stores (`CopyIsTrue`); what a thread has in hand at each point of a call (`InCall`), in particular that `Free` is never past the pool its block came from; slots plus chunks that are out are `ChunksNum` (`Counted`) |
| `LockExcludes`, `LockPublishes`, `SpinlockIsMutex` | none | `IInv`: the flag is set while the lock is held, and the last write of the flag carries all writes to the data while it is not. A failed exchange in between must keep that: it continues the release sequence |
| `ListsStayLinked`, `StrayNeedsUninitialised` | none: any lists and nodes | `Invariant`: `TypeOK`, `Linked`, and `NodesOnce`: no node is in a list twice or in two lists. Without it an insertion could change a link of another list. `BuiltByKind`: only a `SinglyLinkedList` has a stray head |
| `PaddingReachesMultiple` | alignments up to 256, addresses of any size | none: arithmetic with the cast to `char` |
| `MemoryFreedOnce`, `InitGivesMemory`, `MemoryLostInTwoPlaces` | for the second, a malloc that never fails is the case of interest | `LifetimeTypeOK`; `ByClass` (only pools have a second array, and objects that are not alive own nothing); `SoleOwners` (until a copy, what an object owns is in the heap and no other object's); `ReadyHasMemory` (who is ready has memory, unless malloc failed). The third is an action property: each action but two hands on or frees whatever its object owned |
| `TestsHoldWhatIsLive`, `EveryCheckSucceeds`, `NoTestIsLost` | none: any number of blocks, any buffer that has room for one | `ProgramInv`. `TestInv`: while a test allocates, `used` blocks are live and numbered from 0; the first request was granted; the pointers of the stack test rise (`Rising`), so that freeing the last gives up no other; `used` counts what is live, or comes back to 0 with the first pointer although `nullptr` took it out of the buffer (`Counted`). `RegistryInv`: what has printed a verdict is what is neither waiting nor running. `Counting`: while a loop counts down, the list has one pointer more than the counter says, so that what is drawn is in it and nothing is left behind |

The extra assumptions, and what the code has to do with them:

* `Roomy`: more slots than pointers the client has at a time, at least two, and a
  merge policy that merges everything when the array fills up. The source has
  about 2045 slots and `ENABLE_FULL_MERGE_IF_NO_SPACE`, its test 1000 pointers.
  With `ENABLE_FAST_MERGE` free blocks that touch two others may pile up.
* `OneAlignment`: all requests have one alignment, which divides the header size,
  and sizes below 2^32. The test always asks for 8. With two alignments the
  assert at `FreeListAllocator.h:108` can fail.
* `WideEnough`: `size_t` holds twice what `uint32_t` does. On a platform where
  both have 32 bits a difference that wraps around could look like a fit.
* `NoWrap`: no size plus alignment within the buffer size of 2^64, nor so large
  that it wraps from the offset that `Free(nullptr)` leaves.
* `Elsewhere`, `Harmless`: no block of another allocator lies at the end of a
  pool's buffer, unless that pool is asked after the one it belongs to. The range
  check takes such a block in; whether there is one is up to `malloc`.

The proofs build on each other. The lemmas of the free list that carry most say
that joining two slots, splitting one and appending one keep the buffer shared
(`MergeShares` and the lemmas after it). `PoolsActAlone` maps a store to a call of
`PoolAllocator` and all else to a stutter; trying to prove it showed that it was
false with asserts compiled in, where a full pool ends the program and the other
pools looked as if they had stopped by themselves. `StatusOf` is the answer.

The two proofs by induction (`SumOfZeros`, on the sum in `GetUsedSize()`, and the search
loop) take a least counterexample, from `NatLessThanWellFounded` and `WFMin`: the
library's induction theorems, and those on recursive functions, take an operator as
a parameter, which the provers cannot instantiate.

Only model-checked: `SomeoneEnters`, `TestEndsUnlessLeft` and `RunEnds`. Liveness
under fairness, and `ENABLED`, are out of the prover's reach. Free lists beyond
an exact fit keep no promise but their types and block sizes (`TypeCorrect`,
`BlocksCoverRequests`); run `freelist_exact_fit` looks at the rest.

## Not modelled

* `SpinlockGuard`: no code uses it. It is `lock()` and `unlock()` of `Spinlock`
  in a constructor and a destructor, and would release what early returns leave.
* The benchmarks (functions `BM_...`), which repeat one `Allocate` and one `Free`,
  the vendored library they run under, and the build files.
* Stale pointers and double frees by clients: no document says what they should
  do, and the tests do not do it (`HoldsWhatIsLive`).
* Threads that share a free list. `Reset` and `FullMergeMemBlocks` take no lock,
  whatever the policy, and no code of the repository shares one.
* The implicit copy of a `SinglyLinkedList`: two heads over the same nodes.
* Data races of an unlocked pool: with `NONE` only one thread may use it, which is
  what the tests do.
* Timing, printing, colours, `yield()`.

## Plan

The order was: the free list (the most intricate state), the allocators that
share `BumpAllocation`, the pool, the lock, their composition; then ownership,
the linked lists, the test program. What is left, in this order:

1. A variant of `PoolAllocators` in which `SpinlockGuard` releases the lock on
   every return, for which `TestEnds` should hold.
2. Threads that share a free list.
3. Proofs: what is left of a free list after an exact fit; pools whose buffers
   end where another block starts, in the orders that do harm.
