---------------------------- MODULE TestProgram -----------------------------
(***************************************************************************)
(* The program of the repository (src/main.cpp, src/Test.cpp, src/Test.h   *)
(* and RunTest of every src/*Test.cpp): tests register before main, are    *)
(* run one after the other in the order of their addresses, and leave      *)
(* their time in a set of results.                                         *)
(*                                                                         *)
(* The allocators are what the other modules show them to be (a free list  *)
(* up to its first exact fit); here a pointer is the number of blocks      *)
(* granted before it, and used counts blocks.  The pools are those of the  *)
(* repository, which do not lock and have as many chunks each as a test    *)
(* allocates; malloc is taken to succeed.                                  *)
(***************************************************************************)
EXTENDS Integers, Sequences, SequencesExt

CONSTANTS
  MaxChunksNum, \* sMaxChunksNum: how many blocks a test allocates
  MinGranted,   \* as many a buffer has room for, whatever their sizes
  Durations     \* times a test may take

ASSUME TestProgramAssumption ==
  /\ MaxChunksNum \in Nat \ {0}
  /\ MinGranted \in 1..MaxChunksNum
  /\ Durations \subseteq Nat

Null == -1

(* What tells the RunTest functions apart: the order in which they free,   *)
(* whether Allocate may refuse, and what Free makes of a null pointer and  *)
(* of any other: "one" gives up one block, "above" all granted since.      *)
(* The full merge that the free list's test ends with, and its check, are  *)
(* FullMergeTestPasses of FreeListAllocator and not modelled here.         *)
FreeListAllocatorTest ==
  [name |-> "FreeListAllocator", order |-> "random", refuses |-> TRUE, frees |-> "one",
   nullIs |-> "crash"]

StackAllocatorTest ==
  [name |-> "StackAllocator", order |-> "last first", refuses |-> TRUE, frees |-> "above",
   nullIs |-> "far out"]

(* The pointers are dropped, and Reset is called instead of Free.          *)
LinerAllocatorTest ==
  [name |-> "LinerAllocator", order |-> "reset", refuses |-> TRUE, frees |-> "none",
   nullIs |-> "ignored"]

MallocAllocatorTest ==
  [name |-> "MallocAllocator", order |-> "random", refuses |-> FALSE, frees |-> "one",
   nullIs |-> "ignored"]

PoolAllocatorTest ==
  [name |-> "PoolAllocator", order |-> "random", refuses |-> FALSE, frees |-> "one",
   nullIs |-> "ignored"]

(* Returns at once: nothing locks.                                         *)
PoolAllocatorMultiTest ==
  [name |-> "PoolAlloc2Threads", order |-> "returns", refuses |-> FALSE, frees |-> "none",
   nullIs |-> "ignored"]

(* Translation unit -> the tests it registers.                             *)
Registers ==
  [FreeListAllocatorTest |-> {FreeListAllocatorTest},
   StackAllocatorTest    |-> {StackAllocatorTest},
   LinearAllocatorTest   |-> {LinerAllocatorTest},
   MallocAllocatorTest   |-> {MallocAllocatorTest},
   PoolAllocatorTest     |-> {PoolAllocatorTest, PoolAllocatorMultiTest},
   Test                  |-> {}]

Units == DOMAIN Registers

NoTest == [name |-> "none", order |-> "returns"]

VARIABLES
  ndebug,      \* the build: TRUE when assert() is compiled out
  status,      \* "running", or how the program stopped
  phase,       \* "static", then "main", then "done"
  initialised, \* the units whose static variables are
  tests,       \* GetTests()
  left,        \* those Run() has not come to
  test,        \* the one that is running, or NoTest
  step,        \* where that is: "allocate" or "free"
  pointers,    \* memPointers
  i,           \* the counter of its loops
  refused,     \* history: whether Allocate refused it a block
  live,        \* the pointers handed out and not given back
  used,        \* GetUsedSize()
  verdicts,    \* what the tests printed: name, time, passed or not
  results      \* GetTestResults()

testVars == <<test, step, pointers, i, refused, live, used>>
vars == <<ndebug, status, phase, initialised, tests, left, testVars, verdicts, results>>

Running == status = "running"

-----------------------------------------------------------------------------
(* Mutant: GetTests() returns a variable that Test.cpp initialises.        *)
StaticInitConstructs(u) ==
  /\ phase = "static"
  /\ u \notin initialised
  /\ initialised' = initialised \cup {u}
  /\ tests' = IF u = "Test" THEN {} ELSE tests \cup Registers[u]
  /\ UNCHANGED <<ndebug, status, phase, left, testVars, verdicts, results>>

(* Units are initialised in any order; the set is there at the first call. *)
StaticInit(u) ==
  /\ phase = "static"
  /\ u \notin initialised
  /\ initialised' = initialised \cup {u}
  /\ tests' = tests \cup Registers[u]
  /\ UNCHANGED <<ndebug, status, phase, left, testVars, verdicts, results>>

EnterMain ==
  /\ phase = "static"
  /\ initialised = Units
  /\ phase' = "main"
  /\ left' = tests
  /\ UNCHANGED <<ndebug, status, initialised, tests, testVars, verdicts, results>>

(* Any of those left may have the lowest address.                          *)
StartTest(f) ==
  /\ phase = "main" /\ test = NoTest
  /\ f \in left
  /\ left' = left \ {f}
  /\ test' = IF f.order = "returns" THEN NoTest ELSE f
  /\ step' = "allocate"
  /\ pointers' = <<>>
  /\ i' = 0
  /\ refused' = FALSE
  /\ live' = {}
  /\ used' = 0
  /\ UNCHANGED <<ndebug, status, phase, initialised, tests, verdicts, results>>

Keep(p) == pointers' = IF test.order = "reset" THEN pointers ELSE Append(pointers, p)

AllocateGranted ==
  /\ Keep(used)
  /\ live' = live \cup {used}
  /\ used' = used + 1
  /\ UNCHANGED <<status, refused>>

(* The allocator asserts that it has room before it returns nullptr.       *)
AllocateRefused ==
  /\ test.refuses /\ used >= MinGranted
  /\ refused' = TRUE
  /\ IF ndebug THEN Keep(Null) /\ UNCHANGED status
     ELSE status' = "aborted" /\ UNCHANGED pointers
  /\ UNCHANGED <<live, used>>

Allocate ==
  /\ Running /\ test # NoTest /\ step = "allocate"
  /\ i < MaxChunksNum
  /\ i' = i + 1
  /\ AllocateGranted \/ AllocateRefused
  /\ UNCHANGED <<ndebug, phase, initialised, tests, left, test, step, verdicts, results>>

(* Mutant: the counter starts one too high.                                *)
LastIndexTooHigh == MaxChunksNum

(* Where the counter of the loop that frees in random order starts.        *)
LastIndex == MaxChunksNum - 1

EndAllocate ==
  /\ Running /\ test # NoTest /\ step = "allocate"
  /\ i = MaxChunksNum
  /\ step' = "free"
  /\ i' = LastIndex
  /\ IF test.order = "reset"
     THEN live' = {} /\ used' = 0
     ELSE UNCHANGED <<live, used>>
  /\ UNCHANGED <<ndebug, status, phase, initialised, tests, left, test, pointers, refused,
                 verdicts, results>>

(* The conditions of the loops that free: the random ones count down and   *)
(* do not look at the list.                                                *)
FreesMore ==
  \/ test.order = "last first" /\ pointers # <<>>
  \/ test.order = "random" /\ i >= 0

(* Mutant: the oldest pointer is freed first.                              *)
DrawnInOrder ==
  IF test.order = "last first" THEN {1} ELSE IF i = 0 THEN {1} ELSE 1..i

(* Which pointer is freed next.  The index of a random one is drawn below  *)
(* the counter, and is 0 when that is 0: the last pointer waits.           *)
Drawn ==
  IF test.order = "last first" THEN {Len(pointers)} ELSE IF i = 0 THEN {1} ELSE 1..i

(* Mutant: the last pointer is erased and not the one freed.               *)
ErasedLast(k) == Front(pointers)

(* Mutant: the pointer stays in the list.                                  *)
ErasedNone(k) == pointers

Erased(k) == RemoveAt(pointers, k)

(* Free(nullptr) takes the offset of a stack far out of its buffer, and    *)
(* reads a header below address 0 in a free list.                          *)
FreeNull ==
  /\ status' = IF test.nullIs = "crash" THEN "crashed" ELSE status
  /\ used' = IF test.nullIs = "far out" THEN Null ELSE used
  /\ UNCHANGED live

FreeBlock(p) ==
  /\ used' = IF test.frees = "above" THEN p ELSE used - 1
  /\ live' = IF test.frees = "above" THEN {q \in live : q < p} ELSE live \ {p}
  /\ UNCHANGED status

(* Nothing checks the index against the list; past its end anything may    *)
(* follow.                                                                 *)
Free(k) ==
  /\ Running /\ test # NoTest /\ step = "free"
  /\ FreesMore
  /\ i' = IF test.order = "random" THEN i - 1 ELSE i
  /\ IF k > Len(pointers)
     THEN status' = "out of range" /\ UNCHANGED <<pointers, live, used>>
     ELSE /\ IF pointers[k] = Null THEN FreeNull ELSE FreeBlock(pointers[k])
          /\ pointers' = Erased(k)
  /\ UNCHANGED <<ndebug, phase, initialised, tests, left, test, step, refused,
                 verdicts, results>>

(* A set that compares durations keeps the first of two equal ones.        *)
Emplace(r) ==
  results' = IF \E q \in results : q.duration = r.duration THEN results
             ELSE results \cup {r}

FinishTest(duration) ==
  LET r == [name |-> test.name, duration |-> duration]
  IN  /\ Running /\ test # NoTest /\ step = "free"
      /\ ~FreesMore
      /\ verdicts' = verdicts \cup {[name |-> test.name, duration |-> duration,
                                     passed |-> used = 0]}
      /\ Emplace(r)
      /\ test' = NoTest
      /\ UNCHANGED <<ndebug, status, phase, initialised, tests, left, step, pointers, i,
                     refused, live, used>>

LeaveRun ==
  /\ phase = "main" /\ test = NoTest /\ left = {}
  /\ phase' = "done"
  /\ UNCHANGED <<ndebug, status, initialised, tests, left, testVars, verdicts, results>>

Ended == (~Running \/ phase = "done") /\ UNCHANGED vars

Init ==
  /\ ndebug \in BOOLEAN
  /\ status = "running" /\ phase = "static"
  /\ initialised = {} /\ tests = {} /\ left = {}
  /\ test = NoTest /\ step = "free" /\ pointers = <<>> /\ i = 0
  /\ refused = FALSE /\ live = {} /\ used = 0
  /\ verdicts = {} /\ results = {}

Next ==
  \/ \E u \in Units : StaticInit(u)
  \/ EnterMain
  \/ \E f \in left : StartTest(f)
  \/ Allocate
  \/ EndAllocate
  \/ \E k \in Drawn : Free(k)
  \/ \E d \in Durations : FinishTest(d)
  \/ LeaveRun
  \/ Ended

(* One thread, which runs on.                                              *)
Spec == Init /\ [][Next]_vars /\ WF_vars(Next)

-----------------------------------------------------------------------------
(* Whatever the order in which units are initialised and tests lie in      *)
(* memory, every test gets its turn.                                       *)
EveryTestRuns ==
  phase = "done" =>
    {v.name : v \in verdicts}
      = {f.name : f \in (UNION {Registers[u] : u \in Units}) \ {PoolAllocatorMultiTest}}

(* Every test that comes to its check finds GetUsedSize() = 0, also if     *)
(* Allocate refused some of its blocks and nullptr was freed in between.   *)
EveryTestPasses == \A v \in verdicts : v.passed

(* A test holds each block once and frees each once, whatever it draws:    *)
(* what the proofs about the allocators assume of their client.  The loops *)
(* that count down do not look at the list, and yet never index past it    *)
(* nor leave a pointer in it.                                              *)
HoldsWhatIsLive ==
  /\ status # "out of range"
  /\ step = "free" =>
       /\ test.order = "random" => Len(pointers) = i + 1
       /\ live = {pointers[k] : k \in 1..Len(pointers)} \ {Null}
       /\ \A j, k \in 1..Len(pointers) :
            j # k => pointers[j] # pointers[k] \/ pointers[j] = Null

(* Run() returns, unless an allocator refused a block: then its assert, or *)
(* Free(nullptr) in the release build, may stop the program.               *)
RunEnds == <>(phase = "done" \/ (~Running /\ refused))
=============================================================================
