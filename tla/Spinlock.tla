------------------------------ MODULE Spinlock ------------------------------
(***************************************************************************)
(* Spinlock (src/AllocatorInterface.h): a test-and-test-and-set lock on    *)
(* one atomic flag, and the threads that use it to guard some data.        *)
(*                                                                         *)
(* The memory model of C++ is kept as far as the lock depends on it.  A    *)
(* load may return an older value of the flag than the last one, unless    *)
(* the thread already knows the last one; an exchange always reads the     *)
(* last one.  Writes to the data reach another thread only when an acquire *)
(* reads the flag from a release, or from an exchange that read it from    *)
(* one.  What the loop counts until it yields the processor is left out.   *)
(***************************************************************************)
CONSTANTS
  Threads,
  NoThread   \* not a thread

ASSUME SpinlockAssumption == NoThread \notin Threads

VARIABLES
  pc,         \* where each thread is
  mFlag,      \* the last value in the flag's modification order
  seesFlag,   \* the thread has read or written that last value
  seesData,   \* every write to the data happened before the thread's next step
  published   \* ... and before whoever acquires the flag now

vars == <<pc, mFlag, seesFlag, seesData, published>>

(* Only t knows about a write it has just made.                            *)
OnlyBy(t) == [u \in Threads |-> u = t]

Goto(t, from, to) == pc[t] = from /\ pc' = [pc EXCEPT ![t] = to]

CallLock(t) ==
  /\ Goto(t, "outside", "load")
  /\ UNCHANGED <<mFlag, seesFlag, seesData, published>>

(* mFlag.load(relaxed) returns value.                                      *)
Loaded(t, value) ==
  Goto(t, "load", IF value THEN "load" ELSE "exchange")

LoadLatest(t) ==
  /\ Loaded(t, mFlag)
  /\ seesFlag' = [seesFlag EXCEPT ![t] = TRUE]
  /\ UNCHANGED <<mFlag, seesData, published>>

(* An older write is read: both values may be among them.                  *)
LoadStale(t) ==
  /\ ~seesFlag[t]
  /\ \E value \in BOOLEAN : Loaded(t, value)
  /\ UNCHANGED <<mFlag, seesFlag, seesData, published>>

(* Mutant: the value that was there is ignored.                            *)
ExchangeIgnored(t) ==
  /\ Goto(t, "exchange", "inside")
  /\ mFlag' = TRUE
  /\ seesFlag' = OnlyBy(t)
  /\ seesData' = [seesData EXCEPT ![t] = seesData[t] \/ published]
  /\ UNCHANGED published

(* mFlag.exchange(true, acquire), which gets the lock if it read FALSE.    *)
Exchange(t) ==
  /\ Goto(t, "exchange", IF mFlag THEN "load" ELSE "inside")
  /\ mFlag' = TRUE
  /\ seesFlag' = OnlyBy(t)
  /\ seesData' = [seesData EXCEPT ![t] = seesData[t] \/ published]
  /\ UNCHANGED published

(* The thread writes to what the lock guards.                              *)
WriteData(t) ==
  /\ Goto(t, "inside", "written")
  /\ seesData' = OnlyBy(t)
  /\ published' = FALSE
  /\ UNCHANGED <<mFlag, seesFlag>>

(* Mutants: the store is relaxed; there is none.                           *)
UnlockRelaxed(t) ==
  /\ Goto(t, "written", "outside")
  /\ mFlag' = FALSE
  /\ seesFlag' = OnlyBy(t)
  /\ published' = FALSE
  /\ UNCHANGED seesData

UnlockWithoutStore(t) ==
  /\ Goto(t, "written", "outside")
  /\ UNCHANGED <<mFlag, seesFlag, seesData, published>>

(* mFlag.store(false, release)                                             *)
Unlock(t) ==
  /\ Goto(t, "written", "outside")
  /\ mFlag' = FALSE
  /\ seesFlag' = OnlyBy(t)
  /\ published' = seesData[t]
  /\ UNCHANGED seesData

Init ==
  /\ pc = [t \in Threads |-> "outside"]
  /\ mFlag = FALSE
  /\ seesFlag = [t \in Threads |-> TRUE]
  /\ seesData = [t \in Threads |-> TRUE]
  /\ published = TRUE

Next ==
  \E t \in Threads :
    \/ CallLock(t) \/ LoadLatest(t) \/ LoadStale(t) \/ Exchange(t)
    \/ WriteData(t) \/ Unlock(t)

Spec == Init /\ [][Next]_vars

(* The scheduler runs every thread, and a load does not return old values  *)
(* forever: C++ asks that a store be visible in a finite time.  No thread  *)
(* has to call lock().                                                     *)
Fairness ==
  \A t \in Threads :
    WF_vars(LoadLatest(t)) /\ WF_vars(Exchange(t)) /\ WF_vars(WriteData(t)) /\ WF_vars(Unlock(t))

FairSpec == Spec /\ Fairness

-----------------------------------------------------------------------------
TypeOK ==
  /\ pc \in [Threads -> {"outside", "load", "exchange", "inside", "written"}]
  /\ mFlag \in BOOLEAN
  /\ seesFlag \in [Threads -> BOOLEAN]
  /\ seesData \in [Threads -> BOOLEAN]
  /\ published \in BOOLEAN

Holds(t) == pc[t] \in {"inside", "written"}

(* Two threads are never between lock() and unlock() together.             *)
MutualExclusion == \A t, u \in Threads : Holds(t) /\ Holds(u) => t = u

(* Whoever holds the lock sees what all earlier holders wrote: the data    *)
(* needs no atomics.  This is what acquire and release are for.            *)
HolderSeesData == \A t \in Threads : Holds(t) => seesData[t]

(* While threads wait, someone gets in: TTAS is free of deadlock (and not  *)
(* of starvation: it promises nothing to a given thread).                  *)
SomeoneEnters ==
  (\E t \in Threads : pc[t] \in {"load", "exchange"}) ~> (\E t \in Threads : Holds(t))

Abstract == INSTANCE Mutex WITH
  owner <- IF \E t \in Threads : Holds(t) THEN CHOOSE t \in Threads : Holds(t) ELSE NoThread

(* The spinlock is a lock.                                                 *)
ImplementsMutex == Abstract!MutexSpec
=============================================================================
