--------------------------- MODULE SpinlockProofs ---------------------------
(***************************************************************************)
(* The spinlock excludes, publishes what it guards, and implements Mutex,  *)
(* for any set of threads.                                                 *)
(***************************************************************************)
EXTENDS Spinlock, TLAPS

(* While nobody holds the lock the flag's last write carries all writes to *)
(* the data: this is what a failed exchange in between must not destroy.   *)
IInv ==
  /\ TypeOK
  /\ MutualExclusion
  /\ HolderSeesData
  /\ \A t \in Threads : Holds(t) => mFlag
  /\ published \/ \E t \in Threads : Holds(t)

LEMMA InitIInv == Init => IInv
<1> SUFFICES ASSUME Init PROVE IInv
  OBVIOUS
<1>1. TypeOK
  BY Zenon DEF Init, TypeOK
<1>2. \A t \in Threads : ~Holds(t)
  BY DEF Init, Holds
<1> QED
  BY <1>1, <1>2 DEF Init, IInv, MutualExclusion, HolderSeesData

(* A step of t leaves the other threads where they are.                    *)
LEMMA OthersStay ==
  ASSUME TypeOK, NEW t \in Threads, NEW from,
         NEW to \in {"outside", "load", "exchange", "inside", "written"},
         Goto(t, from, to)
  PROVE  /\ pc' \in [Threads -> {"outside", "load", "exchange", "inside", "written"}]
         /\ pc'[t] = to
         /\ \A u \in Threads : u # t => pc'[u] = pc[u]
         /\ \A u \in Threads : u # t => (Holds(u)' <=> Holds(u))
         /\ Holds(t)' <=> to \in {"inside", "written"}
BY DEF Goto, TypeOK, Holds

LEMMA NextIInv == IInv /\ [Next]_vars => IInv'
<1> SUFFICES ASSUME IInv, [Next]_vars PROVE IInv'
  OBVIOUS
<1> USE DEF IInv
<1>1. ASSUME NEW t \in Threads, CallLock(t) PROVE IInv'
  <2>1. Goto(t, "outside", "load") /\ UNCHANGED <<mFlag, seesFlag, seesData, published>>
    BY <1>1 DEF CallLock
  <2>2. ~Holds(t)
    BY <2>1 DEF Goto, Holds
  <2> QED
    BY <2>1, <2>2, OthersStay DEF TypeOK, MutualExclusion, HolderSeesData
<1>2. ASSUME NEW t \in Threads, LoadLatest(t) \/ LoadStale(t) PROVE IInv'
  <2>1. PICK to \in {"load", "exchange"} : Goto(t, "load", to)
    BY <1>2 DEF LoadLatest, LoadStale, Loaded
  <2>2. UNCHANGED <<mFlag, seesData, published>>
    BY <1>2 DEF LoadLatest, LoadStale
  <2>3. seesFlag' \in [Threads -> BOOLEAN]
    BY <1>2, Zenon DEF LoadLatest, LoadStale, TypeOK
  <2>4. ~Holds(t)
    BY <2>1 DEF Goto, Holds
  <2> QED
    BY <2>1, <2>2, <2>3, <2>4, OthersStay DEF TypeOK, MutualExclusion, HolderSeesData
<1>3. ASSUME NEW t \in Threads, Exchange(t) PROVE IInv'
  <2>1. mFlag' = TRUE /\ published' = published
    BY <1>3 DEF Exchange
  <2>2. /\ seesFlag' \in [Threads -> BOOLEAN]
        /\ seesData' \in [Threads -> BOOLEAN]
    BY <1>3, Zenon DEF Exchange, OnlyBy, TypeOK
  <2>3. /\ \A u \in Threads : seesData[u] => seesData'[u]
        /\ published => seesData'[t]
    BY <1>3 DEF Exchange, TypeOK
  <2>4. ~Holds(t)
    BY <1>3 DEF Exchange, Goto, Holds
  <2>5. CASE mFlag
    <3>1. Goto(t, "exchange", "load")
      BY <1>3, <2>5 DEF Exchange
    <3> QED
      BY <2>1, <2>2, <2>3, <2>4, <3>1, OthersStay DEF TypeOK, MutualExclusion, HolderSeesData
  <2>6. CASE ~mFlag
    <3>1. Goto(t, "exchange", "inside")
      BY <1>3, <2>6 DEF Exchange
    <3>2. published /\ \A u \in Threads : ~Holds(u)
      BY <2>6
    <3>3. Holds(t)' /\ \A u \in Threads : u # t => ~Holds(u)'
      BY <3>1, <3>2, OthersStay
    <3> QED
      BY <2>1, <2>2, <2>3, <3>1, <3>2, <3>3, OthersStay DEF TypeOK, MutualExclusion, HolderSeesData
  <2> QED
    BY <2>5, <2>6
<1>4. ASSUME NEW t \in Threads, WriteData(t) PROVE IInv'
  <2>1. Goto(t, "inside", "written") /\ UNCHANGED <<mFlag, seesFlag>> /\ published' = FALSE
    BY <1>4 DEF WriteData
  <2>2. seesData' \in [Threads -> BOOLEAN] /\ seesData'[t]
    BY <1>4, Zenon DEF WriteData, OnlyBy
  <2>3. Holds(t) /\ \A u \in Threads : u # t => ~Holds(u)
    BY <2>1 DEF Goto, Holds, MutualExclusion
  <2> QED
    BY <2>1, <2>2, <2>3, OthersStay DEF TypeOK, MutualExclusion, HolderSeesData
<1>5. ASSUME NEW t \in Threads, Unlock(t) PROVE IInv'
  <2>1. Goto(t, "written", "outside") /\ mFlag' = FALSE /\ seesData' = seesData
        /\ published' = seesData[t]
    BY <1>5 DEF Unlock
  <2>2. seesFlag' \in [Threads -> BOOLEAN]
    BY <1>5, Zenon DEF Unlock, OnlyBy
  <2>3. Holds(t) /\ \A u \in Threads : u # t => ~Holds(u)
    BY <2>1 DEF Goto, Holds, MutualExclusion
  <2>4. seesData[t]
    BY <2>3 DEF HolderSeesData
  <2> QED
    BY <2>1, <2>2, <2>3, <2>4, OthersStay DEF TypeOK, MutualExclusion, HolderSeesData
<1>6. CASE UNCHANGED vars
  BY <1>6 DEF vars, TypeOK, MutualExclusion, HolderSeesData, Holds
<1> QED
  BY <1>1, <1>2, <1>3, <1>4, <1>5, <1>6 DEF Next

LEMMA IInvHolds == Spec => []IInv
BY InitIInv, NextIInv, PTL DEF Spec

(* No two threads are between lock() and unlock() together.                *)
THEOREM LockExcludes == Spec => []MutualExclusion
<1>1. IInv => MutualExclusion
  BY DEF IInv
<1> QED
  BY <1>1, IInvHolds, PTL

(* Whoever holds the lock sees all that earlier holders wrote, however     *)
(* many relaxed loads and failed exchanges there were in between.          *)
THEOREM LockPublishes == Spec => []HolderSeesData
<1>1. IInv => HolderSeesData
  BY DEF IInv
<1> QED
  BY <1>1, IInvHolds, PTL

-----------------------------------------------------------------------------
(* Refinement.                                                             *)

Owner == IF \E t \in Threads : Holds(t) THEN CHOOSE t \in Threads : Holds(t) ELSE NoThread

LEMMA OwnerIsHolder ==
  ASSUME MutualExclusion, NEW t \in Threads, Holds(t)
  PROVE  Owner = t
<1>1. Holds(CHOOSE u \in Threads : Holds(u)) /\ (CHOOSE u \in Threads : Holds(u)) \in Threads
  OBVIOUS
<1> QED
  BY <1>1 DEF Owner, MutualExclusion

LEMMA NoOwner ==
  ASSUME \A t \in Threads : ~Holds(t)
  PROVE  Owner = NoThread
BY DEF Owner

(* Spinlock implements Mutex: its holder is the owner, an exchange that    *)
(* reads FALSE acquires, unlock releases, and all else stutters.           *)
THEOREM SpinlockIsMutex == Spec => ImplementsMutex
<1>1. Init => Owner = NoThread
  BY NoOwner DEF Init, Holds
<1>2. ASSUME IInv, IInv', [Next]_vars
      PROVE  [\E t \in Threads : \/ Owner = NoThread /\ Owner' = t
                                 \/ Owner = t /\ Owner' = NoThread]_Owner
  <2> DEFINE Step == \E t \in Threads : \/ Owner = NoThread /\ Owner' = t
                                        \/ Owner = t /\ Owner' = NoThread
  <2>1. ASSUME \A t \in Threads : Holds(t)' <=> Holds(t) PROVE Owner' = Owner
    <3>1. CASE \E t \in Threads : Holds(t)
      <4>1. PICK t \in Threads : Holds(t)
        BY <3>1
      <4>2. Owner = t
        BY <1>2, <4>1, OwnerIsHolder DEF IInv
      <4>3. Owner' = t
        <5>1. \A u \in Threads : Holds(u)' => u = t
          BY <1>2, <2>1, <4>1 DEF IInv, MutualExclusion
        <5>2. Holds(t)'
          BY <2>1, <4>1
        <5> QED
          BY <5>1, <5>2 DEF Owner
      <4> QED
        BY <4>2, <4>3
    <3>2. CASE \A t \in Threads : ~Holds(t)
      <4>1. \A t \in Threads : ~Holds(t)'
        BY <2>1, <3>2
      <4> QED
        BY <3>2, <4>1 DEF Owner
    <3> QED
      BY <3>1, <3>2
  <2>2. ASSUME NEW t \in Threads, CallLock(t) \/ LoadLatest(t) \/ LoadStale(t) \/ WriteData(t)
        PROVE  \A u \in Threads : Holds(u)' <=> Holds(u)
    BY <1>2, <2>2
    DEF IInv, TypeOK, CallLock, LoadLatest, LoadStale, WriteData, Loaded, Goto, Holds
  <2>3. ASSUME NEW t \in Threads, Exchange(t)
        PROVE  Step \/ \A u \in Threads : Holds(u)' <=> Holds(u)
    <3>1. CASE mFlag
      BY <1>2, <2>3, <3>1 DEF IInv, TypeOK, Exchange, Goto, Holds
    <3>2. CASE ~mFlag
      <4>1. Owner = NoThread
        BY <1>2, <3>2, NoOwner DEF IInv
      <4>2. Holds(t)' /\ \A u \in Threads : Holds(u)' => u = t
        BY <1>2, <2>3, <3>2 DEF IInv, TypeOK, Exchange, Goto, Holds
      <4>3. Owner' = t
        BY <4>2 DEF Owner
      <4> QED
        BY <4>1, <4>3
    <3> QED
      BY <3>1, <3>2
  <2>4. ASSUME NEW t \in Threads, Unlock(t) PROVE Step
    <3>1. Holds(t)
      BY <2>4 DEF Unlock, Goto, Holds
    <3>2. Owner = t
      BY <1>2, <3>1, OwnerIsHolder DEF IInv
    <3>3. \A u \in Threads : ~Holds(u)'
      BY <1>2, <2>4, <3>1 DEF IInv, TypeOK, MutualExclusion, Unlock, Goto, Holds
    <3>4. Owner' = NoThread
      BY <3>3 DEF Owner
    <3> QED
      BY <3>2, <3>4
  <2>5. CASE UNCHANGED vars
    <3>1. \A u \in Threads : Holds(u)' <=> Holds(u)
      BY <2>5 DEF vars, Holds
    <3> QED
      BY <2>1, <3>1
  <2> QED
    BY <1>2, <2>1, <2>2, <2>3, <2>4, <2>5 DEF Next
<1>3. Init => Abstract!MutexInit
  BY <1>1 DEF Abstract!MutexInit, Owner
<1>4. IInv /\ IInv' /\ [Next]_vars => [Abstract!MutexNext]_(Owner)
  BY <1>2 DEF Abstract!MutexNext, Abstract!Acquire, Abstract!Release, Owner
<1> QED
  BY <1>3, <1>4, IInvHolds, PTL DEF Spec, ImplementsMutex, Abstract!MutexSpec, Owner
=============================================================================
