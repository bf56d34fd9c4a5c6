--------------------------- MODULE LifetimeProofs ---------------------------
(***************************************************************************)
(* No allocator frees or uses memory it has lost, for any number of        *)
(* objects and buffers.                                                    *)
(***************************************************************************)
EXTENDS AllocatorLifetime, TLAPS

LifetimeTypeOK ==
  /\ class \in [Objects -> Classes \cup {"none"}]
  /\ start \in [Objects -> Buffers \cup {Null}]
  /\ chunks \in [Objects -> Buffers \cup {Null}]
  /\ heap \subseteq Buffers
  /\ ready \subseteq Objects
  /\ shared \in BOOLEAN /\ failed \in BOOLEAN

(* Only live objects own memory or are ready, only pools have chunks.      *)
ByClass ==
  \A o \in Objects :
    /\ ~IsPool(o) => chunks[o] = Null
    /\ o \notin Alive => start[o] = Null /\ o \notin ready

(* What an allocator owns is its own, and not yet given back.              *)
SoleOwners ==
  ~shared => \A o \in Objects :
    /\ Owned(o) \subseteq heap
    /\ \A p \in Objects : o # p => Owned(o) \cap Owned(p) = {}

(* What is ready has its memory.                                           *)
ReadyHasMemory ==
  ~failed => \A o \in ready : start[o] # Null /\ (IsPool(o) => chunks[o] # Null)

Invariant ==
  /\ LifetimeTypeOK /\ ByClass /\ SoleOwners /\ ReadyHasMemory
  /\ FreesOnce /\ NullOnlyIfMallocFailed

USE LifetimeAssumption

LEMMA MallocReturns ==
  ASSUME NEW inUse, NEW b \in Malloc(inUse)
  PROVE  b \in (Buffers \ inUse) \cup {Null}
BY DEF Malloc

LEMMA InitInvariant == Init => Invariant
BY DEF Init, Invariant, LifetimeTypeOK, ByClass, SoleOwners, ReadyHasMemory, FreesOnce,
       NullOnlyIfMallocFailed, Owned, Alive, IsPool, Classes

LEMMA ConstructKeeps ==
  ASSUME Invariant, NEW o \in Objects, NEW c \in Classes, Construct(o, c)
  PROVE  Invariant'
<1>1. /\ class' = [class EXCEPT ![o] = c] /\ o \notin Alive
      /\ UNCHANGED <<status, start, chunks, ready, heap, shared, failed>>
  BY DEF Construct
<1>2. /\ class'[o] = c /\ c # "none" /\ o \notin ready
      /\ \A q \in Objects : q # o => class'[q] = class[q]
  BY <1>1 DEF Invariant, LifetimeTypeOK, ByClass, Classes
<1>3. LifetimeTypeOK'
  BY <1>1 DEF Invariant, LifetimeTypeOK
<1>4. chunks[o] = Null
  BY <1>1 DEF Invariant, ByClass, IsPool, Alive
<1>5. ByClass'
  BY <1>1, <1>2, <1>4 DEF Invariant, ByClass, IsPool, Alive
<1>6. SoleOwners'
  BY <1>1 DEF Invariant, SoleOwners, Owned
<1>7. ReadyHasMemory'
  BY <1>1, <1>2 DEF Invariant, LifetimeTypeOK, ReadyHasMemory, IsPool
<1>8. FreesOnce' /\ NullOnlyIfMallocFailed'
  BY <1>1 DEF Invariant, FreesOnce, NullOnlyIfMallocFailed
<1> QED BY <1>3, <1>5, <1>6, <1>7, <1>8 DEF Invariant

(* Giving up what it owns, an allocator takes nothing from the others.     *)
LEMMA GivenUpKeepsSoleOwners ==
  ASSUME SoleOwners, NEW o \in Objects,
         heap' = heap \ Owned(o), shared' = shared,
         start'[o] = Null, chunks'[o] = Null,
         \A q \in Objects : q # o => start'[q] = start[q] /\ chunks'[q] = chunks[q]
  PROVE  SoleOwners'
<1>1. Owned(o)' = {} /\ \A q \in Objects : q # o => Owned(q)' = Owned(q)
  BY DEF Owned
<1>2. ASSUME ~shared, NEW q \in Objects, q # o
      PROVE  Owned(q) \subseteq heap \ Owned(o)
  BY <1>2 DEF SoleOwners
<1>3. ASSUME ~shared', NEW q \in Objects
      PROVE  /\ Owned(q)' \subseteq heap'
             /\ \A r \in Objects : q # r => Owned(q)' \cap Owned(r)' = {}
  <2>1. CASE q = o
    BY <1>1, <2>1
  <2>2. CASE q # o
    <3>1. Owned(q)' \subseteq heap'
      BY <1>1, <1>2, <1>3, <2>2
    <3>2. ASSUME NEW r \in Objects, q # r PROVE Owned(q)' \cap Owned(r)' = {}
      BY <1>1, <1>3, <2>2, <3>2 DEF SoleOwners
    <3> QED BY <3>1, <3>2
  <2> QED BY <2>1, <2>2
<1> QED BY <1>3 DEF SoleOwners

LEMMA CopyKeeps ==
  ASSUME Invariant, NEW o \in Objects, NEW p \in Objects, Copy(o, p)
  PROVE  Invariant'
<1>1. /\ class' = [class EXCEPT ![o] = class[p]] /\ class'[o] = class[p]
      /\ start' = [start EXCEPT ![o] = start[p]] /\ start'[o] = start[p]
      /\ chunks' = [chunks EXCEPT ![o] = chunks[p]] /\ chunks'[o] = chunks[p]
      /\ ready' = IF p \in ready THEN ready \cup {o} ELSE ready
      /\ shared' = (shared \/ Owned(p) # {})
      /\ UNCHANGED <<status, heap, failed>> /\ p \in Alive /\ IsPool(p) /\ o # p
      /\ o \notin ready
      /\ \A q \in Objects : q # o =>
           class'[q] = class[q] /\ start'[q] = start[q] /\ chunks'[q] = chunks[q]
  BY DEF Copy, Invariant, LifetimeTypeOK, ByClass
<1>2. LifetimeTypeOK'
  BY <1>1 DEF Invariant, LifetimeTypeOK
<1>3. ByClass'
  BY <1>1 DEF Invariant, LifetimeTypeOK, ByClass, IsPool, Alive
<1>4. SoleOwners'
  <2>1. CASE Owned(p) # {}
    BY <1>1, <1>2, <2>1 DEF SoleOwners
  <2>2. CASE Owned(p) = {}
    <3>1. Owned(o)' = {} /\ \A q \in Objects : q # o => Owned(q)' = Owned(q)
      BY <1>1, <2>2 DEF Owned
    <3> QED BY <1>1, <2>2, <3>1 DEF Invariant, SoleOwners
  <2> QED BY <2>1, <2>2
<1>5. ReadyHasMemory'
  BY <1>1 DEF Invariant, LifetimeTypeOK, ReadyHasMemory, IsPool
<1>6. FreesOnce' /\ NullOnlyIfMallocFailed'
  BY <1>1 DEF Invariant, FreesOnce, NullOnlyIfMallocFailed
<1> QED BY <1>2, <1>3, <1>4, <1>5, <1>6 DEF Invariant

LEMMA AssignKeeps ==
  ASSUME Invariant, NEW o \in Objects, NEW p \in Objects, Assign(o, p)
  PROVE  Invariant'
<1>1. /\ start' = [start EXCEPT ![o] = start[p]] /\ start'[o] = start[p]
      /\ ready' = IF p \in ready THEN ready \cup {o} ELSE ready \ {o}
      /\ shared' = (shared \/ Owned(p) # {})
      /\ UNCHANGED <<status, class, chunks, heap, failed>>
      /\ o # p /\ o \in Alive /\ p \in Alive /\ ~IsPool(o) /\ ~IsPool(p)
      /\ \A q \in Objects : q # o => start'[q] = start[q]
  BY DEF Assign, Invariant, LifetimeTypeOK, IsPool
<1>2. LifetimeTypeOK'
  BY <1>1 DEF Invariant, LifetimeTypeOK
<1>3. ByClass'
  BY <1>1 DEF Invariant, LifetimeTypeOK, ByClass, IsPool, Alive
<1>4. SoleOwners'
  <2>1. CASE Owned(p) # {}
    BY <1>1, <1>2, <2>1 DEF SoleOwners
  <2>2. CASE Owned(p) = {}
    <3>1. start[p] = Null /\ chunks[o] = Null
      BY <1>1, <2>2 DEF Owned, Invariant, ByClass
    <3>2. Owned(o)' = {} /\ \A q \in Objects : q # o => Owned(q)' = Owned(q)
      BY <1>1, <3>1 DEF Owned
    <3> QED BY <1>1, <2>2, <3>2 DEF Invariant, SoleOwners
  <2> QED BY <2>1, <2>2
<1>5. ReadyHasMemory'
  BY <1>1 DEF Invariant, LifetimeTypeOK, ReadyHasMemory, IsPool
<1>6. FreesOnce' /\ NullOnlyIfMallocFailed'
  BY <1>1 DEF Invariant, FreesOnce, NullOnlyIfMallocFailed
<1> QED BY <1>2, <1>3, <1>4, <1>5, <1>6 DEF Invariant

LEMMA PoolInitKeeps ==
  ASSUME Invariant, NEW o \in Objects, PoolInit(o)
  PROVE  Invariant'
<1>a. PICK b \in Malloc(heap) : \E c \in Malloc(heap \cup {b}) :
        /\ start' = [start EXCEPT ![o] = b] /\ chunks' = [chunks EXCEPT ![o] = c]
        /\ heap' = heap \cup ({b, c} \ {Null})
        /\ failed' = (failed \/ Null \in {b, c})
        /\ status' = IF c = Null THEN "null pointer" ELSE status
        /\ ready' = ready \cup {o}
        /\ UNCHANGED <<class, shared>> /\ o \in Alive /\ IsPool(o)
  BY DEF PoolInit
<1>1. PICK c \in Malloc(heap \cup {b}) :
        /\ start' = [start EXCEPT ![o] = b] /\ chunks' = [chunks EXCEPT ![o] = c]
        /\ heap' = heap \cup ({b, c} \ {Null})
        /\ failed' = (failed \/ Null \in {b, c})
        /\ status' = IF c = Null THEN "null pointer" ELSE status
        /\ ready' = ready \cup {o}
        /\ UNCHANGED <<class, shared>> /\ o \in Alive /\ IsPool(o)
  BY <1>a
<1>2. /\ b \in (Buffers \ heap) \cup {Null} /\ c \in (Buffers \ heap) \cup {Null}
      /\ start'[o] = b /\ chunks'[o] = c
      /\ \A q \in Objects : q # o => start'[q] = start[q] /\ chunks'[q] = chunks[q]
  <2>1. b \in (Buffers \ heap) \cup {Null}
    BY MallocReturns
  <2>2. c \in (Buffers \ (heap \cup {b})) \cup {Null}
    BY MallocReturns
  <2> QED BY <1>1, <2>1, <2>2 DEF Invariant, LifetimeTypeOK
<1>3. LifetimeTypeOK'
  BY <1>1, <1>2 DEF Invariant, LifetimeTypeOK
<1>4. ByClass'
  BY <1>1, <1>2 DEF Invariant, LifetimeTypeOK, ByClass, IsPool, Alive
<1>5. SoleOwners'
  <2>1. /\ Owned(o)' = {b, c} \ {Null}
        /\ \A q \in Objects : q # o => Owned(q)' = Owned(q)
    BY <1>2 DEF Owned
  <2>2. Owned(o)' \cap heap = {} /\ Owned(o)' \subseteq heap'
    BY <1>1, <1>2, <2>1
  <2>3. heap \subseteq heap' /\ shared' = shared
    BY <1>1
  <2>4. ASSUME ~shared, NEW q \in Objects, q # o
        PROVE  Owned(q)' \subseteq heap /\ Owned(q)' = Owned(q)
    BY <2>1, <2>4 DEF Invariant, SoleOwners
  <2>5. ASSUME ~shared', NEW q \in Objects
        PROVE  /\ Owned(q)' \subseteq heap'
               /\ \A r \in Objects : q # r => Owned(q)' \cap Owned(r)' = {}
    <3>1. CASE q = o
      BY <2>2, <2>3, <2>4, <2>5, <3>1
    <3>2. CASE q # o
      BY <2>2, <2>3, <2>4, <2>5, <3>2 DEF Invariant, SoleOwners
    <3> QED BY <3>1, <3>2
  <2> QED BY <2>5 DEF SoleOwners
<1>6. ReadyHasMemory'
  BY <1>1, <1>2 DEF Invariant, LifetimeTypeOK, ReadyHasMemory, IsPool
<1>7. FreesOnce' /\ NullOnlyIfMallocFailed'
  BY <1>1 DEF Invariant, FreesOnce, NullOnlyIfMallocFailed
<1> QED BY <1>3, <1>4, <1>5, <1>6, <1>7 DEF Invariant

LEMMA CallInitKeeps ==
  ASSUME Invariant, NEW o \in Objects, CallInit(o)
  PROVE  Invariant'
<1>1. PICK b \in Malloc(heap \ Owned(o)) :
        /\ status' = IF Owned(o) \subseteq heap THEN status ELSE "double free"
        /\ start' = [start EXCEPT ![o] = b]
        /\ heap' = (heap \ Owned(o)) \cup ({b} \ {Null})
        /\ failed' = (failed \/ b = Null)
        /\ ready' = ready \cup {o}
        /\ UNCHANGED <<class, chunks, shared>> /\ o \in Alive /\ ~IsPool(o)
  BY DEF CallInit, FreeAll
<1>2. /\ b \in (Buffers \ (heap \ Owned(o))) \cup {Null} /\ start'[o] = b
      /\ \A q \in Objects : q # o => start'[q] = start[q]
      /\ chunks[o] = Null
  BY <1>1, MallocReturns DEF Invariant, LifetimeTypeOK, ByClass
<1>3. LifetimeTypeOK'
  BY <1>1, <1>2 DEF Invariant, LifetimeTypeOK
<1>4. ByClass'
  BY <1>1, <1>2 DEF Invariant, LifetimeTypeOK, ByClass, IsPool, Alive
<1>5. SoleOwners'
  <2>1. Owned(o)' = {b} \ {Null} /\ \A q \in Objects : q # o => Owned(q)' = Owned(q)
    BY <1>1, <1>2 DEF Owned
  <2>2. Owned(o)' \cap (heap \ Owned(o)) = {}
    BY <1>2, <2>1
  <2>3. ASSUME ~shared, NEW q \in Objects, q # o
        PROVE  Owned(q) \subseteq heap \ Owned(o)
    BY <2>3 DEF Invariant, SoleOwners
  <2>4. Owned(o)' \subseteq heap' /\ heap \ Owned(o) \subseteq heap' /\ shared' = shared
    BY <1>1, <2>1
  <2>5. ASSUME ~shared', NEW q \in Objects
        PROVE  /\ Owned(q)' \subseteq heap'
               /\ \A r \in Objects : q # r => Owned(q)' \cap Owned(r)' = {}
    <3>1. CASE q = o
      BY <2>1, <2>2, <2>3, <2>4, <2>5, <3>1
    <3>2. CASE q # o
      BY <2>1, <2>2, <2>3, <2>4, <2>5, <3>2 DEF Invariant, SoleOwners
    <3> QED BY <3>1, <3>2
  <2> QED BY <2>5 DEF SoleOwners
<1>6. ReadyHasMemory'
  BY <1>1, <1>2 DEF Invariant, LifetimeTypeOK, ReadyHasMemory, IsPool
<1>7. FreesOnce' /\ NullOnlyIfMallocFailed'
  BY <1>1 DEF Invariant, SoleOwners, FreesOnce, NullOnlyIfMallocFailed
<1> QED BY <1>3, <1>4, <1>5, <1>6, <1>7 DEF Invariant

LEMMA LinearResetKeeps ==
  ASSUME Invariant, NEW o \in Objects, LinearReset(o)
  PROVE  Invariant'
<1>1. /\ status' = IF Owned(o) \subseteq heap THEN status ELSE "double free"
      /\ start' = [start EXCEPT ![o] = Null]
      /\ heap' = heap \ Owned(o)
      /\ ready' = ready \ {o}
      /\ UNCHANGED <<class, chunks, shared, failed>> /\ o \in Alive /\ ~IsPool(o)
  BY DEF LinearReset, FreeAll, IsPool
<1>2. /\ start'[o] = Null /\ chunks'[o] = Null
      /\ \A q \in Objects : q # o => start'[q] = start[q] /\ chunks'[q] = chunks[q]
  BY <1>1 DEF Invariant, LifetimeTypeOK, ByClass
<1>3. LifetimeTypeOK'
  BY <1>1 DEF Invariant, LifetimeTypeOK
<1>4. ByClass'
  BY <1>1, <1>2 DEF Invariant, ByClass, IsPool, Alive
<1>5. SoleOwners'
  BY <1>1, <1>2, GivenUpKeepsSoleOwners DEF Invariant
<1>6. ReadyHasMemory'
  BY <1>1, <1>2 DEF Invariant, LifetimeTypeOK, ReadyHasMemory, IsPool
<1>7. FreesOnce' /\ NullOnlyIfMallocFailed'
  BY <1>1 DEF Invariant, SoleOwners, FreesOnce, NullOnlyIfMallocFailed
<1> QED BY <1>3, <1>4, <1>5, <1>6, <1>7 DEF Invariant

LEMMA DestroyKeeps ==
  ASSUME Invariant, NEW o \in Objects, Destroy(o)
  PROVE  Invariant'
<1>1. /\ status' = IF Owned(o) \subseteq heap THEN status ELSE "double free"
      /\ class' = [class EXCEPT ![o] = "none"]
      /\ start' = [start EXCEPT ![o] = Null]
      /\ chunks' = [chunks EXCEPT ![o] = Null]
      /\ heap' = heap \ Owned(o)
      /\ ready' = ready \ {o}
      /\ UNCHANGED <<shared, failed>>
  BY DEF Destroy, FreeAll
<1>2. /\ class'[o] = "none" /\ start'[o] = Null /\ chunks'[o] = Null
      /\ \A q \in Objects : q # o =>
           class'[q] = class[q] /\ start'[q] = start[q] /\ chunks'[q] = chunks[q]
  BY <1>1 DEF Invariant, LifetimeTypeOK
<1>3. LifetimeTypeOK'
  BY <1>1 DEF Invariant, LifetimeTypeOK
<1>4. ByClass'
  BY <1>1, <1>2 DEF Invariant, ByClass, IsPool, Alive
<1>5. SoleOwners'
  BY <1>1, <1>2, GivenUpKeepsSoleOwners DEF Invariant
<1>6. ReadyHasMemory'
  BY <1>1, <1>2 DEF Invariant, LifetimeTypeOK, ReadyHasMemory, IsPool
<1>7. FreesOnce' /\ NullOnlyIfMallocFailed'
  BY <1>1 DEF Invariant, SoleOwners, FreesOnce, NullOnlyIfMallocFailed
<1> QED BY <1>3, <1>4, <1>5, <1>6, <1>7 DEF Invariant

LEMMA UseKeeps ==
  ASSUME Invariant, NEW o \in Objects, Use(o)
  PROVE  Invariant'
<1>1. /\ status' \in {"null pointer", "use after free"}
      /\ UNCHANGED <<class, start, chunks, ready, heap, shared, failed>>
      /\ o \in ready
      /\ IsPool(o) =>
           /\ ~({start[o], chunks[o]} \subseteq heap)
           /\ status' = "null pointer" <=> Null \in {start[o], chunks[o]}
      /\ ~IsPool(o) =>
           start[o] \notin heap /\ (status' = "null pointer" <=> Null = start[o])
  BY DEF Use
<1>2. status' = "null pointer" => failed
  BY <1>1 DEF Invariant, ReadyHasMemory
<1>3. status' # "null pointer" => shared
  BY <1>1 DEF Invariant, SoleOwners, Owned
<1>4. FreesOnce' /\ NullOnlyIfMallocFailed'
  BY <1>1, <1>2, <1>3 DEF FreesOnce, NullOnlyIfMallocFailed
<1>5. LifetimeTypeOK' /\ ByClass' /\ SoleOwners' /\ ReadyHasMemory'
  BY <1>1 DEF Invariant, LifetimeTypeOK, ByClass, SoleOwners, ReadyHasMemory, Owned, Alive,
              IsPool
<1> QED BY <1>4, <1>5 DEF Invariant

LEMMA NextInvariant == Invariant /\ [Next]_vars => Invariant'
<1> SUFFICES ASSUME Invariant, [Next]_vars PROVE Invariant'
  OBVIOUS
<1>1. CASE UNCHANGED vars
  BY <1>1 DEF vars, Invariant, LifetimeTypeOK, ByClass, SoleOwners, ReadyHasMemory,
              FreesOnce, NullOnlyIfMallocFailed, Owned, Alive, IsPool
<1> QED BY <1>1, ConstructKeeps, CopyKeeps, AssignKeeps, PoolInitKeeps, CallInitKeeps,
           LinearResetKeeps, DestroyKeeps, UseKeeps
        DEF Next, Stopped

(* Whatever is constructed, initialised, reset and destroyed in whatever   *)
(* order: nothing is freed twice or used after free, unless an allocator   *)
(* with memory was copied.                                                 *)
THEOREM MemoryFreedOnce == Spec => []FreesOnce
<1>1. Invariant => FreesOnce
  BY DEF Invariant
<1> QED BY <1>1, InitInvariant, NextInvariant, PTL DEF Spec

(* Unless malloc fails, nothing that is initialised meets nullptr.         *)
THEOREM InitGivesMemory == Spec => []NullOnlyIfMallocFailed
<1>1. Invariant => NullOnlyIfMallocFailed
  BY DEF Invariant
<1> QED BY <1>1, InitInvariant, NextInvariant, PTL DEF Spec

(* If the others keep what they own, a block is lost by o or by nobody.    *)
LEMMA LostByOne ==
  ASSUME NEW o \in Objects, \A q \in Objects : q # o => Owned(q)' = Owned(q),
         NEW b \in Reachable, b \notin Reachable'
  PROVE  b \in Owned(o) /\ b \notin Owned(o)'
BY DEF Reachable

LEMMA LostWhere ==
  ASSUME Invariant, Next, NEW b \in heap \cap heap', b \in Reachable, b \notin Reachable'
  PROVE  \E o \in Objects : b \in Owned(o) /\ (PoolInit(o) \/ \E p \in Objects : Assign(o, p))
<1>1. ASSUME UNCHANGED <<start, chunks>>
      PROVE  FALSE
  BY <1>1 DEF Reachable, Owned
<1>2. ASSUME NEW o \in Objects, NEW c \in Classes, Construct(o, c)
      PROVE  FALSE
  BY <1>1, <1>2 DEF Construct
<1>3. ASSUME NEW o \in Objects, NEW p \in Objects, Copy(o, p)
      PROVE  FALSE
  <2>1. \A q \in Objects : q # o => Owned(q)' = Owned(q)
    BY <1>3 DEF Copy, Invariant, LifetimeTypeOK, Owned
  <2>2. start[o] = Null /\ chunks[o] = Null
    BY <1>3 DEF Copy, Invariant, ByClass, IsPool, Alive
  <2> QED
    BY <2>1, <2>2, LostByOne DEF Owned
<1>4. ASSUME NEW o \in Objects, NEW p \in Objects, Assign(o, p)
      PROVE  b \in Owned(o)
  <2>1. \A q \in Objects : q # o => Owned(q)' = Owned(q)
    BY <1>4 DEF Assign, Invariant, LifetimeTypeOK, Owned
  <2> QED
    BY <2>1, LostByOne
<1>5. ASSUME NEW o \in Objects, PoolInit(o)
      PROVE  b \in Owned(o)
  <2>1. \A q \in Objects : q # o => Owned(q)' = Owned(q)
    BY <1>5 DEF PoolInit, Invariant, LifetimeTypeOK, Owned
  <2> QED
    BY <2>1, LostByOne
<1>6. ASSUME NEW o \in Objects, CallInit(o)
      PROVE  FALSE
  <2>1. PICK c \in Malloc(heap \ Owned(o)) :
          /\ start' = [start EXCEPT ![o] = c] /\ chunks' = chunks
          /\ heap' = (heap \ Owned(o)) \cup ({c} \ {Null})
    BY <1>6 DEF CallInit
  <2>2. /\ start'[o] = c
        /\ \A q \in Objects : q # o => Owned(q)' = Owned(q)
    BY <2>1 DEF Invariant, LifetimeTypeOK, Owned
  <2>3. b \in Owned(o) /\ b \notin Owned(o)'
    BY <2>2, LostByOne
  <2>4. b = c /\ b # Null
    BY <2>1, <2>3
  <2> QED
    BY <2>2, <2>3, <2>4 DEF Owned
<1>7. ASSUME NEW o \in Objects, LinearReset(o) \/ Destroy(o)
      PROVE  FALSE
  <2>1. /\ \A q \in Objects : q # o => Owned(q)' = Owned(q)
        /\ heap' = heap \ Owned(o)
    BY <1>7 DEF LinearReset, Destroy, Invariant, LifetimeTypeOK, Owned
  <2> QED
    BY <2>1, LostByOne
<1>8. ASSUME NEW o \in Objects, Use(o)
      PROVE  FALSE
  BY <1>1, <1>8 DEF Use
<1>9. CASE Stopped
  BY <1>1, <1>9 DEF Stopped, vars
<1> QED
  BY <1>2, <1>3, <1>4, <1>5, <1>6, <1>7, <1>8, <1>9 DEF Next

(* Copies and failures included, no call loses memory but the Init of a    *)
(* pool that has some, and an assignment to an allocator that has some.    *)
THEOREM MemoryLostInTwoPlaces == Spec => LeaksByInitOrAssign
<1>1. Invariant /\ [Next]_vars =>
        [\A b \in heap \cap heap' :
           b \in Reachable /\ b \notin Reachable' =>
             \E o \in Objects : /\ b \in Owned(o)
                                /\ PoolInit(o) \/ \E p \in Objects : Assign(o, p)]_vars
  BY LostWhere
<1> QED
  BY <1>1, InitInvariant, NextInvariant, PTL DEF Spec, LeaksByInitOrAssign
=============================================================================
