------------------------- MODULE AllocatorLifetime --------------------------
(***************************************************************************)
(* How the four allocators own the memory they manage: their constructors, *)
(* copies, Init, Reset and destructors against malloc and free.  What they *)
(* do inside of their buffer is the subject of the other modules.          *)
(*                                                                         *)
(* An object's Init precedes its first use, and follows the Reset of a     *)
(* LinearAllocator: ready says for which objects the client did that.      *)
(***************************************************************************)
EXTENDS Integers

CONSTANTS
  Objects,      \* variables of the program that may hold an allocator
  Buffers,      \* addresses malloc may return
  Null,         \* nullptr
  MallocResults \* whether malloc may succeed (TRUE) and fail (FALSE)

ASSUME LifetimeAssumption == Null \notin Buffers /\ MallocResults \subseteq BOOLEAN

Classes == {"FreeListAllocator", "StackAllocator", "LinearAllocator", "PoolAllocator"}

VARIABLES
  status, \* "running", or how the program stopped
  class,  \* object -> its class, or "none" before construction and after
          \* destruction
  start,  \* object -> m_start_ptr
  chunks, \* object -> m_freeChunks, nullptr for all but pools
  ready,  \* the objects that are initialised
  heap,   \* what malloc has handed out and free has not got back
  shared, \* history: an allocator with memory was copied
  failed  \* history: malloc returned nullptr

vars == <<status, class, start, chunks, ready, heap, shared, failed>>

Running == status = "running"

Alive == {o \in Objects : class[o] # "none"}

IsPool(o) == class[o] = "PoolAllocator"

Owned(o) == {start[o], chunks[o]} \ {Null}

(* What malloc returns next to memory that is in use.                      *)
Malloc(inUse) ==
  (IF TRUE \in MallocResults THEN Buffers \ inUse ELSE {})
    \cup (IF FALSE \in MallocResults THEN {Null} ELSE {})

(* free(p) for each p: an error unless malloc handed it out.               *)
FreeAll(ps) == status' = IF ps \subseteq heap THEN status ELSE "double free"

-----------------------------------------------------------------------------
Construct(o, c) ==
  /\ Running /\ o \notin Alive
  /\ class' = [class EXCEPT ![o] = c]
  /\ UNCHANGED <<status, start, chunks, ready, heap, shared, failed>>

(* Both pools have the two arrays now.                                     *)
Copy(o, p) ==
  /\ Running /\ o \notin Alive /\ p \in Alive /\ IsPool(p)
  /\ class' = [class EXCEPT ![o] = class[p]]
  /\ start' = [start EXCEPT ![o] = start[p]]
  /\ chunks' = [chunks EXCEPT ![o] = chunks[p]]
  /\ ready' = IF p \in ready THEN ready \cup {o} ELSE ready
  /\ shared' = (shared \/ Owned(p) # {})
  /\ UNCHANGED <<status, heap, failed>>

(* o = p: the copy constructors of these classes are deleted, their copy   *)
(* assignments are not.                                                    *)
Assign(o, p) ==
  /\ Running /\ o # p /\ o \in Alive /\ p \in Alive
  /\ class[o] = class[p] /\ class[o] \in {"StackAllocator", "LinearAllocator"}
  /\ start' = [start EXCEPT ![o] = start[p]]
  /\ ready' = IF p \in ready THEN ready \cup {o} ELSE ready \ {o}
  /\ shared' = (shared \/ Owned(p) # {})
  /\ UNCHANGED <<status, class, chunks, heap, failed>>

(* Mutant: Reset before the second array is there.                         *)
PoolInitResetsFirst(o) ==
  \E b \in Malloc(heap) : \E c \in Malloc(heap \cup {b}) :
    /\ Running /\ o \in Alive /\ IsPool(o)
    /\ start' = [start EXCEPT ![o] = b]
    /\ chunks' = [chunks EXCEPT ![o] = c]
    /\ heap' = heap \cup ({b, c} \ {Null})
    /\ failed' = (failed \/ Null \in {b, c})
    /\ status' = IF chunks[o] = Null THEN "null pointer" ELSE status
    /\ ready' = ready \cup {o}
    /\ UNCHANGED <<class, shared>>

(* PoolAllocator::Init forgets what it had, and Reset fills the new array. *)
PoolInit(o) ==
  \E b \in Malloc(heap) : \E c \in Malloc(heap \cup {b}) :
    /\ Running /\ o \in Alive /\ IsPool(o)
    /\ start' = [start EXCEPT ![o] = b]
    /\ chunks' = [chunks EXCEPT ![o] = c]
    /\ heap' = heap \cup ({b, c} \ {Null})
    /\ failed' = (failed \/ Null \in {b, c})
    /\ status' = IF c = Null THEN "null pointer" ELSE status
    /\ ready' = ready \cup {o}
    /\ UNCHANGED <<class, shared>>

(* Init of the others returns the buffer they had.                         *)
CallInit(o) ==
  \E b \in Malloc(heap \ Owned(o)) :
    /\ Running /\ o \in Alive /\ ~IsPool(o)
    /\ FreeAll(Owned(o))
    /\ start' = [start EXCEPT ![o] = b]
    /\ heap' = (heap \ Owned(o)) \cup ({b} \ {Null})
    /\ failed' = (failed \/ b = Null)
    /\ ready' = ready \cup {o}
    /\ UNCHANGED <<class, chunks, shared>>

(* Mutant: the pointer to what was freed is kept.                          *)
LinearResetKeepsPointer(o) ==
  /\ Running /\ o \in Alive /\ class[o] = "LinearAllocator"
  /\ FreeAll(Owned(o))
  /\ heap' = heap \ Owned(o)
  /\ ready' = ready \ {o}
  /\ UNCHANGED <<class, start, chunks, shared, failed>>

(* LinearAllocator::Reset; those of the others keep their memory.          *)
LinearReset(o) ==
  /\ Running /\ o \in Alive /\ class[o] = "LinearAllocator"
  /\ FreeAll(Owned(o))
  /\ start' = [start EXCEPT ![o] = Null]
  /\ heap' = heap \ Owned(o)
  /\ ready' = ready \ {o}
  /\ UNCHANGED <<class, chunks, shared, failed>>

(* Mutant: ~PoolAllocator frees m_start_ptr only.                          *)
DestroyKeepsChunks(o) ==
  /\ Running /\ o \in Alive
  /\ FreeAll({start[o]} \ {Null})
  /\ class' = [class EXCEPT ![o] = "none"]
  /\ start' = [start EXCEPT ![o] = Null]
  /\ chunks' = [chunks EXCEPT ![o] = Null]
  /\ ready' = ready \ {o}
  /\ heap' = heap \ {start[o]}
  /\ UNCHANGED <<shared, failed>>

Destroy(o) ==
  /\ Running /\ o \in Alive
  /\ FreeAll(Owned(o))
  /\ class' = [class EXCEPT ![o] = "none"]
  /\ start' = [start EXCEPT ![o] = Null]
  /\ chunks' = [chunks EXCEPT ![o] = Null]
  /\ ready' = ready \ {o}
  /\ heap' = heap \ Owned(o)
  /\ UNCHANGED <<shared, failed>>

(* A call that reads m_freeChunks, or the client or a header written to    *)
(* what Allocate returned; only what goes wrong is a step.                 *)
Use(o) ==
  LET touched == IF IsPool(o) THEN {start[o], chunks[o]} ELSE {start[o]}
  IN  /\ Running /\ o \in ready
      /\ ~(touched \subseteq heap)
      /\ status' = IF Null \in touched THEN "null pointer" ELSE "use after free"
      /\ UNCHANGED <<class, start, chunks, ready, heap, shared, failed>>

Stopped == ~Running /\ UNCHANGED vars

Init ==
  /\ status = "running"
  /\ class = [o \in Objects |-> "none"]
  /\ start = [o \in Objects |-> Null]
  /\ chunks = [o \in Objects |-> Null]
  /\ ready = {} /\ heap = {}
  /\ shared = FALSE /\ failed = FALSE

Next ==
  \/ \E o \in Objects, c \in Classes : Construct(o, c)
  \/ \E o, p \in Objects : Copy(o, p) \/ Assign(o, p)
  \/ \E o \in Objects : PoolInit(o) \/ CallInit(o) \/ LinearReset(o) \/ Destroy(o) \/ Use(o)
  \/ Stopped

Spec == Init /\ [][Next]_vars

-----------------------------------------------------------------------------
(* Init, Reset and the destructors of the four classes free nothing twice  *)
(* and use nothing that was freed, in any order of calls and with any      *)
(* number of Inits, as long as no allocator that has memory is copied.     *)
FreesOnce == status \in {"double free", "use after free"} => shared

(* Init is enough: where malloc succeeds, no call after it meets nullptr.  *)
NullOnlyIfMallocFailed == status = "null pointer" => failed

Reachable == UNION {Owned(o) : o \in Objects}

(* Memory gets lost in two places only: a second Init of a pool, and an    *)
(* assignment to an allocator that has a buffer.                           *)
LeaksByInitOrAssign ==
  [][\A b \in heap \cap heap' :
       b \in Reachable /\ b \notin Reachable' =>
         \E o \in Objects : /\ b \in Owned(o)
                            /\ PoolInit(o) \/ \E p \in Objects : Assign(o, p)]_vars
=============================================================================
