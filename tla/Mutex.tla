-------------------------------- MODULE Mutex --------------------------------
(***************************************************************************)
(* What a lock promises to the threads that share it: one owner at a time, *)
(* and a new owner only after the last one has let go.                     *)
(***************************************************************************)
CONSTANTS
  Threads,
  NoThread   \* not a thread

VARIABLE owner

MutexInit == owner = NoThread

Acquire(t) == owner = NoThread /\ owner' = t

Release(t) == owner = t /\ owner' = NoThread

MutexNext == \E t \in Threads : Acquire(t) \/ Release(t)

MutexSpec == MutexInit /\ [][MutexNext]_owner
=============================================================================
