------------------------- MODULE AllocatorInterface -------------------------
(***************************************************************************)
(* What every allocator of the library promises to the client that calls   *)
(* it through the base class AllocatorInterface (src/AllocatorInterface.h): *)
(* Allocate hands out a region of the managed buffer that no other live    *)
(* pointer covers, or refuses; Free gives one region back; (re)Init and    *)
(* Reset forget them all; GetUsedSize counts the bytes that are out.       *)
(*                                                                         *)
(* A handle stands for one pointer variable of the client, so Handles      *)
(* bounds how many allocations are live at once.  A handle that holds no   *)
(* block is at NoExtent, whose region is empty.                            *)
(***************************************************************************)
EXTENDS Integers

CONSTANTS
  Handles,    \* pointer variables of the client
  Capacity,   \* bytes the allocator manages
  SizeT       \* 2^64, the modulus of std::size_t

VARIABLES
  extent,     \* handle -> the bytes it owns: [offset, size]
  used        \* m_used

ifaceVars == <<extent, used>>

Extent == [offset : Nat, size : Nat]

NoExtent == [offset |-> 0, size |-> 0]

(* Two extents share no byte.                                              *)
Apart(a, b) == a.offset + a.size <= b.offset \/ b.offset + b.size <= a.offset

IfaceInit ==
  /\ extent = [h \in Handles |-> NoExtent]
  /\ used = 0

(* Allocate() returned a pointer.  Which bytes is up to the allocator.      *)
Grant(h, e) ==
  /\ extent[h] = NoExtent
  /\ e \in Extent
  /\ e.size > 0
  /\ e.offset + e.size <= Capacity
  /\ \A g \in Handles : extent[g].size > 0 => Apart(extent[g], e)
  /\ extent' = [extent EXCEPT ![h] = e]
  /\ used' = (used + e.size) % SizeT

(* Free() accepted the pointer.                                            *)
Release(h) ==
  /\ extent[h] # NoExtent
  /\ extent' = [extent EXCEPT ![h] = NoExtent]
  /\ used' = (used - extent[h].size) % SizeT

(* Init() or Reset(): every pointer handed out so far is void.             *)
Forget ==
  /\ extent' = [h \in Handles |-> NoExtent]
  /\ used' = 0

IfaceNext ==
  \/ \E h \in Handles : Grant(h, extent'[h]) \/ Release(h)
  \/ Forget

IfaceSpec == IfaceInit /\ [][IfaceNext]_ifaceVars
=============================================================================
