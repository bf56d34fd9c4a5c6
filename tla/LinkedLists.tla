---------------------------- MODULE LinkedLists -----------------------------
(***************************************************************************)
(* The data structures at the end of src/AllocatorInterface.h:             *)
(* StackLinkedList, SinglyLinkedList and CalculatePadding.  A list is a    *)
(* head and the next fields of nodes the client owns; a program has        *)
(* several lists of one kind, and nodes wander from one to another.        *)
(*                                                                         *)
(* lists is the sequence each list stands for: what the calls so far       *)
(* should have made of it, and what the client goes by when it names the   *)
(* node before the place to insert or remove at.                           *)
(***************************************************************************)
EXTENDS Integers, Sequences

CONSTANTS
  Lists,
  Nodes,
  Null,             \* nullptr
  Stray,            \* what uninitialised memory holds: the address of no node
  Addresses,        \* first arguments of CalculatePadding
  PaddingAlignments \* second arguments of CalculatePadding

ASSUME ListsAssumption ==
  /\ Null \notin Nodes /\ Stray \notin Nodes /\ Null # Stray
  /\ Addresses \subseteq Nat /\ PaddingAlignments \subseteq Nat \ {0}

VARIABLES
  kind,    \* the class the program uses: never changes
  built,   \* list -> its head after construction: never changes
  head,    \* list -> head
  next,    \* node -> next
  lists,   \* list -> the nodes that should be in it, from the front
  status   \* "running", or "stray" after an access through a stray pointer

vars == <<kind, built, head, next, lists, status>>

Running == status = "running"

In(l) == {lists[l][i] : i \in 1..Len(lists[l])}

Loose == {n \in Nodes : \A l \in Lists : n \notin In(l)}

(* The sequence s with n in front of what was at i, and without what is at i. *)
With(s, i, n) ==
  [j \in 1..(Len(s) + 1) |-> IF j < i THEN s[j] ELSE IF j = i THEN n ELSE s[j - 1]]

Without(s, i) == [j \in 1..(Len(s) - 1) |-> IF j < i THEN s[j] ELSE s[j + 1]]

-----------------------------------------------------------------------------
(* StackLinkedList: head and next have initialisers.                       *)
BuildStack ==
  /\ kind = "StackLinkedList"
  /\ built = [l \in Lists |-> Null]
  /\ next = [n \in Nodes |-> Null]

(* SinglyLinkedList: they do not.  SinglyLinkedList{} has a null head all  *)
(* the same, and so may a list in memory that happens to be zero.          *)
BuildSingly ==
  /\ kind = "SinglyLinkedList"
  /\ built \in [Lists -> {Null, Stray}]
  /\ next = [n \in Nodes |-> Stray]

Init ==
  /\ BuildStack \/ BuildSingly
  /\ head = built
  /\ lists = [l \in Lists |-> <<>>]
  /\ status = "running"

(* Mutant: in an empty list the node keeps the next it came with.          *)
LinkFirstKeepsNext(l, n) ==
  /\ next' = [next EXCEPT ![n] = IF head[l] = Null THEN next[n] ELSE head[l]]
  /\ head' = [head EXCEPT ![l] = n]

(* push(), and both branches of insert(nullptr, n).                        *)
LinkFirst(l, n) ==
  /\ next' = [next EXCEPT ![n] = head[l]]
  /\ head' = [head EXCEPT ![l] = n]

(* Both branches of insert(p, n): it reads p->next before it writes it.    *)
LinkAfter(p, n) ==
  /\ next' = [next EXCEPT ![n] = next[p], ![p] = n]
  /\ UNCHANGED head

Push(l, n) ==
  /\ Running /\ kind = "StackLinkedList"
  /\ LinkFirst(l, n)
  /\ lists' = [lists EXCEPT ![l] = With(lists[l], 1, n)]
  /\ UNCHANGED <<kind, built, status>>

(* Without(<<>>, 1) is <<>>: pop of an empty list returns nullptr.         *)
Pop(l) ==
  /\ Running /\ kind = "StackLinkedList"
  /\ head' = [head EXCEPT ![l] = IF head[l] = Null THEN Null ELSE next[head[l]]]
  /\ lists' = [lists EXCEPT ![l] = Without(lists[l], 1)]
  /\ UNCHANGED <<kind, built, next, status>>

Insert(l, i, n) ==
  /\ Running /\ kind = "SinglyLinkedList"
  /\ IF i = 1 THEN LinkFirst(l, n) ELSE LinkAfter(lists[l][i - 1], n)
  /\ lists' = [lists EXCEPT ![l] = With(lists[l], i, n)]
  /\ UNCHANGED <<kind, built, status>>

(* Mutant: next of the node to be removed is not followed.                 *)
RemoveEmpties(l, i) ==
  /\ Running /\ kind = "SinglyLinkedList"
  /\ IF i = 1
     THEN head' = [head EXCEPT ![l] = Null] /\ UNCHANGED next
     ELSE next' = [next EXCEPT ![lists[l][i - 1]] = next[lists[l][i]]] /\ UNCHANGED head
  /\ lists' = [lists EXCEPT ![l] = Without(lists[l], i)]
  /\ UNCHANGED <<kind, built, status>>

Remove(l, i) ==
  /\ Running /\ kind = "SinglyLinkedList"
  /\ IF i = 1
     THEN head' = [head EXCEPT ![l] = next[lists[l][i]]] /\ UNCHANGED next
     ELSE next' = [next EXCEPT ![lists[l][i - 1]] = next[lists[l][i]]] /\ UNCHANGED head
  /\ lists' = [lists EXCEPT ![l] = Without(lists[l], i)]
  /\ UNCHANGED <<kind, built, status>>

(* remove(nullptr, head) while head is not null: how a client empties a    *)
(* list.  With a node at the head this is Remove(l, 1).                    *)
RemoveStray(l) ==
  /\ Running /\ kind = "SinglyLinkedList"
  /\ head[l] = Stray
  /\ status' = "stray"
  /\ UNCHANGED <<kind, built, head, next, lists>>

Stopped == ~Running /\ UNCHANGED vars

Next ==
  \/ \E l \in Lists, n \in Loose : Push(l, n)
  \/ \E l \in Lists : Pop(l) \/ RemoveStray(l)
  \/ \E l \in Lists, n \in Loose : \E i \in 1..(Len(lists[l]) + 1) : Insert(l, i, n)
  \/ \E l \in Lists : \E i \in 1..Len(lists[l]) : Remove(l, i)
  \/ Stopped

Spec == Init /\ [][Next]_vars

-----------------------------------------------------------------------------
(* Mutant: the remainder, and not what is missing to the next multiple.    *)
PaddingIsRemainder(baseAddress, alignment) ==
  (((baseAddress % alignment) + 128) % 256) - 128

(* The cast to a (signed) char of a number in 1..alignment.                *)
CalculatePadding(baseAddress, alignment) ==
  ((alignment - (baseAddress % alignment) + 128) % 256) - 128

-----------------------------------------------------------------------------
TypeOK ==
  /\ kind \in {"StackLinkedList", "SinglyLinkedList"}
  /\ built \in [Lists -> {Null, Stray}]
  /\ head \in [Lists -> Nodes \cup {Null, Stray}]
  /\ next \in [Nodes -> Nodes \cup {Null, Stray}]
  /\ lists \in [Lists -> Seq(Nodes)]
  /\ status \in {"running", "stray"}

(* Following next from head of push/pop/insert/remove visits the nodes of  *)
(* the list in order, and ends at what head was when the list was built:   *)
(* nullptr, unless head was not initialised (AllocatorInterface.h:204), in *)
(* which case no sequence of calls ever makes the list end in nullptr.     *)
Linked ==
  \A l \in Lists :
    LET s == lists[l]
    IN  /\ head[l] = IF s = <<>> THEN built[l] ELSE s[1]
        /\ \A i \in 1..Len(s) : next[s[i]] = IF i = Len(s) THEN built[l] ELSE s[i + 1]

(* A client that empties its lists follows a stray pointer only if one of  *)
(* them was built without a value, not because of what is left in nodes.   *)
StrayOnlyIfBuilt == status = "stray" => \E l \in Lists : built[l] = Stray

(* CalculatePadding leads to the next multiple of the alignment behind the *)
(* address (never to the address itself, if aligned) while that is less    *)
(* than 128 bytes away; from there on to a place 256 bytes before it,      *)
(* which still is a multiple if the alignment is 128 or 256.  It keeps no   *)
(* state: this is what any call by a running program gets.                 *)
PaddingAligns ==
  Running => \A b \in Addresses, a \in PaddingAlignments :
    LET multiple == (b \div a + 1) * a
        reached  == b + CalculatePadding(b, a)
    IN  /\ reached = IF multiple - b < 128 THEN multiple ELSE multiple - 256
        /\ a < 128 \/ a \in {128, 256} => reached % a = 0
=============================================================================
