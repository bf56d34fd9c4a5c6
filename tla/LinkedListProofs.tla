-------------------------- MODULE LinkedListProofs --------------------------
(***************************************************************************)
(* The nodes of StackLinkedList and SinglyLinkedList are linked the way    *)
(* the calls so far say, for any number of lists and nodes; and where the  *)
(* padding leads.                                                          *)
(***************************************************************************)
EXTENDS LinkedLists, TLAPS

(* No node is in two lists, or twice in one.  Without it a write to next   *)
(* for one list could cut another.                                         *)
NodesOnce ==
  \A l, m \in Lists : \A i \in 1..Len(lists[l]), j \in 1..Len(lists[m]) :
    lists[l][i] = lists[m][j] => l = m /\ i = j

(* Linked for one list, with what it reads as arguments.                   *)
Chain(first, links, s, last) ==
  /\ first = IF s = <<>> THEN last ELSE s[1]
  /\ \A i \in 1..Len(s) : links[s[i]] = IF i = Len(s) THEN last ELSE s[i + 1]

(* The heads of StackLinkedList have an initialiser.                       *)
BuiltByKind == kind = "StackLinkedList" => \A l \in Lists : built[l] = Null

Invariant == TypeOK /\ BuiltByKind /\ NodesOnce /\ Linked

USE DEF Running

-----------------------------------------------------------------------------
(* What With and Without return.                                           *)
LEMMA WithIsSeq ==
  ASSUME NEW S, NEW s \in Seq(S), NEW i \in 1..(Len(s) + 1), NEW n \in S
  PROVE  /\ With(s, i, n) \in Seq(S)
         /\ Len(With(s, i, n)) = Len(s) + 1
         /\ \A j \in 1..(Len(s) + 1) :
              With(s, i, n)[j] = IF j < i THEN s[j] ELSE IF j = i THEN n ELSE s[j - 1]
<1>1. Len(s) \in Nat /\ \A j \in 1..Len(s) : s[j] \in S
  OBVIOUS
<1> DEFINE t == [j \in 1..(Len(s) + 1) |->
                   IF j < i THEN s[j] ELSE IF j = i THEN n ELSE s[j - 1]]
<1>2. \A j \in 1..(Len(s) + 1) : t[j] \in S
  <2> SUFFICES ASSUME NEW j \in 1..(Len(s) + 1) PROVE t[j] \in S
    OBVIOUS
  <2>1. CASE j < i BY <1>1, <2>1
  <2>2. CASE j = i BY <2>2
  <2>3. CASE j > i
    <3>1. j - 1 \in 1..Len(s) BY <1>1, <2>3
    <3> QED BY <1>1, <2>3, <3>1
  <2> QED BY <1>1, <2>1, <2>2, <2>3
<1>3. t \in Seq(S) /\ Len(t) = Len(s) + 1
  BY <1>1, <1>2
<1> QED BY <1>3 DEF With

LEMMA WithoutIsSeq ==
  ASSUME NEW S, NEW s \in Seq(S), NEW i \in 1..Len(s)
  PROVE  /\ Without(s, i) \in Seq(S)
         /\ Len(Without(s, i)) = Len(s) - 1
         /\ \A j \in 1..(Len(s) - 1) :
              Without(s, i)[j] = IF j < i THEN s[j] ELSE s[j + 1]
<1>1. Len(s) \in Nat /\ \A j \in 1..Len(s) : s[j] \in S
  OBVIOUS
<1> DEFINE t == [j \in 1..(Len(s) - 1) |-> IF j < i THEN s[j] ELSE s[j + 1]]
<1>2. \A j \in 1..(Len(s) - 1) : t[j] \in S
  <2> SUFFICES ASSUME NEW j \in 1..(Len(s) - 1) PROVE t[j] \in S
    OBVIOUS
  <2>1. j \in 1..Len(s) /\ j + 1 \in 1..Len(s)
    BY <1>1
  <2> QED BY <1>1, <2>1
<1>3. Len(s) - 1 \in Nat
  BY <1>1
<1>4. t \in Seq(S) /\ Len(t) = Len(s) - 1
  BY <1>2, <1>3
<1> QED BY <1>4 DEF Without

(* pop() of an empty list leaves it empty.                                 *)
LEMMA WithoutEmpty == Without(<<>>, 1) = <<>>
<1>1. Len(<<>>) - 1 = -1
  OBVIOUS
<1>2. 1..(Len(<<>>) - 1) = {}
  BY <1>1
<1> QED BY <1>2 DEF Without

-----------------------------------------------------------------------------
(* Linked for one list, with what it reads as arguments.                   *)
LEMMA ChainIsLinked ==
  Linked <=> \A l \in Lists : Chain(head[l], next, lists[l], built[l])
BY DEF Linked, Chain

(* A chain does not read the next of nodes that are not in it.             *)
LEMMA ChainElsewhere ==
  ASSUME NEW s \in Seq(Nodes), NEW first, NEW links, NEW others, NEW last,
         Chain(first, links, s, last),
         \A j \in 1..Len(s) : others[s[j]] = links[s[j]]
  PROVE  Chain(first, others, s, last)
BY DEF Chain

(* A new first node that points at the old first one.                      *)
LEMMA ChainWithFirst ==
  ASSUME NEW s \in Seq(Nodes), NEW n \in Nodes, NEW first, NEW last,
         NEW links, NEW relinked,
         Chain(first, links, s, last),
         relinked[n] = first,
         \A j \in 1..Len(s) : relinked[s[j]] = links[s[j]]
  PROVE  Chain(n, relinked, With(s, 1, n), last)
<1> DEFINE t == With(s, 1, n)
<1>1. /\ t \in Seq(Nodes) /\ Len(s) \in Nat /\ Len(t) = Len(s) + 1
      /\ \A j \in 1..(Len(s) + 1) :
           t[j] = IF j < 1 THEN s[j] ELSE IF j = 1 THEN n ELSE s[j - 1]
  <2>1. Len(s) \in Nat /\ 1 \in 1..(Len(s) + 1)
    OBVIOUS
  <2> QED BY <2>1, WithIsSeq
<1>2. t[1] = n /\ t # <<>>
  BY <1>1
<1>3. ASSUME NEW j \in 1..Len(t)
      PROVE  relinked[t[j]] = IF j = Len(t) THEN last ELSE t[j + 1]
  <2>1. CASE j = 1
    <3>1. CASE s = <<>>
      <4>1. Len(s) = 0 /\ first = last
        BY <3>1 DEF Chain
      <4> QED BY <1>1, <1>2, <2>1, <4>1
    <3>2. CASE s # <<>>
      <4>1. Len(s) # 0 /\ first = s[1]
        BY <3>2 DEF Chain
      <4>2. 2 \in 1..(Len(s) + 1) /\ t[2] = s[1]
        BY <1>1, <4>1
      <4> QED BY <1>1, <1>2, <2>1, <4>1, <4>2
    <3> QED BY <3>1, <3>2
  <2>2. CASE j # 1
    <3>1. j - 1 \in 1..Len(s) /\ t[j] = s[j - 1]
      BY <1>1, <2>2
    <3>2. ASSUME j # Len(t) PROVE t[j + 1] = s[j]
      <4>1. j + 1 \in 1..(Len(s) + 1) /\ ~(j + 1 < 1) /\ j + 1 # 1 /\ (j + 1) - 1 = j
        BY <1>1, <3>2
      <4> HIDE DEF t
      <4>2. t[j + 1] = s[(j + 1) - 1]
        BY <1>1, <4>1
      <4> QED BY <4>1, <4>2
    <3>3. (j - 1) + 1 = j /\ (j = Len(t) <=> j - 1 = Len(s))
      BY <1>1
    <3>4. relinked[s[j - 1]] = links[s[j - 1]]
      BY <3>1
    <3>5. links[s[j - 1]] = IF j - 1 = Len(s) THEN last ELSE s[(j - 1) + 1]
      BY <3>1 DEF Chain
    <3> HIDE DEF t
    <3> QED BY <3>1, <3>2, <3>3, <3>4, <3>5
  <2> QED BY <2>1, <2>2
<1> HIDE DEF t
<1> QED BY <1>2, <1>3 DEF Chain, t

(* A new node between the one at i - 1 and the rest.                       *)
LEMMA ChainWithAfter ==
  ASSUME NEW s \in Seq(Nodes), NEW n \in Nodes, NEW first, NEW last,
         NEW links, NEW relinked, NEW i \in 2..(Len(s) + 1),
         Chain(first, links, s, last),
         relinked[n] = links[s[i - 1]],
         relinked[s[i - 1]] = n,
         \A j \in 1..Len(s) : j # i - 1 => relinked[s[j]] = links[s[j]]
  PROVE  Chain(first, relinked, With(s, i, n), last)
<1> DEFINE t == With(s, i, n)
<1>1. /\ t \in Seq(Nodes) /\ Len(s) \in Nat /\ Len(t) = Len(s) + 1
      /\ \A j \in 1..(Len(s) + 1) :
           t[j] = IF j < i THEN s[j] ELSE IF j = i THEN n ELSE s[j - 1]
  <2>1. Len(s) \in Nat /\ i \in 1..(Len(s) + 1)
    OBVIOUS
  <2> QED BY <2>1, WithIsSeq
<1>2. t[1] = s[1] /\ t # <<>> /\ s # <<>>
  BY <1>1
<1>4. Len(s) \in Nat /\ Len(t) = Len(s) + 1
  BY <1>1
<1>3. ASSUME NEW j \in 1..Len(t)
      PROVE  relinked[t[j]] = IF j = Len(t) THEN last ELSE t[j + 1]
  <2>1. CASE j < i - 1
    <3>1. j \in 1..Len(s) /\ t[j] = s[j] /\ t[j + 1] = s[j + 1]
          /\ j # Len(t) /\ j # Len(s)
      BY <1>1, <2>1
    <3>2. relinked[s[j]] = s[j + 1]
      BY <2>1, <3>1 DEF Chain
    <3> QED BY <3>1, <3>2
  <2>2. CASE j = i - 1
    <3>1. t[j] = s[j] /\ t[j + 1] = n /\ j # Len(t)
      BY <1>1, <2>2
    <3> QED BY <2>2, <3>1
  <2>3. CASE j = i
    <3>1. i - 1 \in 1..Len(s) /\ t[j] = n
      BY <1>1, <2>3
    <3>2. links[s[i - 1]] = IF i - 1 = Len(s) THEN last ELSE s[(i - 1) + 1]
      BY <3>1 DEF Chain
    <3>3. j # Len(t) => t[j + 1] = s[j]
      BY <1>1, <2>3
    <3> QED BY <1>1, <2>3, <3>1, <3>2, <3>3
  <2>4. CASE j > i
    <3>1. j - 1 \in 1..Len(s) /\ j - 1 # i - 1 /\ t[j] = s[j - 1]
      BY <1>1, <2>4
    <3>2. relinked[s[j - 1]] = IF j - 1 = Len(s) THEN last ELSE s[(j - 1) + 1]
      BY <3>1 DEF Chain
    <3>3. ASSUME j # Len(t) PROVE t[j + 1] = s[j]
      <4>1. /\ j + 1 \in 1..(Len(s) + 1) /\ (j + 1) - 1 = j
            /\ ~(j + 1 < i) /\ j + 1 # i
        BY <1>4, <2>4, <3>3
      <4>2. t[j + 1] = s[(j + 1) - 1]
        BY <1>1, <4>1
      <4> QED BY <4>1, <4>2
    <3> QED BY <1>1, <3>1, <3>2, <3>3
  <2> QED BY <1>1, <2>1, <2>2, <2>3, <2>4
<1> HIDE DEF t
<1> QED BY <1>2, <1>3 DEF Chain, t

(* The first node is passed over.                                          *)
LEMMA ChainWithoutFirst ==
  ASSUME NEW s \in Seq(Nodes), NEW first, NEW last, NEW links,
         Chain(first, links, s, last), s # <<>>
  PROVE  Chain(links[s[1]], links, Without(s, 1), last)
<1> DEFINE t == Without(s, 1)
<1>1. /\ t \in Seq(Nodes) /\ Len(s) \in Nat \ {0} /\ Len(t) = Len(s) - 1
      /\ \A j \in 1..(Len(s) - 1) : t[j] = IF j < 1 THEN s[j] ELSE s[j + 1]
  <2>1. Len(s) \in Nat \ {0} /\ 1 \in 1..Len(s)
    OBVIOUS
  <2> QED BY <2>1, WithoutIsSeq
<1>2. links[s[1]] = IF t = <<>> THEN last ELSE t[1]
  <2>1. links[s[1]] = IF 1 = Len(s) THEN last ELSE s[2]
    BY <1>1 DEF Chain
  <2>2. t = <<>> <=> Len(s) = 1
    BY <1>1
  <2> QED BY <1>1, <2>1, <2>2
<1>3. ASSUME NEW j \in 1..Len(t)
      PROVE  links[t[j]] = IF j = Len(t) THEN last ELSE t[j + 1]
  <2>1. j + 1 \in 1..Len(s) /\ t[j] = s[j + 1]
    BY <1>1
  <2>2. links[s[j + 1]] = IF j + 1 = Len(s) THEN last ELSE s[(j + 1) + 1]
    BY <2>1 DEF Chain
  <2>3. j # Len(t) => t[j + 1] = s[j + 2]
    BY <1>1
  <2> QED BY <1>1, <2>1, <2>2, <2>3
<1> HIDE DEF t
<1> QED BY <1>2, <1>3 DEF Chain, t

(* The node at i is passed over by the one before it.                      *)
LEMMA ChainWithoutAfter ==
  ASSUME NEW s \in Seq(Nodes), NEW first, NEW last,
         NEW links, NEW relinked, NEW i \in 2..Len(s),
         Chain(first, links, s, last),
         relinked[s[i - 1]] = links[s[i]],
         \A j \in 1..Len(s) : j # i - 1 => relinked[s[j]] = links[s[j]]
  PROVE  Chain(first, relinked, Without(s, i), last)
<1> DEFINE t == Without(s, i)
<1>1. /\ t \in Seq(Nodes) /\ Len(s) \in Nat /\ Len(t) = Len(s) - 1
      /\ \A j \in 1..(Len(s) - 1) : t[j] = IF j < i THEN s[j] ELSE s[j + 1]
  <2>1. Len(s) \in Nat /\ i \in 1..Len(s)
    OBVIOUS
  <2> QED BY <2>1, WithoutIsSeq
<1>2. t[1] = s[1] /\ t # <<>> /\ s # <<>>
  BY <1>1
<1>4. Len(s) \in Nat /\ Len(t) = Len(s) - 1
  BY <1>1
<1>3. ASSUME NEW j \in 1..Len(t)
      PROVE  relinked[t[j]] = IF j = Len(t) THEN last ELSE t[j + 1]
  <2>1. CASE j < i - 1
    <3>1. j \in 1..Len(s) /\ t[j] = s[j] /\ t[j + 1] = s[j + 1]
          /\ j # Len(t) /\ j # Len(s)
      BY <1>1, <2>1
    <3>2. relinked[s[j]] = s[j + 1]
      BY <2>1, <3>1 DEF Chain
    <3> QED BY <3>1, <3>2
  <2>2. CASE j = i - 1
    <3>1. t[j] = s[i - 1] /\ i \in 1..Len(s)
      BY <1>1, <2>2
    <3>2. links[s[i]] = IF i = Len(s) THEN last ELSE s[i + 1]
      BY <3>1 DEF Chain
    <3>3. j # Len(t) => t[j + 1] = s[i + 1]
      BY <1>1, <2>2
    <3> QED BY <1>1, <2>2, <3>1, <3>2, <3>3
  <2>3. CASE j > i - 1
    <3>1. j + 1 \in 1..Len(s) /\ j + 1 # i - 1 /\ t[j] = s[j + 1]
      BY <1>1, <2>3
    <3>2. relinked[s[j + 1]] = IF j + 1 = Len(s) THEN last ELSE s[(j + 1) + 1]
      BY <3>1 DEF Chain
    <3>3. ASSUME j # Len(t) PROVE t[j + 1] = s[j + 2]
      <4>1. /\ j + 1 \in 1..(Len(s) - 1) /\ (j + 1) + 1 = j + 2
            /\ ~(j + 1 < i)
        BY <1>4, <2>3, <3>3
      <4>2. t[j + 1] = s[(j + 1) + 1]
        BY <1>1, <4>1
      <4> QED BY <4>1, <4>2
    <3> QED BY <1>1, <3>1, <3>2, <3>3
  <2> QED BY <1>1, <2>1, <2>2, <2>3
<1> HIDE DEF t
<1> QED BY <1>2, <1>3 DEF Chain, t

-----------------------------------------------------------------------------
(* Putting in a node that is in no list: every chain stays a chain, that   *)
(* of l now with n at i.                                                   *)
LEMMA LinkKeepsInvariant ==
  ASSUME Invariant, NEW l \in Lists, NEW n \in Loose,
         NEW i \in 1..(Len(lists[l]) + 1),
         IF i = 1 THEN LinkFirst(l, n) ELSE LinkAfter(lists[l][i - 1], n),
         lists' = [lists EXCEPT ![l] = With(lists[l], i, n)],
         UNCHANGED <<kind, built, status>>
  PROVE  Invariant'
<1> DEFINE s == lists[l]
           t == With(s, i, n)
<1>1. /\ n \in Nodes /\ s \in Seq(Nodes) /\ Len(s) \in Nat
      /\ \A m \in Lists : lists[m] \in Seq(Nodes)
      /\ \A m \in Lists : \A j \in 1..Len(lists[m]) :
           lists[m][j] # n /\ lists[m][j] \in Nodes
  <2>1. n \in Nodes /\ \A m \in Lists : lists[m] \in Seq(Nodes)
    BY DEF Invariant, TypeOK, Loose
  <2>2. \A m \in Lists : \A j \in 1..Len(lists[m]) : lists[m][j] # n
    BY DEF Loose, In
  <2> QED BY <2>1, <2>2
<1>2. /\ t \in Seq(Nodes) /\ Len(t) = Len(s) + 1
      /\ \A j \in 1..(Len(s) + 1) :
           t[j] = IF j < i THEN s[j] ELSE IF j = i THEN n ELSE s[j - 1]
  <2>1. s \in Seq(Nodes) /\ i \in 1..(Len(s) + 1) /\ n \in Nodes
    BY <1>1
  <2> HIDE DEF s
  <2> QED BY <2>1, WithIsSeq
<1>3. /\ lists'[l] = t
      /\ \A m \in Lists : m # l => lists'[m] = lists[m]
      /\ lists' \in [Lists -> Seq(Nodes)]
  BY <1>2 DEF Invariant, TypeOK
<1> HIDE DEF t
<1>4. \A m \in Lists : Chain(head[m], next, lists[m], built[m])
  BY ChainIsLinked DEF Invariant
<1>5. NodesOnce'
  <2> SUFFICES ASSUME NEW m \in Lists, NEW k \in Lists,
                      NEW j \in 1..Len(lists'[m]), NEW o \in 1..Len(lists'[k]),
                      lists'[m][j] = lists'[k][o]
               PROVE  m = k /\ j = o
    BY DEF NodesOnce
  <2> DEFINE place(q, p) == IF q # l \/ p < i THEN p ELSE p - 1
  <2>1. ASSUME NEW q \in Lists, NEW p \in 1..Len(lists'[q])
        PROVE  IF q = l /\ p = i THEN lists'[q][p] = n
               ELSE place(q, p) \in 1..Len(lists[q]) /\ lists'[q][p] = lists[q][place(q, p)]
    <3>1. CASE q # l
      BY <1>1, <1>3, <2>1, <3>1
    <3>2. CASE q = l
      <4>1. p \in 1..(Len(s) + 1) /\ lists'[q][p] = t[p]
        BY <1>2, <1>3, <2>1, <3>2
      <4>2. CASE p < i
        <5>1. t[p] = s[p] /\ p \in 1..Len(s)
          BY <1>1, <1>2, <4>1, <4>2
        <5> QED BY <3>2, <4>1, <4>2, <5>1
      <4>3. CASE p = i
        BY <1>2, <3>2, <4>1, <4>3
      <4>4. CASE p > i
        <5>1. ~(p < i) /\ p # i
          BY <4>1, <4>4
        <5>2. t[p] = s[p - 1]
          BY <1>2, <4>1, <5>1
        <5>3. p - 1 \in 1..Len(s)
          BY <1>1, <4>1, <4>4
        <5> QED BY <3>2, <4>1, <5>1, <5>2, <5>3
      <4>5. p < i \/ p = i \/ p > i
        BY <4>1
      <4> QED BY <4>2, <4>3, <4>4, <4>5
    <3> QED BY <3>1, <3>2
  <2>2. CASE m = l /\ j = i
    <3>1. lists'[m][j] = n
      BY <2>1, <2>2
    <3>2. ASSUME ~(k = l /\ o = i) PROVE lists'[k][o] # n
      <4>1. place(k, o) \in 1..Len(lists[k]) /\ lists'[k][o] = lists[k][place(k, o)]
        <5> HIDE DEF place
        <5> QED BY <2>1, <3>2
      <4> HIDE DEF place
      <4> QED BY <1>1, <4>1
    <3> QED BY <2>2, <3>1, <3>2
  <2>3. CASE k = l /\ o = i
    <3>1. lists'[k][o] = n
      BY <2>1, <2>3
    <3>2. ASSUME ~(m = l /\ j = i) PROVE lists'[m][j] # n
      <4>1. place(m, j) \in 1..Len(lists[m]) /\ lists'[m][j] = lists[m][place(m, j)]
        <5> HIDE DEF place
        <5> QED BY <2>1, <3>2
      <4> HIDE DEF place
      <4> QED BY <1>1, <4>1
    <3> QED BY <2>3, <3>1, <3>2
  <2>4. CASE ~(m = l /\ j = i) /\ ~(k = l /\ o = i)
    <3>1. m = k /\ place(m, j) = place(k, o)
      <4>1. /\ place(m, j) \in 1..Len(lists[m]) /\ place(k, o) \in 1..Len(lists[k])
            /\ lists[m][place(m, j)] = lists[k][place(k, o)]
        BY <2>1, <2>4
      <4>2. \A x \in 1..Len(lists[m]), y \in 1..Len(lists[k]) :
              lists[m][x] = lists[k][y] => m = k /\ x = y
        <5>1. NodesOnce
          BY DEF Invariant
        <5> QED BY <5>1 DEF NodesOnce
      <4> HIDE DEF place
      <4> QED BY <4>1, <4>2
    <3>2. j \in Int /\ o \in Int
      OBVIOUS
    <3> QED BY <2>4, <3>1, <3>2
  <2> QED BY <2>2, <2>3, <2>4
<1>6. CASE i = 1
  <2>1. LinkFirst(l, n)
    BY <1>6
  <2>2. /\ head'[l] = n /\ \A m \in Lists : m # l => head'[m] = head[m]
        /\ next'[n] = head[l] /\ \A k \in Nodes : k # n => next'[k] = next[k]
    BY <1>1, <2>1 DEF LinkFirst, Invariant, TypeOK
  <2>3. TypeOK'
    <3>1. next' = [next EXCEPT ![n] = head[l]] /\ head' = [head EXCEPT ![l] = n]
      BY <2>1 DEF LinkFirst
    <3>2. n \in Nodes /\ lists' \in [Lists -> Seq(Nodes)]
      BY <1>1, <1>3
    <3> HIDE DEF s
    <3>3. head' \in [Lists -> Nodes \cup {Null, Stray}]
      BY <3>1, <3>2 DEF Invariant, TypeOK
    <3>4. next' \in [Nodes -> Nodes \cup {Null, Stray}]
      BY <3>1, <3>2 DEF Invariant, TypeOK
    <3> QED BY <3>2, <3>3, <3>4 DEF Invariant, TypeOK
  <2>4. ASSUME NEW m \in Lists PROVE Chain(head'[m], next', lists'[m], built'[m])
    <3>1. /\ \A j \in 1..Len(lists[m]) : next'[lists[m][j]] = next[lists[m][j]]
          /\ built'[m] = built[m]
      BY <1>1, <2>2
    <3>2. CASE m = l
      <4>1. Chain(n, next', With(s, 1, n), built[l])
        BY <1>1, <1>4, <2>2, <3>1, <3>2, ChainWithFirst
      <4> QED BY <1>3, <1>6, <2>2, <3>1, <3>2, <4>1 DEF t
    <3>3. CASE m # l
      BY <1>1, <1>3, <1>4, <2>2, <3>1, <3>3, ChainElsewhere
    <3> QED BY <3>2, <3>3
  <2> QED BY <1>5, <2>3, <2>4 DEF Invariant, Linked, Chain, BuiltByKind
<1>7. CASE i # 1
  <2> DEFINE p == s[i - 1]
  <2>1. LinkAfter(p, n) /\ i \in 2..(Len(s) + 1) /\ i - 1 \in 1..Len(s)
    BY <1>1, <1>7
  <2>2. p \in Nodes /\ p # n
    BY <1>1, <2>1
  <2>3. /\ next'[n] = next[p] /\ next'[p] = n
        /\ \A k \in Nodes : k # n /\ k # p => next'[k] = next[k]
        /\ head' = head
    BY <1>1, <2>1, <2>2 DEF LinkAfter, Invariant, TypeOK
  <2>4. TypeOK'
    <3>1. next' = [next EXCEPT ![n] = next[p], ![p] = n] /\ head' = head
      BY <2>1 DEF LinkAfter
    <3>2. n \in Nodes /\ p \in Nodes /\ lists' \in [Lists -> Seq(Nodes)]
      BY <1>1, <1>3, <2>2
    <3> HIDE DEF s, p
    <3>3. next' \in [Nodes -> Nodes \cup {Null, Stray}]
      BY <3>1, <3>2 DEF Invariant, TypeOK
    <3> QED BY <3>1, <3>2, <3>3 DEF Invariant, TypeOK
  <2>5. ASSUME NEW m \in Lists PROVE Chain(head'[m], next', lists'[m], built'[m])
    <3>1. /\ \A j \in 1..Len(lists[m]) : ~(m = l /\ j = i - 1) =>
                next'[lists[m][j]] = next[lists[m][j]]
          /\ built'[m] = built[m]
      <4>1. ASSUME NEW j \in 1..Len(lists[m]), ~(m = l /\ j = i - 1)
            PROVE  lists[m][j] # p
        BY <2>1, <4>1 DEF Invariant, NodesOnce
      <4> QED BY <1>1, <2>3, <4>1
    <3>2. CASE m = l
      <4>1. Chain(head[l], next', With(s, i, n), built[l])
        <5>1. /\ s \in Seq(Nodes) /\ n \in Nodes /\ i \in 2..(Len(s) + 1)
              /\ Chain(head[l], next, s, built[l])
              /\ next'[n] = next[s[i - 1]] /\ next'[s[i - 1]] = n
              /\ \A j \in 1..Len(s) : j # i - 1 => next'[s[j]] = next[s[j]]
          BY <1>1, <1>4, <2>1, <2>3, <3>1, <3>2
        <5> HIDE DEF s
        <5> QED BY <5>1, ChainWithAfter
      <4> QED BY <1>3, <2>3, <3>1, <3>2, <4>1 DEF t
    <3>3. CASE m # l
      BY <1>1, <1>3, <1>4, <2>3, <3>1, <3>3, ChainElsewhere
    <3> QED BY <3>2, <3>3
  <2> QED BY <1>5, <2>4, <2>5 DEF Invariant, Linked, Chain, BuiltByKind
<1> QED BY <1>6, <1>7

(* Taking out the node at i: every chain stays a chain, that of l without  *)
(* it, although the node still points into the list.                       *)
LEMMA UnlinkKeepsInvariant ==
  ASSUME Invariant, NEW l \in Lists, NEW i \in 1..Len(lists[l]),
         IF i = 1
         THEN head' = [head EXCEPT ![l] = next[lists[l][i]]] /\ UNCHANGED next
         ELSE next' = [next EXCEPT ![lists[l][i - 1]] = next[lists[l][i]]] /\ UNCHANGED head,
         lists' = [lists EXCEPT ![l] = Without(lists[l], i)],
         UNCHANGED <<kind, built, status>>
  PROVE  Invariant'
<1> DEFINE s == lists[l]
           t == Without(s, i)
<1>1. /\ s \in Seq(Nodes) /\ Len(s) \in Nat /\ s # <<>>
      /\ \A m \in Lists : lists[m] \in Seq(Nodes)
      /\ \A m \in Lists : \A j \in 1..Len(lists[m]) : lists[m][j] \in Nodes
  BY DEF Invariant, TypeOK
<1>2. /\ t \in Seq(Nodes) /\ Len(t) = Len(s) - 1
      /\ \A j \in 1..(Len(s) - 1) : t[j] = IF j < i THEN s[j] ELSE s[j + 1]
  <2>1. s \in Seq(Nodes) /\ i \in 1..Len(s)
    BY <1>1
  <2> HIDE DEF s
  <2> QED BY <2>1, WithoutIsSeq
<1>3. /\ lists'[l] = t
      /\ \A m \in Lists : m # l => lists'[m] = lists[m]
      /\ lists' \in [Lists -> Seq(Nodes)]
  BY <1>2 DEF Invariant, TypeOK
<1> HIDE DEF t
<1>4. \A m \in Lists : Chain(head[m], next, lists[m], built[m])
  BY ChainIsLinked DEF Invariant
<1>5. NodesOnce'
  <2> SUFFICES ASSUME NEW m \in Lists, NEW k \in Lists,
                      NEW j \in 1..Len(lists'[m]), NEW o \in 1..Len(lists'[k]),
                      lists'[m][j] = lists'[k][o]
               PROVE  m = k /\ j = o
    BY DEF NodesOnce
  <2> DEFINE place(q, p) == IF q # l \/ p < i THEN p ELSE p + 1
  <2>1. ASSUME NEW q \in Lists, NEW p \in 1..Len(lists'[q])
        PROVE  place(q, p) \in 1..Len(lists[q]) /\ lists'[q][p] = lists[q][place(q, p)]
    <3>1. CASE q # l
      BY <1>1, <1>3, <2>1, <3>1
    <3>2. CASE q = l
      <4>1. p \in 1..(Len(s) - 1) /\ lists'[q][p] = t[p]
        BY <1>2, <1>3, <2>1, <3>2
      <4>2. CASE p < i
        <5>1. t[p] = s[p] /\ p \in 1..Len(s)
          BY <1>1, <1>2, <4>1, <4>2
        <5> QED BY <3>2, <4>1, <4>2, <5>1
      <4>3. CASE ~(p < i)
        <5>1. p + 1 \in 1..Len(s)
          BY <1>1, <4>1
        <5> HIDE DEF s
        <5>2. t[p] = s[p + 1]
          BY <1>2, <4>1, <4>3
        <5>3. place(q, p) = p + 1
          BY <3>2, <4>3
        <5>4. lists[q] = s /\ lists'[q][p] = s[p + 1]
          BY <3>2, <4>1, <5>2 DEF s
        <5> HIDE DEF place
        <5> QED BY <5>1, <5>3, <5>4
      <4> QED BY <4>2, <4>3
    <3> QED BY <3>1, <3>2
  <2>2. m = k /\ place(m, j) = place(k, o)
    <3>1. /\ place(m, j) \in 1..Len(lists[m]) /\ place(k, o) \in 1..Len(lists[k])
          /\ lists[m][place(m, j)] = lists[k][place(k, o)]
      <4> HIDE DEF place
      <4> QED BY <2>1
    <3>2. \A x \in 1..Len(lists[m]), y \in 1..Len(lists[k]) :
            lists[m][x] = lists[k][y] => m = k /\ x = y
      <4>1. NodesOnce
        BY DEF Invariant
      <4> QED BY <4>1 DEF NodesOnce
    <3> HIDE DEF place
    <3> QED BY <3>1, <3>2
  <2>3. j \in Int /\ o \in Int
    OBVIOUS
  <2> QED BY <2>2, <2>3
<1>6. CASE i = 1
  <2>1. /\ head'[l] = next[s[1]] /\ \A m \in Lists : m # l => head'[m] = head[m]
        /\ next' = next
    BY <1>6 DEF Invariant, TypeOK
  <2>2. TypeOK'
    <3>1. head' = [head EXCEPT ![l] = next[s[1]]] /\ next' = next
      BY <1>6
    <3>2. /\ next[s[1]] \in Nodes \cup {Null, Stray}
          /\ lists' \in [Lists -> Seq(Nodes)]
      BY <1>1, <1>3 DEF Invariant, TypeOK
    <3> HIDE DEF s
    <3>3. head' \in [Lists -> Nodes \cup {Null, Stray}]
      BY <3>1, <3>2 DEF Invariant, TypeOK
    <3> QED BY <3>1, <3>2, <3>3 DEF Invariant, TypeOK
  <2>3. ASSUME NEW m \in Lists PROVE Chain(head'[m], next', lists'[m], built'[m])
    <3>1. CASE m = l
      <4>1. Chain(next[s[1]], next, Without(s, 1), built[l])
        <5>1. s \in Seq(Nodes) /\ s # <<>> /\ Chain(head[l], next, s, built[l])
          BY <1>1, <1>4
        <5> HIDE DEF s
        <5> QED BY <5>1, ChainWithoutFirst
      <4> QED BY <1>3, <1>6, <2>1, <3>1, <4>1 DEF t
    <3>2. CASE m # l
      <4>1. /\ head'[m] = head[m] /\ next' = next /\ lists'[m] = lists[m]
            /\ built'[m] = built[m] /\ Chain(head[m], next, lists[m], built[m])
        BY <1>3, <1>4, <2>1, <3>2
      <4> QED BY <4>1
    <3> QED BY <3>1, <3>2
  <2> QED BY <1>5, <2>2, <2>3 DEF Invariant, Linked, Chain, BuiltByKind
<1>7. CASE i # 1
  <2> DEFINE p == s[i - 1]
  <2>1. /\ i \in 2..Len(s) /\ i - 1 \in 1..Len(s) /\ i \in 1..Len(s)
        /\ p \in Nodes /\ s[i] \in Nodes
    BY <1>1, <1>7
  <2>2. /\ next'[p] = next[s[i]]
        /\ \A k \in Nodes : k # p => next'[k] = next[k]
        /\ head' = head
    BY <1>7, <2>1 DEF Invariant, TypeOK
  <2>3. TypeOK'
    <3>1. next' = [next EXCEPT ![p] = next[s[i]]] /\ UNCHANGED <<kind, built, status>>
      BY <1>7
    <3>2. next[s[i]] \in Nodes \cup {Null, Stray}
      BY <2>1 DEF Invariant, TypeOK
    <3> HIDE DEF s, p
    <3>3. next' \in [Nodes -> Nodes \cup {Null, Stray}]
      BY <3>1, <3>2 DEF Invariant, TypeOK
    <3>4. lists' \in [Lists -> Seq(Nodes)]
      BY <1>3
    <3> QED BY <2>2, <3>1, <3>3, <3>4 DEF Invariant, TypeOK
  <2>4. ASSUME NEW m \in Lists PROVE Chain(head'[m], next', lists'[m], built'[m])
    <3>1. /\ \A j \in 1..Len(lists[m]) : ~(m = l /\ j = i - 1) =>
                next'[lists[m][j]] = next[lists[m][j]]
          /\ built'[m] = built[m]
      <4>1. ASSUME NEW j \in 1..Len(lists[m]), ~(m = l /\ j = i - 1)
            PROVE  lists[m][j] # p
        BY <2>1, <4>1 DEF Invariant, NodesOnce
      <4> QED BY <1>1, <2>2, <4>1
    <3>2. CASE m = l
      <4>1. Chain(head[l], next', Without(s, i), built[l])
        <5>1. /\ s \in Seq(Nodes) /\ i \in 2..Len(s)
              /\ Chain(head[l], next, s, built[l])
              /\ next'[s[i - 1]] = next[s[i]]
              /\ \A j \in 1..Len(s) : j # i - 1 => next'[s[j]] = next[s[j]]
          BY <1>1, <1>4, <2>1, <2>2, <3>1, <3>2
        <5> HIDE DEF s
        <5> QED BY <5>1, ChainWithoutAfter
      <4> QED BY <1>3, <2>2, <3>1, <3>2, <4>1 DEF t
    <3>3. CASE m # l
      BY <1>1, <1>3, <1>4, <2>2, <3>1, <3>3, ChainElsewhere
    <3> QED BY <3>2, <3>3
  <2> QED BY <1>5, <2>3, <2>4 DEF Invariant, Linked, Chain, BuiltByKind
<1> QED BY <1>6, <1>7

-----------------------------------------------------------------------------
LEMMA InitInvariant == Init => Invariant
<1> SUFFICES ASSUME Init PROVE Invariant
  OBVIOUS
<1>1. /\ kind \in {"StackLinkedList", "SinglyLinkedList"}
      /\ built \in [Lists -> {Null, Stray}]
      /\ next \in [Nodes -> Nodes \cup {Null, Stray}]
  BY DEF Init, BuildStack, BuildSingly
<1>2. head = built /\ lists = [l \in Lists |-> <<>>] /\ status = "running"
  BY DEF Init
<1>3. \A l \in Lists : lists[l] = <<>> /\ 1..Len(lists[l]) = {}
  <2>1. \A l \in Lists : lists[l] = <<>>
    BY <1>2
  <2>2. 1..Len(<<>>) = {}
    OBVIOUS
  <2> QED BY <2>1, <2>2
<1>4. TypeOK
  BY <1>1, <1>2 DEF TypeOK
<1>5. NodesOnce
  BY <1>3 DEF NodesOnce
<1>6. Linked
  BY <1>2, <1>3 DEF Linked
<1>7. BuiltByKind
  BY DEF BuiltByKind, Init, BuildStack, BuildSingly
<1> QED BY <1>4, <1>5, <1>6, <1>7 DEF Invariant

LEMMA PopKeepsInvariant ==
  ASSUME Invariant, NEW l \in Lists, Pop(l)
  PROVE  Invariant'
<1>1. /\ kind = "StackLinkedList" /\ lists' = [lists EXCEPT ![l] = Without(lists[l], 1)]
      /\ UNCHANGED <<kind, built, next, status>>
      /\ head' = [head EXCEPT ![l] = IF head[l] = Null THEN Null ELSE next[head[l]]]
  BY DEF Pop
<1>2. /\ lists[l] \in Seq(Nodes) /\ Len(lists[l]) \in Nat
      /\ head[l] = IF lists[l] = <<>> THEN built[l] ELSE lists[l][1]
  BY DEF Invariant, TypeOK, Linked
<1>3. CASE lists[l] = <<>>
  <2>1. lists' = lists
    BY <1>1, <1>3, WithoutEmpty DEF Invariant, TypeOK
  <2>2. built[l] = Null
    BY <1>1 DEF Invariant, BuiltByKind
  <2>3. head' = head
    BY <1>1, <1>2, <1>3, <2>2 DEF Invariant, TypeOK
  <2> QED BY <1>1, <2>1, <2>3 DEF Invariant, TypeOK, NodesOnce, Linked, BuiltByKind
<1>4. CASE lists[l] # <<>>
  <2>1. 1 \in 1..Len(lists[l]) /\ head[l] = lists[l][1] /\ lists[l][1] \in Nodes
    BY <1>2, <1>4
  <2>2. head' = [head EXCEPT ![l] = next[lists[l][1]]]
    BY <1>1, <2>1, ListsAssumption
  <2> QED BY <1>1, <2>1, <2>2, UnlinkKeepsInvariant
<1> QED BY <1>3, <1>4

LEMMA NextInvariant == Invariant /\ [Next]_vars => Invariant'
<1> SUFFICES ASSUME Invariant, [Next]_vars PROVE Invariant'
  OBVIOUS
<1>1. ASSUME NEW l \in Lists, NEW n \in Loose, Push(l, n) PROVE Invariant'
  <2>1. 1 \in 1..(Len(lists[l]) + 1)
    BY DEF Invariant, TypeOK
  <2> QED BY <1>1, <2>1, LinkKeepsInvariant DEF Push
<1>2. ASSUME NEW l \in Lists, Pop(l) PROVE Invariant'
  BY <1>2, PopKeepsInvariant
<1>3. ASSUME NEW l \in Lists, RemoveStray(l) PROVE Invariant'
  BY <1>3 DEF RemoveStray, Invariant, TypeOK, NodesOnce, Linked, BuiltByKind
<1>4. ASSUME NEW l \in Lists, NEW n \in Loose, NEW i \in 1..(Len(lists[l]) + 1),
             Insert(l, i, n)
      PROVE  Invariant'
  BY <1>4, LinkKeepsInvariant DEF Insert
<1>5. ASSUME NEW l \in Lists, NEW i \in 1..Len(lists[l]), Remove(l, i)
      PROVE  Invariant'
  BY <1>5, UnlinkKeepsInvariant DEF Remove
<1>6. CASE UNCHANGED vars
  BY <1>6 DEF vars, Invariant, TypeOK, NodesOnce, Linked, BuiltByKind
<1> QED BY <1>1, <1>2, <1>3, <1>4, <1>5, <1>6 DEF Next, Stopped

(* Push, pop, insert and remove leave every list linked as its calls say,  *)
(* and ending at what its head was when it was built.                      *)
THEOREM ListsStayLinked == Spec => []Linked
<1>1. Invariant => Linked
  BY DEF Invariant
<1> QED BY <1>1, InitInvariant, NextInvariant, PTL DEF Spec

(* Only a list that was built without a value leads a client astray.       *)
THEOREM StrayNeedsUninitialised == Spec => []StrayOnlyIfBuilt
<1>1. Init => StrayOnlyIfBuilt
  BY DEF Init, StrayOnlyIfBuilt
<1>2. Invariant /\ StrayOnlyIfBuilt /\ [Next]_vars => StrayOnlyIfBuilt'
  <2> SUFFICES ASSUME Invariant, StrayOnlyIfBuilt, [Next]_vars PROVE StrayOnlyIfBuilt'
    OBVIOUS
  <2>1. ASSUME NEW l \in Lists, RemoveStray(l) PROVE StrayOnlyIfBuilt'
    <3>1. head[l] = Stray /\ built' = built
      BY <2>1 DEF RemoveStray
    <3>2. lists[l] # <<>> => lists[l][1] \in Nodes
      BY DEF Invariant, TypeOK
    <3>3. built[l] = Stray
      BY <3>1, <3>2, ListsAssumption DEF Invariant, Linked
    <3> QED BY <3>1, <3>3 DEF StrayOnlyIfBuilt
  <2>2. CASE UNCHANGED <<built, status>>
    BY <2>2 DEF StrayOnlyIfBuilt
  <2> QED BY <2>1, <2>2 DEF Next, Push, Pop, Insert, Remove, Stopped, vars
<1> QED BY <1>1, <1>2, InitInvariant, NextInvariant, PTL DEF Spec

-----------------------------------------------------------------------------
(* CalculatePadding.                                                       *)

(* The first multiple of a behind b.                                       *)
Multiple(b, a) == (b \div a + 1) * a

LEMMA MultipleIsMultiple ==
  ASSUME NEW b \in Nat, NEW a \in 1..256
  PROVE  \E q \in Nat : Multiple(b, a) = q * a
<1>1. b \div a + 1 \in Nat
  OBVIOUS
<1> QED
  BY <1>1 DEF Multiple

(* What is missing to it.                                                  *)
LEMMA MissingBytes ==
  ASSUME NEW b \in Nat, NEW a \in 1..256
  PROVE  /\ Multiple(b, a) \in Nat
         /\ Multiple(b, a) - b = a - (b % a)
         /\ Multiple(b, a) - b \in 1..a
<1>1. b = (b \div a) * a + (b % a) /\ b \div a \in Nat /\ b % a \in 0..(a - 1)
  OBVIOUS
<1>2. (b \div a + 1) * a = (b \div a) * a + a
  BY <1>1
<1>3. Multiple(b, a) - b = a - (b % a)
  BY <1>1, <1>2 DEF Multiple
<1>4. Multiple(b, a) \in Nat
  BY <1>1 DEF Multiple
<1> QED
  BY <1>1, <1>3, <1>4

LEMMA MultipleHasNoRest ==
  ASSUME NEW q \in Nat, NEW a \in 1..256
  PROVE  (q * a) % a = 0
OBVIOUS

(* A number of bytes, cast to char.                                        *)
LEMMA CastToChar ==
  ASSUME NEW m \in 1..256
  PROVE  ((m + 128) % 256) - 128 = IF m < 128 THEN m ELSE m - 256
OBVIOUS

LEMMA PaddingReaches ==
  ASSUME NEW b \in Nat, NEW a \in 1..256
  PROVE  b + CalculatePadding(b, a)
           = IF Multiple(b, a) - b < 128 THEN Multiple(b, a) ELSE Multiple(b, a) - 256
<1> DEFINE m == a - (b % a)
<1>1. /\ Multiple(b, a) \in Nat
      /\ Multiple(b, a) - b = m
      /\ Multiple(b, a) - b \in 1..a
  <2> HIDE DEF m
  <2>1. m = a - (b % a)
    BY DEF m
  <2> QED
    BY <2>1, MissingBytes
<1>2. CalculatePadding(b, a) = ((m + 128) % 256) - 128
  BY DEF CalculatePadding
<1> HIDE DEF m
<1>3. m \in 1..256
  BY <1>1
<1>4. CalculatePadding(b, a) = IF m < 128 THEN m ELSE m - 256
  BY <1>2, <1>3, CastToChar
<1> QED
  BY <1>1, <1>3, <1>4

(* For every address and alignments up to 256, CalculatePadding leads to   *)
(* the next multiple, or 256 bytes short of it where that is 128 bytes     *)
(* away and more, since the char it returns is negative.                   *)
THEOREM PaddingReachesMultiple ==
  ASSUME \A a \in PaddingAlignments : a <= 256
  PROVE  Spec => []PaddingAligns
<1>1. PaddingAligns
  <2>1. ASSUME NEW b \in Addresses, NEW a \in PaddingAlignments
        PROVE  LET multiple == (b \div a + 1) * a
                   reached  == b + CalculatePadding(b, a)
               IN  /\ reached = IF multiple - b < 128 THEN multiple ELSE multiple - 256
                   /\ a < 128 \/ a \in {128, 256} => reached % a = 0
    <3>1. b \in Nat /\ a \in 1..256
      BY ListsAssumption
    <3> DEFINE r == b + CalculatePadding(b, a)
               n == Multiple(b, a)
    <3>2. r = IF n - b < 128 THEN n ELSE n - 256
      BY <3>1, PaddingReaches
    <3>3. n \in Nat /\ n - b \in 1..a
      BY <3>1, MissingBytes
    <3>4. PICK q \in Nat : n = q * a
      BY <3>1, MultipleIsMultiple
    <3> HIDE DEF r, n
    <3>5. a < 128 => r % a = 0
      <4> SUFFICES ASSUME a < 128 PROVE r % a = 0
        OBVIOUS
      <4>1. r = q * a
        BY <3>1, <3>2, <3>3, <3>4
      <4> QED
        BY <3>1, <4>1, MultipleHasNoRest
    <3>6. a = 128 => r % 128 = 0
      BY <3>2, <3>3, <3>4
    <3>7. a = 256 => r % 256 = 0
      BY <3>2, <3>3, <3>4
    <3>8. a < 128 \/ a \in {128, 256} => r % a = 0
      BY <3>5, <3>6, <3>7
    <3> QED
      BY <3>2, <3>8 DEF r, n, Multiple
  <2> QED
    BY <2>1 DEF PaddingAligns
<1> QED
  BY <1>1, PTL
=============================================================================
