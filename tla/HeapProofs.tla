----------------------------- MODULE HeapProofs -----------------------------
(***************************************************************************)
(* Proofs about Heap, for every set of values, either order, any initial   *)
(* capacity and any number of elements.                                    *)
(***************************************************************************)
EXTENDS Heap, Induction, FiniteSetTheorems, TLAPS

\* Index arithmetic: a parent comes before its children, and an index is a
\* child of its parent and of no other.
LEMMA ParentIndex ==
    ASSUME NEW i \in Nat \ {0}
    PROVE  /\ get_parent_idx(i) \in 0..(i - 1)
           /\ i = get_lchild_idx(get_parent_idx(i)) \/ i = get_rchild_idx(get_parent_idx(i))
           /\ get_parent_idx(get_lchild_idx(i)) = i
           /\ get_parent_idx(get_rchild_idx(i)) = i
BY DEF get_parent_idx, get_lchild_idx, get_rchild_idx

LEMMA ChildIndex ==
    ASSUME NEW i \in Nat
    PROVE  /\ get_lchild_idx(i) \in Nat \ {0} /\ get_lchild_idx(i) > i
           /\ get_rchild_idx(i) \in Nat \ {0} /\ get_rchild_idx(i) > i
           /\ get_parent_idx(get_lchild_idx(i)) = i
           /\ get_parent_idx(get_rchild_idx(i)) = i
BY DEF get_parent_idx, get_lchild_idx, get_rchild_idx

\* heap_cond is a strict total order on integers, whichever Type it is for.
LEMMA CondOrder ==
    /\ \A a \in Int : ~heap_cond(a, a)
    /\ \A a, b \in Int : heap_cond(a, b) => ~heap_cond(b, a)
    /\ \A a, b, c \in Int :
          ~heap_cond(a, b) /\ ~heap_cond(b, c) => ~heap_cond(a, c)
BY DEF heap_cond

LEMMA MinChild ==
    ASSUME TypeOK, has_lchild(curr_idx), pc = "adjust_down"
    PROVE  LET m == min_child_idx(curr_idx) IN
           /\ m \in {get_lchild_idx(curr_idx), get_rchild_idx(curr_idx)}
           /\ m \in 1..(size - 1)
           /\ get_parent_idx(m) = curr_idx
           /\ \A i \in 1..(size - 1) :
                 get_parent_idx(i) = curr_idx => ~heap_cond(arr[i], arr[m])
<1> DEFINE l == get_lchild_idx(curr_idx)
           r == get_rchild_idx(curr_idx)
           m == min_child_idx(curr_idx)
<1>1. /\ l \in 1..(size - 1) /\ get_parent_idx(l) = curr_idx
      /\ r \in Nat \ {0} /\ get_parent_idx(r) = curr_idx
      /\ r < size <=> has_rchild(curr_idx)
      /\ size \in Nat /\ capacity \in Nat /\ size <= capacity
  <2>1. size \in Nat /\ capacity \in Nat /\ size <= capacity /\ curr_idx \in Nat
    BY DEF TypeOK
  <2>2. l \in Nat \ {0} /\ r \in Nat \ {0}
        /\ get_parent_idx(l) = curr_idx /\ get_parent_idx(r) = curr_idx
    BY <2>1, ChildIndex
  <2>3. l < size /\ (r < size <=> has_rchild(curr_idx))
    BY DEF has_lchild, has_rchild
  <2>4. QED
    BY <2>1, <2>2, <2>3
<1>2. \A i \in 1..(size - 1) : arr[i] \in Int
  BY <1>1 DEF TypeOK
<1>3. \A i \in 1..(size - 1) : get_parent_idx(i) = curr_idx => i = l \/ i = r
  BY <1>1, ParentIndex
<1>4. CASE has_rchild(curr_idx) /\ heap_cond(arr[r], arr[l])
  <2>1. m = r
    BY <1>4 DEF min_child_idx
  <2>2. r \in 1..(size - 1)
    BY <1>1, <1>4
  <2>3. QED
    BY <1>1, <1>2, <1>3, <1>4, <2>1, <2>2, CondOrder
<1>5. CASE ~(has_rchild(curr_idx) /\ heap_cond(arr[r], arr[l]))
  <2>1. m = l
    BY <1>5 DEF min_child_idx
  <2>2. \A i \in 1..(size - 1) : i = r => has_rchild(curr_idx)
    BY <1>1
  <2>3. QED
    BY <1>1, <1>2, <1>3, <1>5, <2>1, <2>2, CondOrder
<1>6. QED
  BY <1>4, <1>5

---------------------------------------------------------------------------
(* Type correctness.                                                       *)

LEMMA NextType == TypeOK /\ [Next]_vars => TypeOK'
<1> SUFFICES ASSUME TypeOK, [Next]_vars PROVE TypeOK'
  OBVIOUS
<1> USE DEF TypeOK
<1>1. ASSUME NEW value \in Values, push(value) PROVE TypeOK'
  <2>1. value \in Int
    BY HeapAssumption
  <2>2. CASE IsFull
    <3>1. capacity' = 2 * capacity /\ size < capacity' /\ capacity' \in Nat \ {0}
      BY <1>1, <2>2 DEF push, IsFull
    <3>2. increase_heap(arr) \in [0..(capacity' - 1) -> Int]
      BY <3>1 DEF increase_heap
    <3>3. arr' = [increase_heap(arr) EXCEPT ![size] = value]
      BY <1>1, <2>2 DEF push
    <3>4. arr' \in [0..(capacity' - 1) -> Int]
      BY <2>1, <3>1, <3>2, <3>3
    <3>5. QED
      BY <1>1, <3>1, <3>4 DEF push
  <2>3. CASE ~IsFull
    BY <1>1, <2>1, <2>3 DEF push, IsFull
  <2>4. QED
    BY <2>2, <2>3
<1>2. CASE adjust_up
  <2>1. has_parent(curr_idx) => get_parent_idx(curr_idx) \in 0..(curr_idx - 1)
    BY ParentIndex DEF has_parent
  <2>2. QED
    BY <1>2, <2>1 DEF adjust_up, swap
<1>3. CASE pop
  BY <1>3 DEF pop
<1>4. CASE pop_empty
  BY <1>4 DEF pop_empty
<1>5. CASE adjust_down
  <2>1. has_lchild(curr_idx) => min_child_idx(curr_idx) \in 1..(size - 1)
    BY <1>5, MinChild DEF adjust_down
  <2>2. QED
    BY <1>5, <2>1, SMTT(30) DEF adjust_down, swap
<1>6. CASE UNCHANGED vars
  BY <1>6 DEF vars
<1>7. QED
  BY <1>1, <1>2, <1>3, <1>4, <1>5, <1>6 DEF Next

LEMMA InitType == Init => TypeOK
<1> SUFFICES ASSUME Init PROVE TypeOK
  OBVIOUS
<1>1. capacity \in Nat \ {0} /\ capacity = InitCapacity /\ size = 0 /\ curr_idx = 0
  BY HeapAssumption DEF Init
<1>2. arr \in [0..(capacity - 1) -> Junk] /\ Junk \subseteq Int
  BY <1>1, HeapAssumption DEF Init
<1>3. arr \in [0..(capacity - 1) -> Int]
  BY <1>2
<1>4. pc = "idle" /\ ret = -1 /\ ret \in Int
  BY DEF Init
<1>5. QED
  BY <1>1, <1>3, <1>4 DEF TypeOK

\* Every index that push, pop and the adjust loops use is inside the array
\* that is allocated at that moment.
THEOREM IndicesInBounds == Spec => []TypeOK
BY InitType, NextType, PTL DEF Spec

---------------------------------------------------------------------------
(* The heap order.  While an adjust loop runs one place may be out of order *)
(* (above curr_idx going up, below it going down), and around it an element *)
(* stands right with its grandparent, so that one swap moves the place on.  *)

ParentOK(i) == ~heap_cond(arr[i], arr[get_parent_idx(i)])

GrandparentOK(i) ==
    get_parent_idx(i) = curr_idx /\ curr_idx # 0
        => ~heap_cond(arr[i], arr[get_parent_idx(curr_idx)])

OrderInv ==
    \A i \in 1..(size - 1) :
        /\ pc = "idle" => ParentOK(i)
        /\ pc = "adjust_up" => GrandparentOK(i) /\ (i # curr_idx => ParentOK(i))
        /\ pc = "adjust_down" =>
              GrandparentOK(i) /\ (get_parent_idx(i) # curr_idx => ParentOK(i))

IInv == TypeOK /\ OrderInv

LEMMA PushOrder ==
    ASSUME NEW value \in Values, IInv, push(value)
    PROVE  OrderInv'
<1> USE DEF IInv
<1>1. /\ pc = "idle" /\ pc' = "adjust_up" /\ curr_idx' = size /\ size' = size + 1
      /\ size \in Nat /\ capacity \in Nat /\ size <= capacity
  BY DEF push, TypeOK
<1>2. \A i \in 0..(size - 1) : arr'[i] = arr[i]
  BY DEF push, TypeOK, IsFull, increase_heap
<1>3. ASSUME NEW i \in 1..(size' - 1)
      PROVE  GrandparentOK(i)' /\ (i # curr_idx' => ParentOK(i)')
  <2>1. get_parent_idx(i) \in 0..(i - 1)
    BY ParentIndex, <1>1
  <2>2. get_parent_idx(i) # size
    BY <1>1, <2>1
  <2>3. i # size => i \in 1..(size - 1)
    BY <1>1
  <2>4. i # size => ParentOK(i)'
    BY <1>1, <1>2, <2>1, <2>3 DEF OrderInv, ParentOK
  <2>5. QED
    BY <1>1, <2>2, <2>4 DEF GrandparentOK
<1>4. QED
  BY <1>1, <1>3 DEF OrderInv

LEMMA PopOrder ==
    ASSUME IInv, pop
    PROVE  OrderInv'
<1> USE DEF IInv
<1>1. /\ pc = "idle" /\ pc' = "adjust_down" /\ curr_idx' = 0 /\ size' = size - 1
      /\ size \in Nat /\ capacity \in Nat /\ size <= capacity /\ size > 0
      /\ \A i \in 1..(size - 1) : arr'[i] = arr[i]
  BY DEF pop, TypeOK
<1>2. ASSUME NEW i \in 1..(size' - 1)
      PROVE  GrandparentOK(i)' /\ (get_parent_idx(i) # curr_idx' => ParentOK(i)')
  <2>1. i \in 1..(size - 1) /\ get_parent_idx(i) \in 0..(i - 1)
    BY ParentIndex, <1>1
  <2>2. QED
    BY <1>1, <2>1 DEF OrderInv, ParentOK, GrandparentOK
<1>3. QED
  BY <1>1, <1>2 DEF OrderInv

LEMMA AdjustUpOrder ==
    ASSUME IInv, adjust_up
    PROVE  OrderInv'
<1> USE DEF IInv
<1> DEFINE c == curr_idx
           p == get_parent_idx(curr_idx)
<1>1. /\ pc = "adjust_up" /\ size' = size /\ size \in Nat /\ size <= capacity
      /\ c \in Nat /\ c < size /\ capacity \in Nat
      /\ \A i \in 0..(size - 1) : arr[i] \in Int
  BY DEF adjust_up, TypeOK
<1>2. \A i \in 1..(size - 1) :
         /\ get_parent_idx(i) \in 0..(i - 1)
         /\ GrandparentOK(i) /\ (i # c => ParentOK(i))
  BY <1>1, ParentIndex DEF OrderInv
<1>3. CASE has_parent(c) /\ heap_cond(arr[c], arr[p])
  <2>1. /\ arr' = swap(arr, p, c) /\ curr_idx' = p /\ pc' = "adjust_up"
    BY <1>1, <1>3 DEF adjust_up
  <2>2. c \in 1..(size - 1) /\ p \in 0..(c - 1)
    BY <1>1, <1>2, <1>3 DEF has_parent
  <2>3. /\ arr'[p] = arr[c] /\ arr'[c] = arr[p]
        /\ \A i \in 0..(size - 1) : i # p /\ i # c => arr'[i] = arr[i]
    BY <1>1, <2>1, <2>2 DEF swap, TypeOK
  <2>4. ASSUME NEW i \in 1..(size - 1)
        PROVE  GrandparentOK(i)' /\ (i # p => ParentOK(i)')
    <3> DEFINE q == get_parent_idx(i)
    <3>1. /\ q \in 0..(i - 1)
          /\ i # c => ParentOK(i)
          /\ arr[i] \in Int /\ arr[q] \in Int /\ arr[p] \in Int /\ arr[c] \in Int
      BY <1>1, <1>2, <2>2
    <3>2. i # p => ParentOK(i)'
      <4>1. CASE i = c
        BY <1>3, <2>2, <2>3, <3>1, <4>1, CondOrder DEF ParentOK
      <4>2. CASE i # c /\ i # p /\ q = c
        <5>1. arr'[i] = arr[i] /\ arr'[q] = arr[p]
          BY <2>3, <4>2
        <5>2. ~heap_cond(arr[i], arr[p])
          BY <1>2, <2>2, <4>2 DEF GrandparentOK
        <5>3. QED
          BY <5>1, <5>2 DEF ParentOK, heap_cond
      <4>3. CASE i # c /\ i # p /\ q = p
        <5>1. ~heap_cond(arr[i], arr[p]) /\ ~heap_cond(arr[p], arr[c])
          BY <1>2, <1>3, <3>1, <4>3, CondOrder DEF ParentOK
        <5>2. QED
          BY <2>3, <3>1, <4>3, <5>1, CondOrder DEF ParentOK
      <4>4. CASE i # c /\ i # p /\ q # c /\ q # p
        <5>1. arr'[i] = arr[i]
          BY <2>3, <4>4
        <5>2. q \in 0..(size - 1)
          BY <1>1, <3>1
        <5>3. arr'[q] = arr[q]
          BY <2>3, <4>4, <5>2
        <5>4. ~heap_cond(arr[i], arr[q])
          BY <1>2, <4>4 DEF ParentOK
        <5>5. QED
          BY <5>1, <5>3, <5>4 DEF ParentOK, heap_cond
      <4>5. QED
        BY <4>1, <4>2, <4>3, <4>4
    <3>3. GrandparentOK(i)'
      <4>1. SUFFICES ASSUME q = p, p # 0
                     PROVE  ~heap_cond(arr'[i], arr'[get_parent_idx(p)])
        BY <2>1 DEF GrandparentOK
      <4>2. p \in 1..(size - 1) /\ get_parent_idx(p) \in 0..(p - 1) /\ p # c
        <5>1. p \in 1..(size - 1) /\ p # c
          BY <1>1, <2>2, <4>1
        <5>2. QED
          BY <1>2, <5>1
      <4>3. /\ arr'[get_parent_idx(p)] = arr[get_parent_idx(p)]
            /\ arr[get_parent_idx(p)] \in Int
            /\ ~heap_cond(arr[p], arr[get_parent_idx(p)])
        BY <1>1, <1>2, <2>2, <2>3, <4>2 DEF ParentOK
      <4>4. CASE i = c
        BY <2>3, <4>3, <4>4
      <4>5. CASE i # c
        <5>1. ~heap_cond(arr[i], arr[p]) /\ arr'[i] = arr[i]
          BY <1>2, <2>3, <3>1, <4>1, <4>5 DEF ParentOK
        <5>2. QED
          BY <3>1, <4>3, <5>1, CondOrder
      <4>6. QED
        BY <4>4, <4>5
    <3>4. QED
      BY <3>2, <3>3
  <2>5. QED
    BY <1>1, <2>1, <2>4 DEF OrderInv
<1>4. CASE ~(has_parent(c) /\ heap_cond(arr[c], arr[p]))
  <2>1. pc' = "idle" /\ arr' = arr
    BY <1>4 DEF adjust_up
  <2>2. ASSUME NEW i \in 1..(size - 1) PROVE ParentOK(i)
    BY <1>2, <1>4, <2>2 DEF ParentOK, has_parent
  <2>3. QED
    BY <1>1, <2>1, <2>2 DEF OrderInv, ParentOK
<1>5. QED
  BY <1>3, <1>4

LEMMA AdjustDownOrder ==
    ASSUME IInv, adjust_down
    PROVE  OrderInv'
<1> USE DEF IInv
<1> DEFINE c == curr_idx
           m == min_child_idx(curr_idx)
<1>1. /\ pc = "adjust_down" /\ size' = size /\ size \in Nat /\ size <= capacity
      /\ c \in Nat /\ capacity \in Nat
      /\ \A i \in 0..(size - 1) : arr[i] \in Int
  BY DEF adjust_down, TypeOK
<1>2. \A i \in 1..(size - 1) :
         /\ get_parent_idx(i) \in 0..(i - 1)
         /\ GrandparentOK(i) /\ (get_parent_idx(i) # c => ParentOK(i))
  BY <1>1, ParentIndex DEF OrderInv
<1>3. CASE has_lchild(c) /\ heap_cond(arr[m], arr[c])
  <2>1. arr' = swap(arr, m, c) /\ curr_idx' = m /\ pc' = "adjust_down"
    BY <1>1, <1>3 DEF adjust_down
  <2>2. /\ m \in 1..(size - 1) /\ get_parent_idx(m) = c /\ c \in 0..(m - 1)
        /\ \A i \in 1..(size - 1) :
              get_parent_idx(i) = c => ~heap_cond(arr[i], arr[m])
    BY <1>1, <1>2, <1>3, MinChild
  <2>3. /\ arr'[m] = arr[c] /\ arr'[c] = arr[m]
        /\ \A i \in 0..(size - 1) : i # m /\ i # c => arr'[i] = arr[i]
    BY <1>1, <2>1, <2>2 DEF swap, TypeOK
  <2>4. ASSUME NEW i \in 1..(size - 1)
        PROVE  GrandparentOK(i)' /\ (get_parent_idx(i) # m => ParentOK(i)')
    <3> DEFINE q == get_parent_idx(i)
    <3>1. /\ q \in 0..(i - 1)
          /\ arr[i] \in Int /\ arr[q] \in Int /\ arr[m] \in Int /\ arr[c] \in Int
      BY <1>1, <1>2, <2>2
    <3>2. q # m => ParentOK(i)'
      <4>1. CASE q = c /\ i = m
        <5>1. ~heap_cond(arr[c], arr[m])
          BY <1>3, <3>1, CondOrder
        <5>2. arr'[i] = arr[c] /\ arr'[q] = arr[m]
          BY <2>3, <4>1
        <5>3. QED
          BY <5>1, <5>2 DEF ParentOK, heap_cond
      <4>2. CASE q = c /\ i # m
        <5>1. i # c
          BY <3>1, <4>2
        <5>2. arr'[i] = arr[i] /\ arr'[q] = arr[m]
          BY <2>3, <4>2, <5>1
        <5>3. ~heap_cond(arr[i], arr[m])
          BY <2>2, <4>2
        <5>4. QED
          BY <5>2, <5>3 DEF ParentOK, heap_cond
      <4>3. CASE q # c /\ q # m /\ i = c
        <5>1. c # 0 /\ GrandparentOK(m)
          BY <1>2, <2>2, <4>3
        <5>2. ~heap_cond(arr[m], arr[q])
          BY <2>2, <4>3, <5>1 DEF GrandparentOK
        <5>3. arr'[i] = arr[m] /\ arr'[q] = arr[q]
          BY <1>1, <2>3, <3>1, <4>3
        <5>4. QED
          BY <5>2, <5>3 DEF ParentOK, heap_cond
      <4>4. CASE q # c /\ q # m /\ i # c
        <5>1. i # m
          BY <2>2, <4>4
        <5>2. arr'[i] = arr[i] /\ arr'[q] = arr[q]
          BY <1>1, <2>3, <3>1, <4>4, <5>1
        <5>3. ~heap_cond(arr[i], arr[q])
          BY <1>2, <4>4 DEF ParentOK
        <5>4. QED
          BY <5>2, <5>3 DEF ParentOK, heap_cond
      <4>5. QED
        BY <4>1, <4>2, <4>3, <4>4
    <3>3. GrandparentOK(i)'
      <4>1. SUFFICES ASSUME q = m PROVE ~heap_cond(arr'[i], arr'[c])
        BY <2>1, <2>2 DEF GrandparentOK
      <4>2. i # m /\ i # c /\ ParentOK(i)
        BY <1>2, <2>2, <3>1, <4>1
      <4>3. QED
        BY <2>3, <4>1, <4>2 DEF ParentOK
    <3>4. QED
      BY <3>2, <3>3
  <2>5. QED
    BY <1>1, <2>1, <2>4 DEF OrderInv
<1>4. CASE ~(has_lchild(c) /\ heap_cond(arr[m], arr[c]))
  <2>1. pc' = "idle" /\ arr' = arr
    BY <1>4 DEF adjust_down
  <2>2. ASSUME NEW i \in 1..(size - 1) PROVE ParentOK(i)
    <3>1. CASE get_parent_idx(i) # c
      BY <1>2, <3>1
    <3>2. CASE get_parent_idx(i) = c
      <4>1. has_lchild(c)
        <5>1. i = get_lchild_idx(c) \/ i = get_rchild_idx(c)
          BY <3>2, ParentIndex
        <5>2. i < size
          BY <1>1
        <5>3. QED
          BY <1>1, <5>1, <5>2 DEF has_lchild, get_lchild_idx, get_rchild_idx
      <4>2. m \in 1..(size - 1) /\ ~heap_cond(arr[i], arr[m]) /\ c \in 0..(size - 1)
        BY <1>1, <1>2, <3>2, <4>1, MinChild
      <4>3. ~heap_cond(arr[m], arr[c])
        BY <1>4, <4>1
      <4>4. QED
        BY <1>1, <3>2, <4>2, <4>3, CondOrder DEF ParentOK
    <3>3. QED
      BY <3>1, <3>2
  <2>3. QED
    BY <1>1, <2>1, <2>2 DEF OrderInv, ParentOK
<1>5. QED
  BY <1>3, <1>4

LEMMA NextOrder == IInv /\ [Next]_vars => IInv'
<1> SUFFICES ASSUME IInv, [Next]_vars PROVE IInv'
  OBVIOUS
<1>1. TypeOK'
  BY NextType DEF IInv
<1>2. ASSUME pop_empty \/ UNCHANGED vars PROVE OrderInv'
  BY <1>2 DEF pop_empty, vars, IInv, OrderInv, ParentOK, GrandparentOK
<1>3. QED
  BY <1>1, <1>2, PushOrder, PopOrder, AdjustUpOrder, AdjustDownOrder
     DEF Next, IInv

\* After any sequence of pushes and pops no element comes before its parent,
\* for heaps of any size and through every reallocation of the array.
THEOREM HeapOrdered == Spec => []HeapOrder
<1>1. Init => IInv
  <2>1. Init => OrderInv
    BY DEF Init, OrderInv
  <2>2. QED
    BY <2>1, InitType DEF IInv
<1>2. IInv => HeapOrder
  BY DEF IInv, OrderInv, HeapOrder, InOrder, ParentOK, get_parent_idx
<1>3. QED
  BY <1>1, <1>2, NextOrder, PTL DEF Spec

---------------------------------------------------------------------------
(* The heap implements PriorityQueue.  The bag is counted in the cells      *)
(* below size; a swap keeps it, and the root comes before everything.       *)

\* The cells below n of a that hold v.
Cells(a, n, v) == {i \in 0..(n - 1) : a[i] = v}

LEMMA CellsFinite ==
    ASSUME NEW a, NEW n \in Nat, NEW v
    PROVE  IsFiniteSet(Cells(a, n, v)) /\ Cardinality(Cells(a, n, v)) \in Nat
<1>1. IsFiniteSet(0..(n - 1))
  BY FS_Interval
<1>2. Cells(a, n, v) \in SUBSET (0..(n - 1))
  BY DEF Cells
<1>3. IsFiniteSet(Cells(a, n, v))
  BY <1>1, <1>2, FS_Subset
<1>4. QED
  BY <1>3, FS_CardinalityType

LEMMA CountIsCells ==
    ASSUME NEW v
    PROVE  Count(v) = Cardinality(Cells(arr, size, v))
BY DEF Count, Cells

\* Moving one cell of a set elsewhere keeps the number of its elements.
LEMMA MoveOne ==
    ASSUME NEW S, NEW i \in S, NEW j, j \notin S, IsFiniteSet(S)
    PROVE  Cardinality((S \ {i}) \cup {j}) = Cardinality(S)
<1>1. IsFiniteSet(S \ {i}) /\ Cardinality(S \ {i}) = Cardinality(S) - 1
  BY FS_RemoveElement
<1>2. Cardinality((S \ {i}) \cup {j}) = Cardinality(S \ {i}) + 1
  BY <1>1, FS_AddElement
<1>3. Cardinality(S) \in Nat
  BY FS_CardinalityType
<1>4. QED
  BY <1>1, <1>2, <1>3

\* A swap below n keeps how many cells hold a value.
LEMMA SwapCount ==
    ASSUME NEW m \in Nat, NEW a \in [0..(m - 1) -> Int], NEW n \in 0..m,
           NEW i \in 0..(n - 1), NEW j \in 0..(n - 1), NEW v
    PROVE  Cardinality(Cells(swap(a, i, j), n, v)) = Cardinality(Cells(a, n, v))
<1> DEFINE b == swap(a, i, j)
           A == Cells(a, n, v)
           B == Cells(b, n, v)
<1>1. \A k \in 0..(n - 1) : b[k] = IF k = i THEN a[j] ELSE IF k = j THEN a[i] ELSE a[k]
  BY DEF swap
<1>2. IsFiniteSet(A)
  BY CellsFinite
<1>3. \A k : k \in A <=> k \in 0..(n - 1) /\ a[k] = v
  BY DEF Cells
<1>4. \A k : k \in B <=> k \in 0..(n - 1) /\ b[k] = v
  BY DEF Cells
<1> HIDE DEF b, A, B
<1>5. CASE a[i] = a[j]
  <2>1. A = B
    BY <1>1, <1>3, <1>4, <1>5
  <2>2. QED
    BY <2>1 DEF A, B, b
<1>6. CASE a[i] # a[j] /\ a[i] = v
  <2>1. i \in A /\ j \notin A
    BY <1>3, <1>6
  <2>2. \A k : k \in B <=> k \in (A \ {i}) \cup {j}
    BY <1>1, <1>3, <1>4, <1>6
  <2>3. B = (A \ {i}) \cup {j}
    BY <2>2
  <2>4. QED
    BY <1>2, <2>1, <2>3, MoveOne DEF A, B, b
<1>7. CASE a[i] # a[j] /\ a[j] = v
  <2>1. j \in A /\ i \notin A
    BY <1>3, <1>7
  <2>2. \A k : k \in B <=> k \in (A \ {j}) \cup {i}
    BY <1>1, <1>3, <1>4, <1>7
  <2>3. B = (A \ {j}) \cup {i}
    BY <2>2
  <2>4. QED
    BY <1>2, <2>1, <2>3, MoveOne DEF A, B, b
<1>8. CASE a[i] # a[j] /\ a[i] # v /\ a[j] # v
  <2>1. A = B
    BY <1>1, <1>3, <1>4, <1>8
  <2>2. QED
    BY <2>1 DEF A, B, b
<1>9. QED
  BY <1>5, <1>6, <1>7, <1>8

\* In a heap that is in order no element comes before the root.
LEMMA RootFirst ==
    ASSUME IInv, pc = "idle", NEW i \in 0..(size - 1)
    PROVE  ~heap_cond(arr[i], arr[0])
<1> DEFINE Bad == {k \in Nat : k < size /\ heap_cond(arr[k], arr[0])}
<1>1. size \in Nat /\ \A k \in 0..(size - 1) : arr[k] \in Int
  BY DEF IInv, TypeOK
<1>2. SUFFICES ASSUME Bad # {} PROVE FALSE
  BY <1>1
<1>3. Bad \subseteq Nat
  OBVIOUS
<1>4. PICK k \in Bad : \A l \in Bad : k <= l
  BY <1>2, <1>3, LeastNumber
<1>5. k \in 1..(size - 1)
  BY <1>1, <1>4, CondOrder
<1>6. get_parent_idx(k) \in 0..(k - 1) /\ ParentOK(k)
  BY <1>5, ParentIndex DEF IInv, OrderInv
<1>7. ~heap_cond(arr[get_parent_idx(k)], arr[0])
  BY <1>1, <1>4, <1>5, <1>6
<1>8. ~heap_cond(arr[k], arr[0])
  BY <1>1, <1>5, <1>6, <1>7, CondOrder DEF ParentOK
<1>9. QED
  BY <1>4, <1>8

\* Only pushed values are below size, whatever was in the cells before.
Stored == \A i \in 0..(size - 1) : arr[i] \in Values

QueueInv == IInv /\ Stored

Bag == [v \in Values |-> Count(v)]

\* One iteration of an adjust loop swaps two cells below size, or ends it.
LEMMA AdjustSwaps ==
    ASSUME TypeOK, adjust_up \/ adjust_down
    PROVE  /\ UNCHANGED <<size, ret>>
           /\ \/ arr' = arr
              \/ \E i, j \in 0..(size - 1) : arr' = swap(arr, i, j)
<1>1. size \in Nat /\ curr_idx \in Nat
  BY DEF TypeOK
<1>2. CASE adjust_up
  <2>1. pc = "adjust_up" /\ curr_idx \in 0..(size - 1)
    BY <1>1, <1>2 DEF adjust_up, TypeOK
  <2>2. ASSUME has_parent(curr_idx)
        PROVE  get_parent_idx(curr_idx) \in 0..(size - 1)
    <3>1. curr_idx \in Nat \ {0}
      BY <1>1, <2>2 DEF has_parent
    <3>2. get_parent_idx(curr_idx) \in 0..(curr_idx - 1)
      BY <3>1, ParentIndex
    <3>3. QED
      BY <1>1, <2>1, <3>2
  <2>3. QED
    BY <1>2, <2>1, <2>2 DEF adjust_up
<1>3. CASE adjust_down
  <2>1. pc = "adjust_down"
    BY <1>3 DEF adjust_down
  <2>2. ASSUME has_lchild(curr_idx)
        PROVE  min_child_idx(curr_idx) \in 0..(size - 1) /\ curr_idx \in 0..(size - 1)
    <3>1. min_child_idx(curr_idx) \in 1..(size - 1)
      BY <2>1, <2>2, MinChild
    <3>2. curr_idx < size
      BY <1>1, <2>2, ChildIndex DEF has_lchild
    <3>3. QED
      BY <1>1, <3>1, <3>2
  <2>3. QED
    BY <1>3, <2>2 DEF adjust_down
<1>4. QED
  BY <1>2, <1>3

LEMMA SwapKeepsBag ==
    ASSUME TypeOK, NEW i \in 0..(size - 1), NEW j \in 0..(size - 1), Stored,
           arr' = swap(arr, i, j), size' = size
    PROVE  Bag' = Bag /\ Stored'
<1>1. capacity \in Nat /\ arr \in [0..(capacity - 1) -> Int] /\ size \in 0..capacity
  BY DEF TypeOK
<1>2. ASSUME NEW v \in Values PROVE Count(v)' = Count(v)
  <2>1. Cardinality(Cells(arr', size', v)) = Cardinality(Cells(arr, size, v))
    BY <1>1, SwapCount
  <2>2. QED
    BY <2>1 DEF Count, Cells
<1>3. Stored'
  BY <1>1 DEF Stored, swap
<1>4. QED
  BY <1>2, <1>3 DEF Bag

\* push adds one of the pushed value.
LEMMA PushAdds ==
    ASSUME QueueInv, NEW value \in Values, push(value)
    PROVE  Stored' /\ Queue!Push(value)
<1>1. /\ size \in Nat /\ capacity \in Nat /\ size <= capacity /\ size' = size + 1
      /\ ret' = ret
  BY DEF QueueInv, IInv, TypeOK, push
<1>2. arr'[size] = value /\ \A i \in 0..(size - 1) : arr'[i] = arr[i]
  BY DEF QueueInv, IInv, TypeOK, push, IsFull, increase_heap
<1>3. ASSUME NEW v \in Values
      PROVE  Count(v)' = IF v = value THEN Count(v) + 1 ELSE Count(v)
  <2> DEFINE A == Cells(arr, size, v)
             B == Cells(arr', size', v)
  <2>1. \A k : k \in A <=> k \in 0..(size - 1) /\ arr[k] = v
    BY DEF Cells
  <2>2. \A k : k \in B <=> k \in 0..size /\ arr'[k] = v
    BY <1>1 DEF Cells
  <2>3. IsFiniteSet(A) /\ size \notin A
    BY <1>1, <2>1, CellsFinite
  <2>4. Count(v) = Cardinality(A) /\ Count(v)' = Cardinality(B)
    BY DEF Count, Cells
  <2> HIDE DEF A, B
  <2>5. CASE v = value
    <3>1. \A k : k \in B <=> k \in A \cup {size}
      BY <1>1, <1>2, <2>1, <2>2, <2>5
    <3>2. B = A \cup {size}
      BY <3>1
    <3>3. QED
      BY <2>3, <2>4, <2>5, <3>2, FS_AddElement
  <2>6. CASE v # value
    <3>1. \A k : k \in B <=> k \in A
      BY <1>1, <1>2, <2>1, <2>2, <2>6
    <3>2. B = A
      BY <3>1
    <3>3. QED
      BY <2>4, <2>6, <3>2
  <2>7. QED
    BY <2>5, <2>6
<1>4. Stored'
  BY <1>1, <1>2 DEF QueueInv, Stored
<1>5. Bag' = [Bag EXCEPT ![value] = @ + 1]
  BY <1>3 DEF Bag
<1>6. QED
  BY <1>1, <1>4, <1>5 DEF Queue!Push, Bag

\* pop takes out one of the root's value, which no other comes before.
LEMMA PopTakes ==
    ASSUME QueueInv, pop
    PROVE  Stored' /\ \E v \in Values : Queue!Pop(v)
<1>1. /\ pc = "idle" /\ size \in Nat \ {0} /\ capacity \in Nat /\ size \in 0..capacity
      /\ arr \in [0..(capacity - 1) -> Int] /\ size' = size - 1
      /\ arr' = [arr EXCEPT ![0] = arr[size - 1]] /\ ret' = arr[0]
  BY DEF QueueInv, IInv, TypeOK, pop
<1> DEFINE x == arr[0]
           s == swap(arr, 0, size - 1)
<1>2. x \in Values
  BY <1>1 DEF QueueInv, Stored
<1>3. s[size - 1] = x /\ \A i \in 0..(size - 2) : s[i] = arr'[i]
  BY <1>1 DEF swap
<1>4. ASSUME NEW v \in Values
      PROVE  /\ Count(v) \in Nat
             /\ Count(v)' = IF v = x THEN Count(v) - 1 ELSE Count(v)
             /\ v = x => Count(v) > 0
  <2> DEFINE A == Cells(s, size, v)
             B == Cells(arr', size', v)
  <2>1. Count(v) = Cardinality(A)
    <3>1. 0 \in 0..(size - 1) /\ size - 1 \in 0..(size - 1)
      BY <1>1
    <3>2. QED
      BY <1>1, <3>1, SwapCount, CountIsCells
  <2>2. Count(v)' = Cardinality(B)
    BY DEF Count, Cells
  <2>3. \A k : k \in A <=> k \in 0..(size - 1) /\ s[k] = v
    BY DEF Cells
  <2>4. \A k : k \in B <=> k \in 0..(size - 2) /\ arr'[k] = v
    BY <1>1 DEF Cells
  <2>5. IsFiniteSet(A) /\ Cardinality(A) \in Nat
    BY <1>1, CellsFinite
  <2> HIDE DEF A, B, s
  <2>6. ASSUME NEW k PROVE k \in B <=> k \in A \ {size - 1}
    <3>1. k \in 0..(size - 2) <=> k \in 0..(size - 1) /\ k # size - 1
      BY <1>1
    <3>2. k \in 0..(size - 2) => s[k] = arr'[k]
      BY <1>3
    <3>3. QED
      BY <2>3, <2>4, <3>1, <3>2, Zenon
  <2>7. B = A \ {size - 1}
    BY <2>6
  <2>8. size - 1 \in A <=> v = x
    BY <1>1, <1>3, <2>3
  <2> HIDE DEF x
  <2>9. Cardinality(B) = IF v = x THEN Cardinality(A) - 1 ELSE Cardinality(A)
    BY <2>5, <2>7, <2>8, FS_RemoveElement
  <2>10. v = x => Cardinality(A) # 0
    BY <2>5, <2>8, FS_EmptySet
  <2>11. QED
    BY <2>1, <2>2, <2>5, <2>9, <2>10
<1>5. ASSUME NEW w \in Values, Count(w) > 0
      PROVE  ~heap_cond(w, x)
  <2>1. Cells(arr, size, w) # {}
    BY <1>5, CountIsCells, FS_EmptySet
  <2>2. PICK i \in 0..(size - 1) : arr[i] = w
    BY <2>1 DEF Cells
  <2>3. QED
    BY <1>1, <2>2, RootFirst DEF QueueInv
<1>6. Stored'
  BY <1>1 DEF QueueInv, Stored
<1>7. Bag' = [Bag EXCEPT ![x] = @ - 1]
  BY <1>2, <1>4 DEF Bag
<1>8. Bag[x] > 0 /\ \A w \in Values : Bag[w] > 0 => ~heap_cond(w, x)
  BY <1>2, <1>4, <1>5 DEF Bag
<1>9. Queue!Pop(x)
  BY <1>1, <1>7, <1>8 DEF Queue!Pop, Bag
<1>10. QED
  BY <1>2, <1>6, <1>9

\* A pop of the empty heap is a pop of the empty queue.
LEMMA EmptyPop ==
    ASSUME QueueInv, pop_empty
    PROVE  Stored' /\ Queue!PopEmpty
<1>1. size = 0 /\ UNCHANGED <<arr, size>> /\ ret' = -1
  BY DEF QueueInv, IInv, TypeOK, pop_empty
<1>2. ASSUME NEW v \in Values PROVE Count(v) = 0
  <2>1. Cells(arr, size, v) = {}
    BY <1>1 DEF Cells
  <2>2. QED
    BY <2>1, CountIsCells, FS_EmptySet
<1>3. Stored' /\ Bag' = Bag
  BY <1>1 DEF QueueInv, Stored, Bag, Count
<1>4. QED
  BY <1>1, <1>2, <1>3 DEF Queue!PopEmpty, Bag

\* Through every push, pop, adjust iteration and reallocation the heap holds
\* exactly the values pushed and not popped, and pop returns a first one.
THEOREM HeapImplementsQueue == Spec => ImplementsQueue
<1>1. Init => QueueInv /\ Queue!Init
  <2> SUFFICES ASSUME Init PROVE QueueInv /\ Queue!Init
    OBVIOUS
  <2>1. size = 0 /\ ret = -1
    BY DEF Init
  <2>2. QueueInv
    BY <2>1, InitType DEF QueueInv, IInv, Stored, OrderInv
  <2>3. ASSUME NEW v \in Values PROVE Count(v) = 0
    <3>1. Cells(arr, size, v) = {}
      BY <2>1 DEF Cells
    <3>2. QED
      BY <3>1, CountIsCells, FS_EmptySet
  <2>4. QED
    BY <2>1, <2>2, <2>3 DEF Queue!Init
<1>2. QueueInv /\ [Next]_vars => QueueInv' /\ [Queue!Next]_<<Bag, ret>>
  <2> SUFFICES ASSUME QueueInv, [Next]_vars
               PROVE  Stored' /\ [Queue!Next]_<<Bag, ret>>
    BY NextOrder DEF QueueInv
  <2>1. ASSUME NEW value \in Values, push(value)
        PROVE  Stored' /\ [Queue!Next]_<<Bag, ret>>
    BY <2>1, PushAdds DEF Queue!Next
  <2>2. CASE adjust_up \/ adjust_down
    <3>1. TypeOK /\ Stored
      BY DEF QueueInv, IInv
    <3>2. CASE arr' = arr
      BY <2>2, <3>1, <3>2, AdjustSwaps DEF Stored, Bag, Count
    <3>3. CASE \E i, j \in 0..(size - 1) : arr' = swap(arr, i, j)
      BY <2>2, <3>1, <3>3, AdjustSwaps, SwapKeepsBag
    <3>4. QED
      BY <2>2, <3>1, <3>2, <3>3, AdjustSwaps
  <2>3. CASE pop
    BY <2>3, PopTakes DEF Queue!Next
  <2>4. CASE pop_empty
    BY <2>4, EmptyPop DEF Queue!Next
  <2>5. CASE UNCHANGED vars
    BY <2>5 DEF vars, QueueInv, Stored, Bag, Count
  <2>6. QED
    BY <2>1, <2>2, <2>3, <2>4, <2>5 DEF Next
<1>3. QED
  BY <1>1, <1>2, PTL DEF Spec, ImplementsQueue, Queue!Spec, Bag
=============================================================================
