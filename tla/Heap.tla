-------------------------------- MODULE Heap --------------------------------
(***************************************************************************)
(* The array heap of c/heap.c: push and pop, and the loops of adjust_up    *)
(* and adjust_down, one iteration per step.                                *)
(*                                                                         *)
(* A malloc'ed cell holds whatever it held before: Junk is the set of      *)
(* those values.                                                           *)
(***************************************************************************)
EXTENDS Integers, FiniteSets

CONSTANTS
    Values,        \* the values that are pushed
    Type,          \* "MIN_HEAP" or "MAX_HEAP"
    InitCapacity,  \* the argument of alloc_heap; main passes 32
    Junk,          \* what an uninitialised cell may hold
    MaxSize        \* bound: nothing is pushed when size has reached it

ASSUME HeapAssumption ==
    /\ Values \subseteq Int
    /\ Type \in {"MIN_HEAP", "MAX_HEAP"}
    /\ InitCapacity \in Nat \ {0}
    /\ Junk \subseteq Int
    /\ MaxSize \in Nat

VARIABLES
    pc,        \* "idle", or inside "adjust_up" or "adjust_down"
    arr,       \* [0..capacity-1 -> Int]
    size,
    capacity,
    curr_idx,  \* of the running adjust loop
    ret        \* what the last pop returned, -1 at first

vars == <<pc, arr, size, capacity, curr_idx, ret>>
---------------------------------------------------------------------------
get_parent_idx(idx) == (idx - 1) \div 2
get_lchild_idx(idx) == idx * 2 + 1
get_rchild_idx(idx) == idx * 2 + 2

has_parent(idx) == idx # 0
has_lchild(idx) == get_lchild_idx(idx) < size

has_rchild(idx) == get_rchild_idx(idx) < size

heap_cond(ele1, ele2) ==
    IF Type = "MIN_HEAP" THEN ele1 < ele2 ELSE ele1 > ele2

swap(a, i, j) == [a EXCEPT ![i] = a[j], ![j] = a[i]]

\* Faulty variants, <definition>_<fault>, stand before what they vary.
increase_heap_Forgets(a) == [i \in 0..(2 * capacity - 1) |-> 0]

\* The array after increase_heap: twice the cells, the new ones zeroed.
increase_heap(a) ==
    [i \in 0..(2 * capacity - 1) |-> IF i < capacity THEN a[i] ELSE 0]

IsFull_OneLate == size > capacity
IsFull == size = capacity

min_child_idx_LeftOnly(idx) == get_lchild_idx(idx)

\* The child that adjust_down compares with: the one that comes first.
min_child_idx(idx) ==
    IF has_rchild(idx) /\ heap_cond(arr[get_rchild_idx(idx)], arr[get_lchild_idx(idx)])
    THEN get_rchild_idx(idx)
    ELSE get_lchild_idx(idx)
---------------------------------------------------------------------------
\* push() up to its call of adjust_up.
push(value) ==
    /\ pc = "idle"
    /\ size < MaxSize
    /\ LET a == IF IsFull THEN increase_heap(arr) ELSE arr
       IN  arr' = [a EXCEPT ![size] = value]
    /\ capacity' = IF IsFull THEN 2 * capacity ELSE capacity
    /\ size' = size + 1
    /\ curr_idx' = size
    /\ pc' = "adjust_up"
    /\ UNCHANGED ret

adjust_up ==
    /\ pc = "adjust_up"
    /\ LET p == get_parent_idx(curr_idx)
       IN  IF has_parent(curr_idx) /\ heap_cond(arr[curr_idx], arr[p])
           THEN /\ arr' = swap(arr, p, curr_idx)
                /\ curr_idx' = p
                /\ UNCHANGED pc
           ELSE /\ pc' = "idle"
                /\ UNCHANGED <<arr, curr_idx>>
    /\ UNCHANGED <<size, capacity, ret>>

\* pop() up to its call of adjust_down.
pop ==
    /\ pc = "idle"
    /\ size > 0
    /\ ret' = arr[0]
    /\ arr' = [arr EXCEPT ![0] = arr[size - 1]]
    /\ size' = size - 1
    /\ curr_idx' = 0
    /\ pc' = "adjust_down"
    /\ UNCHANGED capacity

pop_empty ==
    /\ pc = "idle"
    /\ size <= 0
    /\ ret' = -1
    /\ UNCHANGED <<pc, arr, size, capacity, curr_idx>>

adjust_down ==
    /\ pc = "adjust_down"
    /\ LET m == min_child_idx(curr_idx)
       IN  IF has_lchild(curr_idx) /\ heap_cond(arr[m], arr[curr_idx])
           THEN /\ arr' = swap(arr, m, curr_idx)
                /\ curr_idx' = m
                /\ UNCHANGED pc
           ELSE /\ pc' = "idle"
                /\ UNCHANGED <<arr, curr_idx>>
    /\ UNCHANGED <<size, capacity, ret>>

\* alloc_heap
Init ==
    /\ pc = "idle"
    /\ arr \in [0..(InitCapacity - 1) -> Junk]
    /\ size = 0
    /\ capacity = InitCapacity
    /\ curr_idx = 0
    /\ ret = -1

Next ==
    \/ \E value \in Values : push(value)
    \/ adjust_up
    \/ pop
    \/ pop_empty
    \/ adjust_down

Spec == Init /\ [][Next]_vars
---------------------------------------------------------------------------
\* Every index the code uses is inside the array it has allocated.
TypeOK ==
    /\ pc \in {"idle", "adjust_up", "adjust_down"}
    /\ capacity \in Nat \ {0}
    /\ arr \in [0..(capacity - 1) -> Int]
    /\ size \in 0..capacity
    /\ curr_idx \in 0..(capacity - 1)
    /\ ret \in Int
    /\ pc = "adjust_up" => curr_idx < size

InOrder(i) == ~heap_cond(arr[i], arr[(i - 1) \div 2])

\* Whenever no call is running no element comes before its parent, whatever
\* was pushed and popped before and however often the array was reallocated.
HeapOrder == pc = "idle" => \A i \in 1..(size - 1) : InOrder(i)

Count(v) == Cardinality({i \in 0..(size - 1) : arr[i] = v})

Queue == INSTANCE PriorityQueue WITH
            Before <- heap_cond, EmptyMark <- -1,
            bag <- [v \in Values |-> Count(v)], returned <- ret

\* The heap is a priority queue: it keeps exactly the values pushed and not
\* popped yet, and pop returns one that no other comes before.
ImplementsQueue == Queue!Spec
===========================================================================
