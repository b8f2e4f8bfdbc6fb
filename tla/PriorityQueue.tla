--------------------------- MODULE PriorityQueue ---------------------------
(***************************************************************************)
(* What a heap promises: a bag of values, and a pop that takes out one     *)
(* that no other value comes before.  Popping an empty queue returns the   *)
(* given mark and changes nothing.                                         *)
(***************************************************************************)
EXTENDS Integers

CONSTANTS Values, Before(_, _), EmptyMark

VARIABLES bag,      \* [Values -> Nat]: how many of each value are inside
          returned  \* what the last pop returned

Init == /\ bag = [v \in Values |-> 0]
        /\ returned = EmptyMark

Push(v) == /\ bag' = [bag EXCEPT ![v] = @ + 1]
           /\ UNCHANGED returned

Pop(v) == /\ bag[v] > 0
          /\ \A w \in Values : bag[w] > 0 => ~Before(w, v)
          /\ bag' = [bag EXCEPT ![v] = @ - 1]
          /\ returned' = v

PopEmpty == /\ \A v \in Values : bag[v] = 0
            /\ returned' = EmptyMark
            /\ UNCHANGED bag

Next == PopEmpty \/ \E v \in Values : Push(v) \/ Pop(v)

Spec == Init /\ [][Next]_<<bag, returned>>
=============================================================================
