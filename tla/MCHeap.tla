------------------------------- MODULE MCHeap -------------------------------
(* Instances of Heap for TLC: values with repetitions, an array that has to *)
(* grow twice, and uninitialised cells that hold a value never pushed.     *)
EXTENDS Heap

MCValues == {0, 1, 2, 3}
MCJunk   == {9}
=============================================================================
