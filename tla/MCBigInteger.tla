---------------------------- MODULE MCBigInteger ----------------------------
(* Operands for BigInteger: zero, carries and borrows that run through     *)
(* several digits, pairs with equal lengths and leading digits, all signs. *)
EXTENDS BigInteger

MCInts ==
    LET Magnitudes == {0, 1, 4, 9, 10, 12, 15, 19, 90, 95, 99, 100, 109, 190, 991, 999}
    IN  Magnitudes \cup {-v : v \in Magnitudes}
=============================================================================
