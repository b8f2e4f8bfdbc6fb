------------------------------ MODULE RangeMap ------------------------------
(***************************************************************************)
(* RangeMap and AddressMap as breakpad's readers and resolvers use them:    *)
(* ranges of addresses that do not overlap, each with what it stands for.   *)
(* A map is a set of ranges [base, high, index].                            *)
(***************************************************************************)
EXTENDS Integers

CONSTANT AddrSpace  \* addresses are 0 .. AddrSpace - 1 and wrap around

ASSUME AddrSpaceAssumption == AddrSpace \in Nat \ {0}

Wrap(a) == a % AddrSpace

\* A range that is empty, wraps around or overlaps another is not stored.
Storable(map, base, size) ==
    LET high == Wrap(base + size - 1)
    IN  /\ size > 0
        /\ high >= base
        /\ \A r \in map : high < r.base \/ r.high < base

StoreRange(map, base, size, i) == map \cup {[base |-> base, high |-> Wrap(base + size - 1), index |-> i]}

Within(map, a) == {r \in map : r.base <= a /\ a <= r.high}

\* What is stored for an address, or none.
RetrieveRange(map, a, none) ==
    IF Within(map, a) = {} THEN none ELSE (CHOOSE r \in Within(map, a) : TRUE).index

\* The last range that begins at or before an address, or none.
Nearest(map, a, none) ==
    LET below == {r \in map : r.base <= a}
    IN  IF below = {} THEN none ELSE CHOOSE r \in below : \A q \in below : q.base <= r.base
=============================================================================
