----------------------------- MODULE BigInteger -----------------------------
(***************************************************************************)
(* The decimal big integers of BigInteger/main.cc: one evaluation of       *)
(* x + y, x - y or x * y, call by call.  operator+ and operator- call each *)
(* other on operands of changed sign or order, operator* calls operator+   *)
(* once for each digit of y.                                               *)
(*                                                                         *)
(* A number is [arr, len, isPositive]: arr has NR_DIGITS digits, the last  *)
(* one the units, and the last len of them are shown.                      *)
(***************************************************************************)
EXTENDS Integers, Sequences, FiniteSets

CONSTANTS
    NR_DIGITS,   \* 500 in the code
    Ints,        \* the operands
    StackLimit   \* bound: calls that are open when the stack overflows

ASSUME BigIntegerAssumption ==
    NR_DIGITS \in Nat \ {0} /\ Ints \subseteq Int /\ StackLimit \in Nat \ {0}

VARIABLES
    pc,       \* "call", "return", or "done", "overflow" at the end
    expr,     \* the expression of main: [op, x, y], x and y the operands' values
    call,     \* the running call: [op, x, y], x the object, y the argument b
    stack,    \* what the callers do with the result, the latest first
    result    \* what the last call returned

vars == <<pc, expr, call, stack, result>>
---------------------------------------------------------------------------
Places == 0..(NR_DIGITS - 1)
Zeros == [i \in Places |-> 0]
Units == NR_DIGITS - 1

\* Least n of 1..NR_DIGITS with P(n); the loops all end with the array.
FirstLen(P(_)) == CHOOSE n \in 1..NR_DIGITS : P(n) /\ \A k \in 1..(n - 1) : ~P(k)

Abs(v) == IF v < 0 THEN -v ELSE v

FromInt_ZeroIsEmpty(v) ==
    LET q[i \in Places] == IF i = Units THEN Abs(v) ELSE q[i + 1] \div 10
    IN  [arr |-> [i \in Places |-> q[i] % 10],
         len |-> IF v = 0 THEN 0 ELSE FirstLen(LAMBDA n : n = NR_DIGITS \/ q[Units - n] = 0),
         isPositive |-> v >= 0]

\* BigInteger(int)
FromInt(v) ==
    LET q[i \in Places] == IF i = Units THEN Abs(v) ELSE q[i + 1] \div 10
    IN  [arr |-> [i \in Places |-> q[i] % 10],
         len |-> FirstLen(LAMBDA n : n = NR_DIGITS \/ q[Units - n] = 0),
         isPositive |-> v >= 0]

Lead(b) == b.arr[NR_DIGITS - b.len]

Greater_LongerOnly(a, b) == (a.isPositive \/ ~b.isPositive) /\ a.len > b.len

\* operator >: the lengths, then the leading digits, and nothing after them.
Greater(a, b) ==
    /\ a.isPositive \/ ~b.isPositive
    /\ \/ a.len > b.len
       \/ a.len = b.len /\ Lead(a) > Lead(b)

Equal(a, b) == a.isPositive = b.isPositive /\ a.arr = b.arr

Less(a, b) == ~Greater(a, b) /\ ~Equal(a, b)

Negative(b) == Less(b, FromInt(0))

Positive(b) == [b EXCEPT !.isPositive = TRUE]

Leading0s(a) == Cardinality({i \in Places : \A j \in 0..i : a[j] = 0})

shrink_KeepsZero(b) == [b EXCEPT !.len = @ - Leading0s(b.arr)]

shrink(b) ==
    LET z == Leading0s(b.arr)
    IN  IF b.len > z \/ z = NR_DIGITS
        THEN [b EXCEPT !.len = IF @ = z THEN 1 ELSE @ - z]
        ELSE b

AddDigits_LastCarry(a, b) ==
    LET c[i \in Places] ==
            IF i = Units THEN 0 ELSE (a.arr[i + 1] + b.arr[i + 1] + c[i + 1]) \div 10
        n == FirstLen(LAMBDA k : k >= a.len /\ k >= b.len)
    IN  [arr |-> [i \in Places |->
                    IF i > Units - n THEN (a.arr[i] + b.arr[i] + c[i]) % 10 ELSE 0],
         len |-> n, isPositive |-> TRUE]

\* The loop of operator+: c[i] is the carry into place i.
AddDigits(a, b) ==
    LET c[i \in Places] ==
            IF i = Units THEN 0 ELSE (a.arr[i + 1] + b.arr[i + 1] + c[i + 1]) \div 10
        n == FirstLen(LAMBDA k : k >= a.len /\ k >= b.len
                                 /\ (k = NR_DIGITS \/ c[Units - k] = 0))
    IN  [arr |-> [i \in Places |->
                    IF i > Units - n THEN (a.arr[i] + b.arr[i] + c[i]) % 10 ELSE 0],
         len |-> n, isPositive |-> TRUE]

\* The loop of operator-: c[i] is the borrow, 0 or -1, into place i.
SubDigits(a, b) ==
    LET c[i \in Places] ==
            IF i = Units THEN 0
            ELSE IF a.arr[i + 1] + c[i + 1] < b.arr[i + 1] THEN -1 ELSE 0
    IN  [arr |-> [i \in Places |-> (a.arr[i] + c[i] - b.arr[i] + 10) % 10],
         len |-> NR_DIGITS, isPositive |-> TRUE]

appendZeros_Short(b, count) ==
    [b EXCEPT !.arr = [i \in Places |-> IF i + count \in Places THEN b.arr[i + count] ELSE 0]]

appendZeros(b, count) ==
    [b EXCEPT !.arr = [i \in Places |-> IF i + count \in Places THEN b.arr[i + count] ELSE 0],
              !.len = @ + count]

\* intermediate[id] of operator*: x times the id-th digit of y, shifted.
Intermediate(x, y, id) ==
    LET d == y.arr[NR_DIGITS - y.len + id]
        c[i \in Places] == IF i = Units THEN 0 ELSE (d * x.arr[i + 1] + c[i + 1]) \div 10
        n == FirstLen(LAMBDA k : k >= x.len /\ (k = NR_DIGITS \/ c[Units - k] = 0))
    IN  appendZeros([arr |-> [i \in Places |->
                                IF i > Units - n THEN (d * x.arr[i] + c[i]) % 10 ELSE 0],
                     len |-> n, isPositive |-> TRUE],
                    y.len - 1 - id)

Fresh == [arr |-> Zeros, len |-> 0, isPositive |-> TRUE]
---------------------------------------------------------------------------
\* Calls are made with a note of what the caller does with the result.
Call(op, x, y, post) ==
    /\ Len(stack) < StackLimit
    /\ call' = [op |-> op, x |-> x, y |-> y]
    /\ stack' = <<post>> \o stack
    /\ UNCHANGED <<pc, expr, result>>

Return(b) ==
    /\ result' = b
    /\ pc' = "return"
    /\ UNCHANGED <<expr, call, stack>>

plus ==
    /\ pc = "call" /\ call.op = "+"
    /\ \/ /\ Negative(call.y)
          /\ Call("-", call.x, Positive(call.y), [do |-> "copy"])
       \/ /\ ~Negative(call.y) /\ Negative(call.x)
          /\ Call("-", call.y, Positive(call.x), [do |-> "copy"])
       \/ /\ ~Negative(call.y) /\ ~Negative(call.x)
          /\ Return(AddDigits(call.x, call.y))

minus ==
    /\ pc = "call" /\ call.op = "-"
    /\ \/ /\ Negative(call.y)
          /\ Call("+", call.x, Positive(call.y), [do |-> "shrink"])
       \/ /\ ~Negative(call.y) /\ Less(call.x, call.y)
          /\ Call("-", call.y, call.x, [do |-> "negate"])
       \/ /\ ~Negative(call.y) /\ ~Less(call.x, call.y)
          /\ Return(shrink(SubDigits(call.x, call.y)))

\* operator* up to its first addition.
times ==
    /\ pc = "call" /\ call.op = "*"
    /\ Call("+", Fresh, Intermediate(call.x, call.y, 0),
            [do |-> "sum", x |-> call.x, y |-> call.y, id |-> 0])

stack_overflow ==
    /\ pc = "call"
    /\ Len(stack) = StackLimit
    /\ pc' = "overflow"
    /\ UNCHANGED <<expr, call, stack, result>>

finish_shrink ==
    /\ stack' = Tail(stack)
    /\ result' = shrink(result)
    /\ UNCHANGED <<pc, expr, call>>

finish_negate ==
    /\ stack' = Tail(stack)
    /\ result' = shrink([result EXCEPT !.isPositive = FALSE])
    /\ UNCHANGED <<pc, expr, call>>

\* The next round of operator*'s summing loop, or its end.
finish_sum ==
    LET f == Head(stack) IN
    IF f.id + 1 < f.y.len
    THEN /\ pc' = "call"
         /\ call' = [op |-> "+", x |-> result, y |-> Intermediate(f.x, f.y, f.id + 1)]
         /\ stack' = <<[f EXCEPT !.id = @ + 1]>> \o Tail(stack)
         /\ UNCHANGED <<expr, result>>
    ELSE /\ result' = [result EXCEPT !.isPositive = f.x.isPositive /\ f.y.isPositive]
         /\ stack' = Tail(stack)
         /\ UNCHANGED <<pc, expr, call>>

finish ==
    /\ pc = "return" /\ stack # <<>>
    /\ \/ /\ Head(stack).do = "copy"
          /\ stack' = Tail(stack)
          /\ UNCHANGED <<pc, expr, call, result>>
       \/ Head(stack).do = "shrink" /\ finish_shrink
       \/ Head(stack).do = "negate" /\ finish_negate
       \/ Head(stack).do = "sum" /\ finish_sum

done ==
    /\ pc = "return" /\ stack = <<>>
    /\ pc' = "done"
    /\ UNCHANGED <<expr, call, stack, result>>

Init ==
    /\ expr \in [op : {"+", "-", "*"}, x : Ints, y : Ints]
    /\ pc = "call"
    /\ call = [expr EXCEPT !.x = FromInt(@), !.y = FromInt(@)]
    /\ stack = <<>>
    /\ result = Fresh

Next == plus \/ minus \/ times \/ stack_overflow \/ finish \/ done

Spec == Init /\ [][Next]_vars
---------------------------------------------------------------------------
Number == [arr : [Places -> 0..9], len : 1..NR_DIGITS, isPositive : BOOLEAN]

\* Digits are single digits and lengths stay within the array, in every
\* operand and result.  (The difference of two equal negative numbers, whose
\* length is wrong, is what SumExact excepts.)
TypeOK ==
    /\ pc \in {"call", "return", "done", "overflow"}
    /\ call.op \in {"+", "-", "*"}
    /\ call.y \in Number
    /\ call.x \in Number \cup {Fresh}
    /\ Len(stack) <= StackLimit
    /\ result.arr \in [Places -> 0..9]
    /\ result.len <= NR_DIGITS

Value(b) ==
    LET v[i \in Places] == b.arr[i] + (IF i = 0 THEN 0 ELSE 10 * v[i - 1])
    IN  IF b.isPositive THEN v[Units] ELSE -v[Units]

\* The len digits that are shown are all there are, without leading zeros.
WellShown(b) == b.len = IF b.arr = Zeros THEN 1 ELSE NR_DIGITS - Leading0s(b.arr)

Expected ==
    CASE expr.op = "+" -> expr.x + expr.y
      [] expr.op = "-" -> expr.x - expr.y
      [] expr.op = "*" -> expr.x * expr.y

\* A sum or difference that is returned is the right one, for operands of any
\* sign and through every rewriting of one operator into the other, and is
\* shown in full.  The exceptions are results that are shrunk twice: the
\* difference of two equal negative numbers, which gets a negative length, and
\* numbers that fill more than half of the array, whose length is cut again.
SumExact ==
    pc = "done" /\ expr.op # "*" =>
        /\ Value(result) = Expected
        /\ \/ WellShown(result)
           \/ expr.op = "-" /\ expr.x = expr.y /\ expr.x < 0
           \/ 2 * (NR_DIGITS - Leading0s(result.arr)) > NR_DIGITS

\* The digits of a product are right whatever the signs, and its sign is
\* right unless both operands are negative.
ProductExact ==
    pc = "done" /\ expr.op = "*" =>
        /\ Abs(Value(result)) = Abs(Expected)
        /\ expr.x >= 0 \/ expr.y >= 0 => Value(result) = Expected
        /\ Expected # 0 => WellShown(result)

\* The evaluation takes the difference of the operands' absolute values.
Subtracts ==
    IF expr.op = "+" THEN (expr.x < 0) # (expr.y < 0)
    ELSE expr.op = "-" /\ (expr.x < 0) = (expr.y < 0)

SameLead ==
    LET a == FromInt(Abs(expr.x))
        b == FromInt(Abs(expr.y))
    IN  a # b /\ a.len = b.len /\ Lead(a) = Lead(b)

\* operator < is true both ways of two numbers of one length and one leading
\* digit: their subtraction swaps them for ever.  Every other evaluation
\* returns, after a bounded number of nested calls.
EndsUnlessSameLead ==
    /\ pc = "overflow" => Subtracts /\ SameLead
    /\ pc = "done" => ~(Subtracts /\ SameLead)
=============================================================================
