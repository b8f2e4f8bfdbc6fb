------------------------------ MODULE Induction ------------------------------
(***************************************************************************)
(* Induction over the natural numbers for proofs of the project: what is    *)
(* proved by it is a set of numbers, {n \in Nat : ...}, which first-order   *)
(* provers can instantiate.  It rests on < being well founded.  Then what   *)
(* it gives: computations in steps, folds; and remainders.                 *)
(***************************************************************************)
EXTENDS Integers, FiniteSetsExt, WellFoundedInduction, TLAPS

\* A set of numbers that is not empty has a least one.
LEMMA LeastNumber ==
    ASSUME NEW T \in SUBSET Nat, T # {}
    PROVE  \E x \in T : \A y \in T : x <= y
<1>1. PICK x \in T : \A y \in T : <<y, x>> \notin OpToRel(<, Nat)
  BY NatLessThanWellFounded, WFMin, Zenon
<1>2. \A y \in T : ~ y < x
  BY <1>1, Zenon DEF OpToRel
<1> QED
  BY <1>2

\* Steps from 0 up to n reach every number between them.
LEMMA Induct ==
    ASSUME NEW n \in Nat, NEW T,
           0 \in T,
           \A i \in 0..(n - 1) : i \in T => i + 1 \in T
    PROVE  \A i \in 0..n : i \in T
<1> DEFINE Out == {i \in 0..n : i \notin T}
<1> SUFFICES ASSUME Out # {} PROVE FALSE
  OBVIOUS
<1>1. PICK x \in Out : \A y \in Out : x <= y
  <2>1. Out \in SUBSET Nat
    OBVIOUS
  <2> QED
    BY <2>1, LeastNumber
<1>2. x \in 0..n /\ x \notin T /\ x # 0
  OBVIOUS
<1>3. x - 1 \in 0..(n - 1) /\ x - 1 \notin Out
  BY <1>1, <1>2
<1>4. x - 1 \in T
  BY <1>3
<1> QED
  BY <1>2, <1>3, <1>4

\* A set of numbers up to n that is not empty has a greatest one.
LEMMA GreatestNumber ==
    ASSUME NEW n \in Nat, NEW T \in SUBSET (0..n), T # {}
    PROVE  \E x \in T : \A y \in T : y <= x
<1> DEFINE Down == {d \in 0..n : n - d \in T}
<1>1. \A y \in T : y \in 0..n /\ n - y \in Down
  <2>1. \A y \in T : n - (n - y) = y
    OBVIOUS
  <2> QED
    BY <2>1
<1>2. Down # {}
  <2>1. PICK y \in T : TRUE
    OBVIOUS
  <2> QED
    BY <1>1, <2>1
<1>3. Down \in SUBSET Nat
  <2>1. \A d \in Down : d \in Nat
    BY DEF Down
  <2> HIDE DEF Down
  <2> QED
    BY <2>1
<1> HIDE DEF Down
<1>4. PICK d \in Down : \A e \in Down : d <= e
  BY <1>2, <1>3, LeastNumber
<1>5. n - d \in T /\ d \in 0..n
  BY DEF Down
<1>6. \A y \in T : y <= n - d
  <2> SUFFICES ASSUME NEW y \in T PROVE y <= n - d
    OBVIOUS
  <2>1. d <= n - y /\ y \in 0..n
    BY <1>1, <1>4
  <2> QED
    BY <1>5, <2>1
<1> QED
  BY <1>5, <1>6

\* f is computed in n steps within X, from x0.
Steps(f, n, X, x0, step) ==
    f \in [0..n -> X] /\ f[0] = x0 /\ \A i \in 1..n : f[i] = step[i][f[i - 1]]

LEMMA StepsExist ==
    ASSUME NEW n \in Nat, NEW X, NEW x0 \in X, NEW step,
           \A i \in 1..n : \A x \in X : step[i][x] \in X
    PROVE  \E f : Steps(f, n, X, x0, step)
<1> DEFINE Upto(m, f) == f \in [0..m -> X] /\ f[0] = x0 /\ \A i \in 1..m : f[i] = step[i][f[i - 1]]
           T == {m \in 0..n : \E f : Upto(m, f)}
<1>1. 0 \in T
  <2> DEFINE g == [i \in 0..0 |-> x0]
  <2>1. Upto(0, g)
    OBVIOUS
  <2> HIDE DEF Upto, g
  <2>2. \E f : Upto(0, f)
    BY <2>1
  <2> QED
    BY <2>2
<1>2. ASSUME NEW m \in 0..(n - 1), m \in T PROVE m + 1 \in T
  <2>1. PICK f : Upto(m, f)
    BY <1>2
  <2> DEFINE g == [i \in 0..(m + 1) |-> IF i <= m THEN f[i] ELSE step[m + 1][f[m]]]
  <2>2. f[m] \in X /\ step[m + 1][f[m]] \in X
    BY <2>1
  <2>3. g \in [0..(m + 1) -> X] /\ g[0] = x0
    BY <2>1, <2>2
  <2>4. ASSUME NEW i \in 1..(m + 1) PROVE g[i] = step[i][g[i - 1]]
    <3>1. CASE i <= m
      <4>1. i \in 1..m /\ i - 1 \in 0..(m + 1) /\ i - 1 <= m
        BY <3>1
      <4> QED
        BY <2>1, <4>1
    <3>2. CASE i = m + 1
      <4>1. g[i - 1] = f[m] /\ g[i] = step[m + 1][f[m]]
        BY <3>2
      <4> QED
        BY <3>2, <4>1
    <3> QED
      BY <3>1, <3>2
  <2>5. Upto(m + 1, g)
    BY <2>3, <2>4
  <2> HIDE DEF Upto, g
  <2>6. \E h : Upto(m + 1, h)
    BY <2>5
  <2> QED
    BY <2>6
<1> HIDE DEF T
<1>3. n \in T
  BY <1>1, <1>2, Induct
<1> QED
  BY <1>3 DEF T, Steps

\* Two that start and step alike are alike.
LEMMA StepsAgree ==
    ASSUME NEW n \in Nat, NEW f, NEW g, f[0] = g[0],
           \A i \in 1..n : f[i - 1] = g[i - 1] => f[i] = g[i]
    PROVE  \A i \in 0..n : f[i] = g[i]
<1> DEFINE T == {i \in 0..n : f[i] = g[i]}
<1>1. 0 \in T
  OBVIOUS
<1>2. \A i \in 0..(n - 1) : i \in T => i + 1 \in T
  <2> SUFFICES ASSUME NEW i \in 0..(n - 1), f[i] = g[i] PROVE f[i + 1] = g[i + 1]
    OBVIOUS
  <2>1. i + 1 \in 1..n /\ (i + 1) - 1 = i
    OBVIOUS
  <2> QED
    BY <2>1
<1> HIDE DEF T
<1>3. \A i \in 0..n : i \in T
  BY <1>1, <1>2, Induct
<1> QED
  BY <1>3 DEF T
---------------------------------------------------------------------------
(* FoldLeft over a sequence of n elements is iter[1..n], where iter folds   *)
(* over sets of indices and takes the greatest one last.                   *)

LEMMA MaxUpTo ==
    ASSUME NEW n \in Nat, NEW s \in SUBSET (1..n), s # {}
    PROVE  /\ Max(s) \in s /\ \A y \in s : y <= Max(s)
           /\ s \ {Max(s)} \in SUBSET (1..(Max(s) - 1))
<1>1. s \in SUBSET (0..n)
  OBVIOUS
<1>2. PICK x \in s : \A y \in s : y <= x
  BY <1>1, GreatestNumber
<1>3. \A y \in s : x >= y
  BY <1>2
<1>4. Max(s) \in s /\ \A y \in s : Max(s) >= y
  BY <1>3 DEF Max
<1>5. \A y \in s \ {Max(s)} : y \in 1..(Max(s) - 1)
  <2>1. Max(s) \in 1..n
    BY <1>4
  <2> SUFFICES ASSUME NEW y \in s, y # Max(s) PROVE y \in 1..(Max(s) - 1)
    OBVIOUS
  <2>2. y \in 1..n /\ Max(s) >= y
    BY <1>4
  <2> QED
    BY <2>1, <2>2
<1> QED
  BY <1>4, <1>5

IsFold(it, n, X, x0, step) ==
    /\ it \in [SUBSET (1..n) -> X]
    /\ \A s \in SUBSET (1..n) : it[s] = IF s = {} THEN x0 ELSE step[Max(s)][it[s \ {Max(s)}]]

LEMMA FoldExists ==
    ASSUME NEW n \in Nat, NEW X, NEW x0 \in X, NEW step,
           \A i \in 1..n : \A x \in X : step[i][x] \in X
    PROVE  \E it : IsFold(it, n, X, x0, step)
<1> DEFINE T == {m \in 0..n : \E it : IsFold(it, m, X, x0, step)}
<1>1. 0 \in T
  <2> DEFINE g == [s \in SUBSET (1..0) |-> x0]
  <2>1. g \in [SUBSET (1..0) -> X]
    OBVIOUS
  <2>2. \A s \in SUBSET (1..0) : s = {}
    OBVIOUS
  <2>3. IsFold(g, 0, X, x0, step)
    BY <2>1, <2>2 DEF IsFold
  <2> HIDE DEF g
  <2>4. \E it : IsFold(it, 0, X, x0, step)
    BY <2>3
  <2> QED
    BY <2>4
<1>2. ASSUME NEW m \in 0..(n - 1), m \in T PROVE m + 1 \in T
  <2>1. PICK it : IsFold(it, m, X, x0, step)
    BY <1>2
  <2>2. /\ it \in [SUBSET (1..m) -> X]
        /\ \A s \in SUBSET (1..m) : it[s] = IF s = {} THEN x0 ELSE step[Max(s)][it[s \ {Max(s)}]]
    BY <2>1 DEF IsFold
  <2> DEFINE g == [s \in SUBSET (1..(m + 1)) |->
                      IF m + 1 \in s THEN step[m + 1][it[s \ {m + 1}]] ELSE it[s]]
  <2>3. ASSUME NEW s \in SUBSET (1..(m + 1))
        PROVE  /\ g[s] \in X
               /\ g[s] = IF s = {} THEN x0 ELSE step[Max(s)][g[s \ {Max(s)}]]
    <3>1. CASE m + 1 \in s
      <4>1. Max(s) = m + 1
        <5>1. m + 1 \in Nat /\ s # {}
          BY <3>1
        <5>2. Max(s) \in s /\ m + 1 <= Max(s)
          BY <3>1, <5>1, MaxUpTo
        <5> QED
          BY <5>2
      <4>2. s \ {m + 1} \in SUBSET (1..m)
        OBVIOUS
      <4>3. /\ g[s] = step[m + 1][it[s \ {m + 1}]]
            /\ g[s \ {m + 1}] = it[s \ {m + 1}]
        BY <3>1, <4>2
      <4> QED
        BY <2>2, <3>1, <4>1, <4>2, <4>3
    <3>2. CASE m + 1 \notin s
      <4>1. s \in SUBSET (1..m)
        BY <3>2
      <4>2. g[s] = it[s] /\ it[s] \in X
        BY <2>2, <3>2, <4>1
      <4>3. CASE s = {}
        BY <2>2, <4>1, <4>2, <4>3
      <4>4. CASE s # {}
        <5>1. s \ {Max(s)} \in SUBSET (1..(m + 1)) /\ m + 1 \notin s \ {Max(s)}
          BY <3>2
        <5>2. g[s \ {Max(s)}] = it[s \ {Max(s)}]
          BY <5>1
        <5> QED
          BY <2>2, <4>1, <4>2, <4>4, <5>2
      <4> QED
        BY <4>3, <4>4
    <3> QED
      BY <3>1, <3>2
  <2>4. g \in [SUBSET (1..(m + 1)) -> X]
    BY <2>3
  <2>5. IsFold(g, m + 1, X, x0, step)
    BY <2>3, <2>4 DEF IsFold
  <2> HIDE DEF g
  <2>6. \E h : IsFold(h, m + 1, X, x0, step)
    BY <2>5
  <2> QED
    BY <2>6
<1> HIDE DEF T
<1>3. n \in T
  BY <1>1, <1>2, Induct
<1> QED
  BY <1>3 DEF T

\* f is computed in steps, and comes to e.
StepsTo(e, f, n, X, x0, step) == Steps(f, n, X, x0, step) /\ f[n] = e

FoldsBy(it, n, X, x0, step) ==
    /\ it[{}] = x0
    /\ \A s \in SUBSET (1..n) :
          s # {} /\ it[s \ {Max(s)}] \in X => it[s] = step[Max(s)][it[s \ {Max(s)}]]

\* What folds over sets of indices computes its value in steps.
LEMMA FoldSteps ==
    ASSUME NEW n \in Nat, NEW X, NEW x0 \in X, NEW step,
           \A i \in 1..n : \A x \in X : step[i][x] \in X,
           NEW it, FoldsBy(it, n, X, x0, step)
    PROVE  \E f : StepsTo(it[1..n], f, n, X, x0, step)
<1> DEFINE f == [i \in 0..n |-> it[1..i]]
           T == {i \in 0..n : f[i] \in X}
<1>1. f[0] = x0
  <2>1. 1..0 = {}
    OBVIOUS
  <2> QED
    BY <2>1 DEF FoldsBy
<1>2. ASSUME NEW i \in 1..n, f[i - 1] \in X
      PROVE  f[i] = step[i][f[i - 1]] /\ f[i] \in X
  <2>1. (1..i) \in SUBSET (1..n) /\ i \in 1..i
    OBVIOUS
  <2>2. Max(1..i) \in 1..i /\ i <= Max(1..i)
    BY <2>1, MaxUpTo
  <2>3. Max(1..i) = i
    BY <2>2
  <2>4. (1..i) \ {i} = 1..(i - 1)
    OBVIOUS
  <2>5. f[i - 1] = it[1..(i - 1)] /\ f[i] = it[1..i]
    OBVIOUS
  <2> HIDE DEF f
  <2>6. it[1..i] = step[i][it[1..(i - 1)]]
    BY <1>2, <2>1, <2>3, <2>4, <2>5 DEF FoldsBy
  <2> QED
    BY <1>2, <2>5, <2>6
<1>3. \A i \in 0..(n - 1) : i \in T => i + 1 \in T
  <2> HIDE DEF f
  <2> SUFFICES ASSUME NEW i \in 0..(n - 1), f[i] \in X PROVE i + 1 \in 0..n /\ f[i + 1] \in X
    BY DEF T
  <2>1. i + 1 \in 1..n /\ i + 1 \in 0..n /\ (i + 1) - 1 = i
    OBVIOUS
  <2> QED
    BY <1>2, <2>1
<1>4. \A i \in 0..n : f[i] \in X
  <2>1. 0 \in T
    BY <1>1
  <2> HIDE DEF T
  <2>2. \A i \in 0..n : i \in T
    BY <1>3, <2>1, Induct
  <2> QED
    BY <2>2 DEF T
<1>5. f \in [0..n -> X] /\ f[n] = it[1..n]
  BY <1>4
<1> HIDE DEF f
<1>6. \A i \in 1..n : f[i] = step[i][f[i - 1]]
  BY <1>2, <1>4
<1>7. Steps(f, n, X, x0, step)
  BY <1>1, <1>5, <1>6 DEF Steps
<1> QED
  BY <1>5, <1>7 DEF StepsTo

\* The remainder of a division is the only number below the divisor that
\* differs from the dividend by a multiple of it.
LEMMA Remainder ==
    ASSUME NEW w \in Nat \ {0}, NEW n \in Int
    PROVE  /\ n % w \in 0..(w - 1)
           /\ \E q \in Int : n = w * q + (n % w)
           /\ \A q \in Int, r \in 0..(w - 1) : n = w * q + r => n % w = r
<1>1. n % w \in 0..(w - 1)
  OBVIOUS
<1>2. n = w * (n \div w) + (n % w) /\ n \div w \in Int
  OBVIOUS
<1>3. ASSUME NEW q \in Int, NEW r \in 0..(w - 1), n = w * q + r
      PROVE  n % w = r
  <2> DEFINE d == q - n \div w
  <2>1. d \in Int /\ w * d = (n % w) - r
    BY <1>2, <1>3
  <2>2. d >= 1 => w * d >= w
    BY <2>1
  <2>3. d <= -1 => w * d <= -w
    BY <2>1
  <2> HIDE DEF d
  <2>4. d = 0
    BY <1>1, <2>1, <2>2, <2>3
  <2> QED
    BY <1>1, <2>1, <2>4
<1> QED
  BY <1>1, <1>2, <1>3

\* A fold whose every step stays within X ends there.
LEMMA FoldStays ==
    ASSUME NEW n \in Nat, NEW X, NEW x0 \in X, NEW step,
           \A i \in 1..n : \A x \in X : step[i][x] \in X,
           NEW it, FoldsBy(it, n, X, x0, step)
    PROVE  it[1..n] \in X
<1>1. PICK f : StepsTo(it[1..n], f, n, X, x0, step)
  BY FoldSteps
<1> QED
  BY <1>1 DEF StepsTo, Steps
=============================================================================
