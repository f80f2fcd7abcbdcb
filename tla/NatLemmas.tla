----------------------------- MODULE NatLemmas ------------------------------
(***************************************************************************)
(* Natural numbers: least and greatest elements of sets, which the proofs  *)
(* of this project use where a textbook would use induction (a property    *)
(* that fails somewhere fails at a least place); remainders; and sums.     *)
(***************************************************************************)
EXTENDS Integers, WellFoundedInduction, TLAPS

\* A set of natural numbers that is not empty has a least element.
LEMMA LeastElement ==
  ASSUME NEW T, T \subseteq Nat, T # {}
  PROVE  \E x \in T : \A y \in T : x <= y
<1>. DEFINE R == {p \in Nat \X Nat : p[1] < p[2]}
<1>1. IsWellFoundedOn(R, Nat)
  BY NatLessThanWellFounded, Zenon DEF OpToRel
<1>2. \A x, y \in Nat : <<y, x>> \in R <=> y < x
  OBVIOUS
<1>. HIDE DEF R
<1>3. PICK x \in T : \A y \in T : ~(<<y, x>> \in R)
  BY <1>1, WFMin
<1>4. \A y \in T : x \in Nat /\ y \in Nat /\ ~(y < x)
  BY <1>2, <1>3, Zenon
<1>5. \A y \in T : x <= y
  BY <1>4
<1>. QED
  BY <1>5

\* A bounded set of natural numbers that is not empty has a greatest element.
LEMMA GreatestElement ==
  ASSUME NEW n \in Nat, NEW T, T \subseteq 0..n, T # {}
  PROVE  \E x \in T : \A y \in T : y <= x
<1>. DEFINE U == {n - x : x \in T}
<1>1. U \subseteq Nat /\ U # {}
  <2>1. \A x \in T : n - x \in Nat
    OBVIOUS
  <2>2. PICK x \in T : TRUE
    OBVIOUS
  <2>. QED
    BY <2>1, <2>2
<1>2. PICK u \in U : \A y \in U : u <= y
  BY <1>1, LeastElement
<1>3. PICK x \in T : u = n - x
  OBVIOUS
<1>4. \A y \in T : n - y \in U
  OBVIOUS
<1>5. \A y \in T : n - x <= n - y /\ x \in 0..n /\ y \in 0..n
  BY <1>2, <1>3, <1>4
<1>6. \A y \in T : y <= x
  BY <1>5
<1>. QED
  BY <1>6

-----------------------------------------------------------------------------
(* Remainders, for counters of a bounded width.                            *)

\* Every number has a quotient and a remainder.
LEMMA Division ==
  ASSUME NEW a \in Nat, NEW w \in Nat \ {0}
  PROVE  \E q \in Nat, r \in 0..(w - 1) : a = w * q + r /\ r = a % w
<1>1. a \div w \in Nat /\ a % w \in 0..(w - 1) /\ a = w * (a \div w) + (a % w)
  OBVIOUS
<1>. DEFINE q == a \div w
            r == a % w
<1>2. q \in Nat /\ r \in 0..(w - 1) /\ a = w * q + r /\ r = a % w
  BY <1>1
<1>. HIDE DEF q, r
<1>. QED
  BY <1>2

\* The remainder is unique.
LEMMA RemainderIsUnique ==
  ASSUME NEW w \in Nat \ {0}, NEW p \in Int, NEW q \in Int,
         NEW r \in 0..(w - 1), NEW s \in 0..(w - 1),
         w * q + r = w * p + s
  PROVE  r = s
<1>1. ASSUME NEW d \in Int, d >= 1
      PROVE  w * d >= w
  BY <1>1
<1>2. w * (q - p) = s - r /\ w * (p - q) = r - s
  OBVIOUS
<1>3. CASE q - p >= 1
  BY <1>1, <1>2, <1>3
<1>4. CASE p - q >= 1
  BY <1>1, <1>2, <1>4
<1>5. CASE q = p
  BY <1>2, <1>5
<1>. QED
  BY <1>3, <1>4, <1>5

\* To wrap around before an addition makes no difference after it.
LEMMA WrapBeforeAdding ==
  ASSUME NEW a \in Nat, NEW b \in Nat, NEW w \in Nat \ {0}
  PROVE  ((a % w) + b) % w = (a + b) % w
<1>1. PICK q \in Nat, r \in 0..(w - 1) : a = w * q + r /\ r = a % w
  BY Division
<1>. DEFINE rb == r + b
            ab == a + b
<1>2. rb \in Nat /\ ab \in Nat
  OBVIOUS
<1>. HIDE DEF rb, ab
<1>3. PICK p \in Nat, s \in 0..(w - 1) : rb = w * p + s /\ s = rb % w
  BY <1>2, Division
<1>4. PICK t \in Nat, u \in 0..(w - 1) : ab = w * t + u /\ u = ab % w
  BY <1>2, Division
<1>5. w * (q + p) + s = w * t + u /\ q + p \in Int
  BY <1>1, <1>3, <1>4 DEF rb, ab
<1>6. s = u
  BY <1>5, RemainderIsUnique
<1>. QED
  BY <1>1, <1>3, <1>4, <1>6 DEF rb, ab

-----------------------------------------------------------------------------
(* Sums over sets of numbers.                                              *)

\* g[s] is the sum of weight[x] over the x of s, for every subset s of S.
IsSum(g, weight, S) ==
  /\ g \in [SUBSET S -> Nat]
  /\ g[{}] = 0
  /\ \A s \in SUBSET S : \A x \in s : g[s] = g[s \ {x}] + weight[x]

\* There is such a sum on the numbers up to any n.
LEMMA SumExists ==
  ASSUME NEW weight \in [Nat -> Nat]
  PROVE  \A n \in Nat : \E g : IsSum(g, weight, 1..n)
<1>. DEFINE T == {n \in Nat : ~\E g : IsSum(g, weight, 1..n)}
<1>. SUFFICES ASSUME T # {}
              PROVE  FALSE
  OBVIOUS
<1>1. PICK n \in T : \A y \in T : n <= y
  BY LeastElement
<1>2. n # 0
  <2>1. IsSum([s \in SUBSET (1..0) |-> 0], weight, 1..0)
    BY DEF IsSum
  <2>. QED
    BY <2>1
<1>3. n - 1 \in Nat /\ n - 1 \notin T
  BY <1>1, <1>2, SMTT(40)
<1>4. PICK f : IsSum(f, weight, 1..(n - 1))
  BY <1>3
<1>. DEFINE g == [s \in SUBSET (1..n) |-> IF n \in s THEN f[s \ {n}] + weight[n] ELSE f[s]]
<1>5. n \in Nat /\ weight[n] \in Nat
  BY <1>1
<1>6. ASSUME NEW s \in SUBSET (1..n)
      PROVE  s \ {n} \in SUBSET (1..(n - 1)) /\ f[s \ {n}] \in Nat
  <2>1. s \ {n} \in SUBSET (1..(n - 1))
    BY <1>5
  <2>. QED
    BY <1>4, <2>1 DEF IsSum
<1>7. g \in [SUBSET (1..n) -> Nat]
  <2>1. ASSUME NEW s \in SUBSET (1..n)
        PROVE  (IF n \in s THEN f[s \ {n}] + weight[n] ELSE f[s]) \in Nat
    <3>1. CASE n \in s
      <4>1. f[s \ {n}] + weight[n] \in Nat
        <5>1. \A a, b \in Nat : a + b \in Nat
          OBVIOUS
        <5>. QED
          BY <1>5, <1>6, <5>1, Zenon
      <4>. QED
        BY <3>1, <4>1
    <3>2. CASE n \notin s
      <4>1. s \ {n} = s
        BY <3>2
      <4>. QED
        BY <1>6, <3>2, <4>1
    <3>. QED
      BY <3>1, <3>2
  <2>. QED
    BY <2>1, Zenon
<1>8. g[{}] = 0
  BY <1>4 DEF IsSum
<1>9. ASSUME NEW s \in SUBSET (1..n), NEW x \in s
      PROVE  g[s] = g[s \ {x}] + weight[x]
  <2>0. s \ {x} \in SUBSET (1..n)
    OBVIOUS
  <2>1. CASE x = n
    BY <2>0, <2>1
  <2>2. CASE x # n /\ n \in s
    <3>1. x \in s \ {n} /\ n \in s \ {x}
      BY <2>2
    <3>2. g[s] = f[s \ {n}] + weight[n] /\ g[s \ {x}] = f[(s \ {x}) \ {n}] + weight[n]
      BY <2>0, <2>2, <3>1
    <3>3. (s \ {x}) \ {n} = (s \ {n}) \ {x}
      OBVIOUS
    <3>4. f[s \ {n}] = f[(s \ {n}) \ {x}] + weight[x]
      BY <1>4, <1>6, <3>1 DEF IsSum
    <3>5. f[(s \ {x}) \ {n}] \in Nat
      BY <1>6, <2>0
    <3>6. weight[x] \in Nat
      BY <1>5
    <3>7. \A a, b, c \in Nat : (a + b) + c = (a + c) + b
      OBVIOUS
    <3>8. (f[(s \ {x}) \ {n}] + weight[x]) + weight[n] = (f[(s \ {x}) \ {n}] + weight[n]) + weight[x]
      BY <1>5, <3>5, <3>6, <3>7, Zenon
    <3>. HIDE DEF g
    <3>. QED
      BY <3>2, <3>3, <3>4, <3>8, Zenon
  <2>3. CASE n \notin s
    <3>1. s \ {n} = s /\ n \notin s \ {x}
      BY <2>3
    <3>2. s \in SUBSET (1..(n - 1))
      BY <1>6, <3>1
    <3>3. f[s] = f[s \ {x}] + weight[x]
      BY <1>4, <3>2 DEF IsSum
    <3>. QED
      BY <2>0, <2>3, <3>1, <3>3
  <2>. QED
    BY <2>1, <2>2, <2>3
<1>10. IsSum(g, weight, 1..n)
  BY <1>7, <1>8, <1>9 DEF IsSum
<1>. QED
  BY <1>10
=============================================================================
