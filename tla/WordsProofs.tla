----------------------------- MODULE WordsProofs -----------------------------
(***************************************************************************)
(* Powers of two, sums, and words made of digits: what the proofs about    *)
(* Alu and MemoryPath need of arithmetic.                                  *)
(*                                                                         *)
(* The induction theorems of the library quantify over predicates.  Here   *)
(* an induction is over a set: Nat is contained in every set that holds 0  *)
(* and the successors of its elements.                                     *)
(***************************************************************************)
EXTENDS Words, TLAPS, WellFoundedInduction

LEMMA SetInduction ==
    ASSUME NEW S, 0 \in S, \A n \in Nat : n \in S => n + 1 \in S
    PROVE  Nat \subseteq S
<1> DEFINE T == Nat \ S
           R == OpToRel(<, Nat)
<1> SUFFICES ASSUME T # {} PROVE FALSE
  OBVIOUS
<1>1. IsWellFoundedOn(R, Nat)
  BY NatLessThanWellFounded
<1>2. T \subseteq Nat
  OBVIOUS
<1> HIDE DEF R, T
<1>3. PICK x \in T : \A y \in T : ~(<<y, x>> \in R)
  BY <1>1, <1>2, WFMin
<1> USE DEF T
<1>4. x \in Nat /\ x # 0 /\ x - 1 \in Nat /\ x - 1 + 1 = x
  BY <1>3
<1>5. x - 1 \in T
  BY <1>4
<1>6. <<x - 1, x>> \in R
  BY <1>4 DEF OpToRel, R
<1>7. QED
  BY <1>3, <1>5, <1>6

(* A function over the integers may be defined by recursion: there is one  *)
(* up to every n, and they agree with each other.                          *)
LEMMA PrimitiveRecursion ==
    ASSUME NEW v0 \in Int, NEW step \in [Nat -> [Int -> Int]]
    PROVE  \E f \in [Nat -> Int] : f[0] = v0 /\ \A n \in Nat : f[n + 1] = step[n][f[n]]
<1> DEFINE Good(n, g) == g[0] = v0 /\ \A i \in 0..(n - 1) : g[i + 1] = step[i][g[i]]
           S == {n \in Nat : \E g \in [0..n -> Int] : Good(n, g)}
<1>1. 0 \in S
  <2>1. [i \in 0..0 |-> v0] \in [0..0 -> Int] /\ Good(0, [i \in 0..0 |-> v0])
    OBVIOUS
  <2>2. QED
    BY <2>1
<1>2. ASSUME NEW n \in Nat, n \in S PROVE n + 1 \in S
  <2>1. PICK g \in [0..n -> Int] : Good(n, g)
    BY <1>2
  <2> DEFINE h == [i \in 0..(n + 1) |-> IF i = n + 1 THEN step[n][g[n]] ELSE g[i]]
  <2>2. h \in [0..(n + 1) -> Int] /\ h[0] = v0
    BY <2>1
  <2>3. ASSUME NEW i \in 0..n PROVE h[i + 1] = step[i][h[i]]
    <3>1. CASE i = n
      BY <3>1
    <3>2. CASE i < n
      <4>1. i \in 0..(n - 1) /\ i + 1 \in 0..n /\ i + 1 # n + 1 /\ i # n + 1
        BY <3>2
      <4>2. QED
        BY <2>1, <4>1
    <3>3. QED
      BY <3>1, <3>2
  <2>4. Good(n + 1, h)
    <3>1. (n + 1) - 1 = n
      OBVIOUS
    <3> HIDE DEF h
    <3>2. QED
      BY <2>2, <2>3, <3>1
  <2>5. QED
    <3> HIDE DEF h, Good
    <3>1. QED
      BY <2>2, <2>4
<1>3. Nat \subseteq S
  <2> HIDE DEF S
  <2>1. QED
    BY <1>1, <1>2, SetInduction
<1> DEFINE G == [n \in Nat |-> CHOOSE g \in [0..n -> Int] : Good(n, g)]
<1>4. \A n \in Nat : G[n] \in [0..n -> Int] /\ Good(n, G[n])
  <2> SUFFICES ASSUME NEW n \in Nat PROVE G[n] \in [0..n -> Int] /\ Good(n, G[n])
    OBVIOUS
  <2>1. \E g \in [0..n -> Int] : Good(n, g)
    BY <1>3
  <2> HIDE DEF Good
  <2>2. QED
    BY <2>1
<1> HIDE DEF G, S
<1>5. /\ \A n \in Nat : G[n][0] = v0
      /\ \A n \in Nat : \A i \in 0..(n - 1) : G[n][i + 1] = step[i][G[n][i]]
      /\ \A n \in Nat : \A i \in 0..n : G[n][i] \in Int
  BY <1>4
<1> HIDE DEF Good
<1>6. \A n \in Nat : \A i \in 0..n : G[n + 1][i] = G[n][i]
  <2> SUFFICES ASSUME NEW n \in Nat PROVE \A i \in 0..n : G[n + 1][i] = G[n][i]
    OBVIOUS
  <2> DEFINE A == {i \in Nat : i \in 0..n => G[n + 1][i] = G[n][i]}
  <2>1. 0 \in A
    <3>1. n + 1 \in Nat
      OBVIOUS
    <3>2. G[n + 1][0] = v0 /\ G[n][0] = v0
      BY <1>5, <3>1
    <3>3. QED
      BY <3>2
  <2>2. ASSUME NEW i \in Nat, i \in A PROVE i + 1 \in A
    <3> SUFFICES ASSUME i + 1 \in 0..n PROVE G[n + 1][i + 1] = G[n][i + 1]
      OBVIOUS
    <3>1. i \in 0..(n - 1) /\ i \in 0..((n + 1) - 1) /\ i \in 0..n /\ n + 1 \in Nat
      OBVIOUS
    <3>2. G[n][i + 1] = step[i][G[n][i]]
      BY <1>5, <3>1
    <3>3. G[n + 1][i + 1] = step[i][G[n + 1][i]]
      BY <1>5, <3>1
    <3>4. QED
      BY <2>2, <3>1, <3>2, <3>3
  <2>3. Nat \subseteq A
    <3> HIDE DEF A
    <3>1. QED
      BY <2>1, <2>2, SetInduction, Zenon
  <2>4. QED
    BY <2>3
<1> DEFINE f == [n \in Nat |-> G[n][n]]
<1>7. f \in [Nat -> Int] /\ f[0] = v0
  BY <1>5
<1>8. ASSUME NEW n \in Nat PROVE f[n + 1] = step[n][f[n]]
  <2>1. G[n + 1][n + 1] = step[n][G[n + 1][n]]
    BY <1>5
  <2>2. G[n + 1][n] = G[n][n]
    BY <1>6, n \in 0..n
  <2>3. QED
    BY <2>1, <2>2
<1>9. QED
  BY <1>7, <1>8

-----------------------------------------------------------------------------
(* Powers of two.                                                          *)

LEMMA Pow2Recursion ==
    \A n \in Nat : Pow2[n] = IF n = 0 THEN 1 ELSE 2 * Pow2[n - 1]
<1> DEFINE step == [n \in Nat |-> [v \in Int |-> 2 * v]]
<1>1. step \in [Nat -> [Int -> Int]] /\ 1 \in Int
  OBVIOUS
<1>2. PICK f \in [Nat -> Int] : f[0] = 1 /\ \A n \in Nat : f[n + 1] = step[n][f[n]]
  <2> HIDE DEF step
  <2>1. QED
    BY <1>1, PrimitiveRecursion
<1>3. \A n \in Nat : f[n] = IF n = 0 THEN 1 ELSE 2 * f[n - 1]
  <2> SUFFICES ASSUME NEW n \in Nat, n # 0 PROVE f[n] = 2 * f[n - 1]
    BY <1>2
  <2>1. n - 1 \in Nat /\ (n - 1) + 1 = n
    OBVIOUS
  <2>2. QED
    BY <1>2, <2>1
<1>4. f = [n \in Nat |-> IF n = 0 THEN 1 ELSE 2 * f[n - 1]]
  BY <1>3
<1>5. Pow2 = [n \in Nat |-> IF n = 0 THEN 1 ELSE 2 * Pow2[n - 1]]
  BY <1>4 DEF Pow2
<1> HIDE DEF step
<1>6. QED
  BY <1>5, Zenon

LEMMA Pow2Facts ==
    /\ Pow2[0] = 1
    /\ \A n \in Nat : Pow2[n] \in Nat \ {0} /\ Pow2[n + 1] = 2 * Pow2[n]
<1>1. Pow2[0] = 1
  BY Pow2Recursion
<1>2. ASSUME NEW n \in Nat PROVE Pow2[n + 1] = 2 * Pow2[n]
  <2>1. n + 1 \in Nat /\ n + 1 # 0 /\ (n + 1) - 1 = n
    OBVIOUS
  <2>2. QED
    BY <2>1, Pow2Recursion
<1> DEFINE S == {n \in Nat : Pow2[n] \in Nat \ {0}}
<1>3. 0 \in S
  BY <1>1
<1>4. ASSUME NEW n \in Nat, n \in S PROVE n + 1 \in S
  BY <1>2, <1>4
<1>5. Nat \subseteq S
  <2> HIDE DEF S
  <2>1. QED
    BY <1>3, <1>4, SetInduction
<1>6. QED
  BY <1>1, <1>2, <1>5

LEMMA Pow2OfSum ==
    ASSUME NEW m \in Nat, NEW n \in Nat
    PROVE  Pow2[m + n] = Pow2[m] * Pow2[n]
<1> DEFINE S == {k \in Nat : Pow2[m + k] = Pow2[m] * Pow2[k]}
<1>1. 0 \in S
  BY Pow2Facts
<1>2. ASSUME NEW k \in Nat, k \in S PROVE k + 1 \in S
  <2>1. m + k \in Nat /\ m + (k + 1) = (m + k) + 1 /\ Pow2[m] \in Int /\ Pow2[k] \in Int
    BY Pow2Facts
  <2>2. Pow2[m + (k + 1)] = 2 * Pow2[m + k] /\ Pow2[k + 1] = 2 * Pow2[k]
    BY <2>1, Pow2Facts
  <2>3. Pow2[m] * (2 * Pow2[k]) = 2 * (Pow2[m] * Pow2[k])
    BY <2>1
  <2>4. QED
    BY <1>2, <2>2, <2>3
<1>3. Nat \subseteq S
  <2> HIDE DEF S
  <2>1. QED
    BY <1>1, <1>2, SetInduction
<1>4. QED
  BY <1>3

LEMMA Pow2Exceeds == \A n \in Nat : n < Pow2[n]
<1> DEFINE S == {n \in Nat : n < Pow2[n]}
<1>1. 0 \in S
  BY Pow2Facts
<1>2. ASSUME NEW n \in Nat, n \in S PROVE n + 1 \in S
  BY <1>2, Pow2Facts
<1>3. Nat \subseteq S
  <2> HIDE DEF S
  <2>1. QED
    BY <1>1, <1>2, SetInduction
<1>4. QED
  BY <1>3

LEMMA Pow2Divides ==
    ASSUME NEW m \in Nat, NEW n \in Nat, m <= n
    PROVE  \E k \in Nat \ {0} : Pow2[n] = Pow2[m] * k
<1> DEFINE k == n - m
<1>1. k \in Nat /\ n = m + k
  OBVIOUS
<1> HIDE DEF k
<1>2. Pow2[m + k] = Pow2[m] * Pow2[k] /\ Pow2[k] \in Nat \ {0}
  BY <1>1, Pow2OfSum, Pow2Facts
<1>3. QED
  BY <1>1, <1>2

-----------------------------------------------------------------------------
(* Sums.                                                                   *)

(* The function that Sum chooses is the one its definition describes.      *)
LEMMA SumRecursion ==
    ASSUME NEW n \in Nat, NEW f, \A i \in 0..(n - 1) : f[i] \in Int
    PROVE  \E s \in [0..n -> Int] :
              /\ s[0] = 0 /\ s[n] = Sum(f, n)
              /\ \A i \in 0..(n - 1) : s[i + 1] = s[i] + f[i]
<1> DEFINE step == [i \in Nat |-> [v \in Int |-> v + IF i \in 0..(n - 1) THEN f[i] ELSE 0]]
           s == CHOOSE t : t = [i \in 0..n |-> IF i = 0 THEN 0 ELSE t[i - 1] + f[i - 1]]
<1>1. step \in [Nat -> [Int -> Int]] /\ 0 \in Int
  OBVIOUS
<1>2. PICK g \in [Nat -> Int] : g[0] = 0 /\ \A i \in Nat : g[i + 1] = step[i][g[i]]
  <2> HIDE DEF step
  <2>1. QED
    BY <1>1, PrimitiveRecursion
<1> DEFINE t == [i \in 0..n |-> g[i]]
<1>3. \A i \in 0..n : t[i] = IF i = 0 THEN 0 ELSE t[i - 1] + f[i - 1]
  <2> SUFFICES ASSUME NEW i \in 0..n, i # 0 PROVE g[i] = g[i - 1] + f[i - 1]
    BY <1>2
  <2>1. i - 1 \in Nat /\ i - 1 \in 0..(n - 1) /\ (i - 1) + 1 = i /\ g[i - 1] \in Int
    OBVIOUS
  <2>2. QED
    BY <1>2, <2>1
<1>4. t = [i \in 0..n |-> IF i = 0 THEN 0 ELSE t[i - 1] + f[i - 1]]
  BY <1>3
<1>5. s = [i \in 0..n |-> IF i = 0 THEN 0 ELSE s[i - 1] + f[i - 1]]
  <2> HIDE DEF t
  <2>1. QED
    BY <1>4
<1>6. s[n] = Sum(f, n)
  BY DEF Sum
<1> HIDE DEF s, step
<1>7. \A i \in 0..n : s[i] = IF i = 0 THEN 0 ELSE s[i - 1] + f[i - 1]
  BY <1>5, Zenon
<1> DEFINE A == {i \in Nat : i \in 0..n => s[i] \in Int}
<1>8. 0 \in A
  BY <1>7
<1>9. ASSUME NEW i \in Nat PROVE i \in 0..(n - 1) => s[i + 1] = s[i] + f[i]
  <2> SUFFICES ASSUME i \in 0..(n - 1) PROVE s[i + 1] = s[i] + f[i]
    OBVIOUS
  <2>1. i + 1 \in 0..n /\ i + 1 # 0 /\ (i + 1) - 1 = i
    OBVIOUS
  <2>2. QED
    BY <1>7, <2>1
<1>10. ASSUME NEW i \in Nat, i \in A PROVE i + 1 \in A
  <2> SUFFICES ASSUME i + 1 \in 0..n PROVE s[i + 1] \in Int
    OBVIOUS
  <2>1. i \in 0..(n - 1) /\ i \in 0..n
    OBVIOUS
  <2>2. QED
    BY <1>9, <1>10, <2>1
<1>11. Nat \subseteq A
  <2> HIDE DEF A
  <2>1. QED
    BY <1>8, <1>10, SetInduction, Zenon
<1>12. \A i \in 0..n : s[i] \in Int
  BY <1>11
<1> HIDE DEF A, t
<1>13. s \in [0..n -> Int]
  <2>1. s = [i \in 0..n |-> s[i]]
    BY <1>5, Zenon
  <2>2. [i \in 0..n |-> s[i]] \in [0..n -> Int]
    BY <1>12
  <2>3. QED
    BY <2>1, <2>2, Zenon
<1>14. s[0] = 0
  BY <1>7
<1>15. \A i \in 0..(n - 1) : s[i + 1] = s[i] + f[i]
  BY <1>9
<1>16. QED
  BY <1>6, <1>13, <1>14, <1>15, Zenon

LEMMA SumOfNothing == ASSUME NEW f PROVE Sum(f, 0) = 0
<1>1. \A i \in 0..(0 - 1) : f[i] \in Int
  OBVIOUS
<1>2. QED
  BY <1>1, SumRecursion

(* Adding one more term, which is what an induction over words needs.      *)
LEMMA SumOfMore ==
    ASSUME NEW n \in Nat, NEW f, \A i \in 0..n : f[i] \in Int
    PROVE  /\ Sum(f, n) \in Int
           /\ Sum(f, n + 1) = Sum(f, n) + f[n]
<1>1. PICK s \in [0..n -> Int] :
         /\ s[0] = 0 /\ s[n] = Sum(f, n)
         /\ \A i \in 0..(n - 1) : s[i + 1] = s[i] + f[i]
  <2>1. \A i \in 0..(n - 1) : f[i] \in Int
    OBVIOUS
  <2>2. QED
    BY <2>1, SumRecursion
<1>2. PICK t \in [0..(n + 1) -> Int] :
         /\ t[0] = 0 /\ t[n + 1] = Sum(f, n + 1)
         /\ \A i \in 0..n : t[i + 1] = t[i] + f[i]
  <2>1. n + 1 \in Nat /\ (n + 1) - 1 = n
    OBVIOUS
  <2>2. \E t \in [0..(n + 1) -> Int] :
           /\ t[0] = 0 /\ t[n + 1] = Sum(f, n + 1)
           /\ \A i \in 0..((n + 1) - 1) : t[i + 1] = t[i] + f[i]
    BY <2>1, SumRecursion
  <2>3. QED
    BY <2>1, <2>2
<1> DEFINE A == {i \in Nat : i \in 0..n => t[i] = s[i]}
<1>3. 0 \in A
  BY <1>1, <1>2
<1>4. ASSUME NEW i \in Nat, i \in A PROVE i + 1 \in A
  <2> SUFFICES ASSUME i + 1 \in 0..n PROVE t[i + 1] = s[i + 1]
    OBVIOUS
  <2>1. i \in 0..(n - 1) /\ i \in 0..n
    OBVIOUS
  <2>2. QED
    BY <1>1, <1>2, <1>4, <2>1
<1>5. Nat \subseteq A
  <2> HIDE DEF A
  <2>1. QED
    BY <1>3, <1>4, SetInduction, Zenon
<1>6. t[n] = s[n] /\ n \in 0..n
  BY <1>5
<1>7. QED
  BY <1>1, <1>2, <1>6

(* Only the terms matter.                                                  *)
LEMMA SumOfSame ==
    ASSUME NEW n \in Nat, NEW f, NEW g,
           \A i \in 0..(n - 1) : f[i] \in Int /\ f[i] = g[i]
    PROVE  Sum(f, n) = Sum(g, n)
<1> DEFINE A == {k \in Nat : k <= n => Sum(f, k) = Sum(g, k)}
<1>1. 0 \in A
  BY SumOfNothing
<1>2. ASSUME NEW k \in Nat, k \in A PROVE k + 1 \in A
  <2> SUFFICES ASSUME k + 1 <= n PROVE Sum(f, k + 1) = Sum(g, k + 1)
    OBVIOUS
  <2>1. \A i \in 0..k : f[i] \in Int /\ g[i] \in Int
    OBVIOUS
  <2>2. Sum(f, k + 1) = Sum(f, k) + f[k] /\ Sum(g, k + 1) = Sum(g, k) + g[k]
    BY <2>1, SumOfMore
  <2>3. f[k] = g[k] /\ Sum(f, k) = Sum(g, k)
    BY <1>2
  <2>4. QED
    BY <2>2, <2>3
<1>3. Nat \subseteq A
  <2> HIDE DEF A
  <2>1. QED
    BY <1>1, <1>2, SetInduction, Zenon
<1>4. QED
  BY <1>3

-----------------------------------------------------------------------------
(* Quotients and remainders by a positive number.                          *)

LEMMA DivisionUnique ==
    ASSUME NEW m \in Nat \ {0}, NEW q \in Int, NEW r \in 0..(m - 1)
    PROVE  (m * q + r) % m = r /\ (m * q + r) \div m = q
OBVIOUS

LEMMA DivisionOf ==
    ASSUME NEW m \in Nat \ {0}, NEW x \in Int
    PROVE  /\ x \div m \in Int /\ x % m \in 0..(m - 1)
           /\ x = m * (x \div m) + (x % m)
OBVIOUS

(* Numbers that differ by a multiple of m are the same modulo m.           *)
LEMMA SameRemainder ==
    ASSUME NEW m \in Nat \ {0}, NEW x \in Int, NEW y \in Int,
           \E k \in Int : y = x + m * k
    PROVE  y % m = x % m
<1> DEFINE q == x \div m
           r == x % m
<1>1. q \in Int /\ r \in 0..(m - 1) /\ x = m * q + r
  BY DivisionOf
<1> HIDE DEF q, r
<1>2. PICK k \in Int : y = x + m * k
  OBVIOUS
<1> DEFINE l == q + k
<1>3. y = m * l + r /\ l \in Int
  BY <1>1, <1>2
<1> HIDE DEF l
<1>4. (m * l + r) % m = r
  BY <1>1, <1>3, DivisionUnique
<1>5. QED
  BY <1>3, <1>4 DEF r

(* A remainder by a multiple keeps the remainder by the factor.            *)
LEMMA RemainderOfRemainder ==
    ASSUME NEW m \in Nat \ {0}, NEW n \in Nat \ {0}, NEW x \in Int
    PROVE  (\E k \in Nat : n = m * k) => (x % n) % m = x % m
<1> DEFINE q == x \div n
           r == x % n
<1>1. q \in Int /\ r \in Int /\ x = n * q + r
  BY DivisionOf
<1> HIDE DEF q, r
<1> SUFFICES ASSUME NEW k \in Nat, n = m * k PROVE r % m = x % m
  BY DEF r
<1> DEFINE l == k * q
<1>2. x = r + m * l /\ l \in Int
  BY <1>1
<1> HIDE DEF l
<1>3. QED
  BY <1>1, <1>2, SameRemainder

(* The same for products and sums: a factor or a term counts modulo m.     *)
LEMMA RemainderOfSum ==
    ASSUME NEW m \in Nat \ {0}, NEW x \in Int, NEW y \in Int
    PROVE  ((x % m) + (y % m)) % m = (x + y) % m
<1> DEFINE a == x % m
           b == y % m
           p == x \div m
           q == y \div m
<1>1. p \in Int /\ q \in Int /\ a \in Int /\ b \in Int /\ x = m * p + a /\ y = m * q + b
  BY DivisionOf
<1> HIDE DEF a, b, p, q
<1> DEFINE c == a + b
           k == p + q
<1>2. c \in Int /\ k \in Int /\ x + y = c + m * k
  BY <1>1
<1> HIDE DEF c, k
<1>3. (x + y) % m = c % m
  <2>1. x + y \in Int
    OBVIOUS
  <2>2. QED
    BY <1>2, <2>1, SameRemainder
<1>4. QED
  BY <1>3 DEF a, b, c

LEMMA RemainderOfProduct ==
    ASSUME NEW m \in Nat \ {0}, NEW x \in Int, NEW y \in Int
    PROVE  ((x % m) * (y % m)) % m = (x * y) % m
<1> DEFINE a == x % m
           b == y % m
           p == x \div m
           q == y \div m
<1>1. p \in Int /\ q \in Int /\ a \in Int /\ b \in Int /\ x = m * p + a /\ y = m * q + b
  BY DivisionOf
<1> HIDE DEF a, b, p, q
<1> DEFINE k == m * (p * q) + p * b + a * q
           c == a * b
<1>2. k \in Int /\ c \in Int
  BY <1>1
<1>3. x * y = c + m * k
  <2>1. x * y = (m * p) * (m * q) + (m * p) * b + a * (m * q) + a * b
    BY <1>1
  <2>2. (m * p) * (m * q) = m * (m * (p * q)) /\ (m * p) * b = m * (p * b)
        /\ a * (m * q) = m * (a * q)
    BY <1>1
  <2>3. m * k = m * (m * (p * q)) + m * (p * b) + m * (a * q)
    BY <1>1
  <2>4. QED
    BY <1>1, <2>1, <2>2, <2>3
<1> HIDE DEF k, c
<1>4. (x * y) % m = c % m
  <2>1. x * y \in Int
    OBVIOUS
  <2>2. QED
    BY <1>2, <1>3, <2>1, SameRemainder
<1>5. QED
  BY <1>4 DEF a, b, c

(* Dividing in two steps, which is how a digit is taken out of a word.     *)
LEMMA DivisionInSteps ==
    ASSUME NEW m \in Nat \ {0}, NEW n \in Nat \ {0}, NEW x \in Nat
    PROVE  x % (m * n) = (x % m) + m * ((x \div m) % n)
<1> DEFINE q == x \div m
           r == x % m
           p == q \div n
           s == q % n
<1>1. q \in Int /\ r \in 0..(m - 1) /\ x = m * q + r
  BY DivisionOf
<1>2. p \in Int /\ s \in 0..(n - 1) /\ q = n * p + s
  BY <1>1, DivisionOf
<1> HIDE DEF q, r, p, s
<1> DEFINE t == r + m * s
           l == m * n
<1>3. x = l * p + t /\ l \in Nat \ {0}
  BY <1>1, <1>2
<1>4. t \in 0..(l - 1)
  <2>1. m * s \in Nat /\ m * s <= m * (n - 1)
    BY <1>2
  <2>2. m * (n - 1) = l - m
    OBVIOUS
  <2> HIDE DEF l
  <2>3. QED
    BY <1>1, <1>2, <1>3, <2>1, <2>2
<1> HIDE DEF t, l
<1>5. (l * p + t) % l = t
  BY <1>2, <1>3, <1>4, DivisionUnique
<1>6. QED
  BY <1>3, <1>5 DEF q, r, p, s, t, l

-----------------------------------------------------------------------------
(* Sums term by term, and words made of digits.                            *)

LEMMA SumOfSums ==
    ASSUME NEW n \in Nat, NEW f, NEW g, NEW h,
           \A i \in 0..(n - 1) : f[i] \in Int /\ g[i] \in Int /\ h[i] = f[i] + g[i]
    PROVE  Sum(h, n) = Sum(f, n) + Sum(g, n)
<1> DEFINE A == {k \in Nat : k <= n => Sum(h, k) = Sum(f, k) + Sum(g, k)}
<1>1. 0 \in A
  BY SumOfNothing
<1>2. ASSUME NEW k \in Nat, k \in A PROVE k + 1 \in A
  <2> SUFFICES ASSUME k + 1 <= n PROVE Sum(h, k + 1) = Sum(f, k + 1) + Sum(g, k + 1)
    OBVIOUS
  <2>1. \A i \in 0..k : f[i] \in Int /\ g[i] \in Int /\ h[i] \in Int
    OBVIOUS
  <2>2. /\ Sum(f, k + 1) = Sum(f, k) + f[k] /\ Sum(f, k) \in Int
        /\ Sum(g, k + 1) = Sum(g, k) + g[k] /\ Sum(g, k) \in Int
        /\ Sum(h, k + 1) = Sum(h, k) + h[k]
    BY <2>1, SumOfMore
  <2>3. h[k] = f[k] + g[k] /\ Sum(h, k) = Sum(f, k) + Sum(g, k)
        /\ f[k] \in Int /\ g[k] \in Int
    BY <1>2
  <2>4. QED
    BY <2>2, <2>3
<1>3. Nat \subseteq A
  <2> HIDE DEF A
  <2>1. QED
    BY <1>1, <1>2, SetInduction, Zenon
<1>4. QED
  BY <1>3

LEMMA SumOfSmaller ==
    ASSUME NEW n \in Nat, NEW f, NEW g,
           \A i \in 0..(n - 1) : f[i] \in Int /\ g[i] \in Int /\ f[i] <= g[i]
    PROVE  Sum(f, n) <= Sum(g, n)
<1> DEFINE A == {k \in Nat : k <= n => Sum(f, k) <= Sum(g, k)}
<1>1. 0 \in A
  BY SumOfNothing
<1>2. ASSUME NEW k \in Nat, k \in A PROVE k + 1 \in A
  <2> SUFFICES ASSUME k + 1 <= n PROVE Sum(f, k + 1) <= Sum(g, k + 1)
    OBVIOUS
  <2>1. \A i \in 0..k : f[i] \in Int /\ g[i] \in Int
    OBVIOUS
  <2>2. /\ Sum(f, k + 1) = Sum(f, k) + f[k] /\ Sum(f, k) \in Int
        /\ Sum(g, k + 1) = Sum(g, k) + g[k] /\ Sum(g, k) \in Int
    BY <2>1, SumOfMore
  <2>3. f[k] <= g[k] /\ Sum(f, k) <= Sum(g, k) /\ f[k] \in Int /\ g[k] \in Int
    BY <1>2
  <2>4. QED
    BY <2>2, <2>3
<1>3. Nat \subseteq A
  <2> HIDE DEF A
  <2>1. QED
    BY <1>1, <1>2, SetInduction, Zenon
<1>4. QED
  BY <1>3

(* n digits of b bits each make a word of b * n bits,                      *)
LEMMA DigitsMakeWord ==
    ASSUME NEW b \in Nat \ {0}, NEW n \in Nat, NEW digit,
           \A i \in 0..(n - 1) : digit[i] \in 0..(Pow2[b] - 1)
    PROVE  Sum([i \in 0..(n - 1) |-> digit[i] * Pow2[b * i]], n) \in 0..(Pow2[b * n] - 1)
<1> DEFINE f == [i \in 0..(n - 1) |-> digit[i] * Pow2[b * i]]
           A == {k \in Nat : k <= n => Sum(f, k) \in 0..(Pow2[b * k] - 1)}
<1>1. 0 \in A
  <2>1. b * 0 = 0 /\ Pow2[0] = 1 /\ Sum(f, 0) = 0
    BY SumOfNothing, Pow2Facts
  <2>2. QED
    BY <2>1
<1>t. \A i \in 0..(n - 1) : f[i] = digit[i] * Pow2[b * i] /\ Pow2[b * i] \in Nat /\ f[i] \in Int
  <2> SUFFICES ASSUME NEW i \in 0..(n - 1)
               PROVE  f[i] = digit[i] * Pow2[b * i] /\ Pow2[b * i] \in Nat /\ f[i] \in Int
    OBVIOUS
  <2>1. b * i \in Nat /\ Pow2[b] \in Nat
    BY Pow2Facts
  <2>2. Pow2[b * i] \in Nat /\ digit[i] \in Int
    BY <2>1, Pow2Facts
  <2>3. QED
    BY <2>2
<1> HIDE DEF f
<1>2. ASSUME NEW k \in Nat, k \in A PROVE k + 1 \in A
  <2> SUFFICES ASSUME k + 1 <= n PROVE Sum(f, k + 1) \in 0..(Pow2[b * (k + 1)] - 1)
    OBVIOUS
  <2> DEFINE p == Pow2[b * k]
             q == Pow2[b]
             d == digit[k]
             s == Sum(f, k)
  <2>1. Pow2[b * (k + 1)] = p * q /\ p \in Nat \ {0} /\ q \in Nat \ {0}
    <3>1. b * (k + 1) = b * k + b /\ b * k \in Nat
      OBVIOUS
    <3>2. QED
      BY <3>1, Pow2OfSum, Pow2Facts
  <2>2. \A i \in 0..k : f[i] \in Int
    BY <1>t
  <2>3. Sum(f, k + 1) = s + d * p
    <3>1. Sum(f, k + 1) = Sum(f, k) + f[k]
      BY <2>2, SumOfMore
    <3>2. QED
      BY <1>t, <3>1
  <2>4. s \in 0..(p - 1) /\ d \in 0..(q - 1)
    BY <1>2
  <2> HIDE DEF p, q, d, s
  <2>5. d * p <= (q - 1) * p /\ d * p \in Nat /\ (q - 1) * p = p * q - p
    BY <2>1, <2>4
  <2>6. QED
    BY <2>1, <2>3, <2>4, <2>5
<1>3. Nat \subseteq A
  <2> HIDE DEF A
  <2>1. QED
    BY <1>1, <1>2, SetInduction, Zenon
<1>4. Sum(f, n) \in 0..(Pow2[b * n] - 1)
  BY <1>3
<1>5. QED
  BY <1>4 DEF f

(* and the digits of a number make up its remainder.                       *)
LEMMA WordOfDigits ==
    ASSUME NEW b \in Nat \ {0}, NEW n \in Nat, NEW v \in Nat
    PROVE  Sum([i \in 0..(n - 1) |-> ((v \div Pow2[b * i]) % Pow2[b]) * Pow2[b * i]], n)
             = v % Pow2[b * n]
<1> DEFINE f == [i \in 0..(n - 1) |-> ((v \div Pow2[b * i]) % Pow2[b]) * Pow2[b * i]]
           A == {k \in Nat : k <= n => Sum(f, k) = v % Pow2[b * k]}
<1>1. 0 \in A
  <2>1. b * 0 = 0 /\ Pow2[0] = 1 /\ Sum(f, 0) = 0
    BY SumOfNothing, Pow2Facts
  <2>2. QED
    BY <2>1
<1>p. \A k \in Nat : Pow2[b * k] \in Nat \ {0} /\ Pow2[b] \in Nat \ {0}
                     /\ Pow2[b * (k + 1)] = Pow2[b * k] * Pow2[b]
  <2> SUFFICES ASSUME NEW k \in Nat
               PROVE  Pow2[b * k] \in Nat \ {0} /\ Pow2[b] \in Nat \ {0}
                      /\ Pow2[b * (k + 1)] = Pow2[b * k] * Pow2[b]
    OBVIOUS
  <2>1. b * (k + 1) = b * k + b /\ b * k \in Nat
    OBVIOUS
  <2>2. QED
    BY <2>1, Pow2OfSum, Pow2Facts
<1>t. \A i \in 0..(n - 1) :
         f[i] = ((v \div Pow2[b * i]) % Pow2[b]) * Pow2[b * i] /\ f[i] \in Int
  <2> SUFFICES ASSUME NEW i \in 0..(n - 1)
               PROVE  /\ f[i] = ((v \div Pow2[b * i]) % Pow2[b]) * Pow2[b * i]
                      /\ f[i] \in Int
    OBVIOUS
  <2> DEFINE p == Pow2[b * i]
             q == Pow2[b]
  <2>1. f[i] = ((v \div p) % q) * p /\ p \in Nat \ {0} /\ q \in Nat \ {0}
    BY <1>p
  <2> HIDE DEF p, q, f
  <2>2. ((v \div p) % q) * p \in Int
    BY <2>1
  <2>3. QED
    BY <2>1, <2>2 DEF p, q
<1> HIDE DEF f
<1>2. ASSUME NEW k \in Nat, k \in A PROVE k + 1 \in A
  <2> SUFFICES ASSUME k + 1 <= n PROVE Sum(f, k + 1) = v % Pow2[b * (k + 1)]
    OBVIOUS
  <2> DEFINE p == Pow2[b * k]
             q == Pow2[b]
             d == (v \div p) % q
  <2>1. \A i \in 0..k : f[i] \in Int
    BY <1>t
  <2>2. Sum(f, k + 1) = Sum(f, k) + f[k]
    BY <2>1, SumOfMore
  <2>3. f[k] = d * p /\ Sum(f, k) = v % p
    BY <1>2, <1>t
  <2>4. p \in Nat \ {0} /\ q \in Nat \ {0} /\ Pow2[b * (k + 1)] = p * q
    BY <1>p
  <2> HIDE DEF p, q
  <2>5. v % (p * q) = (v % p) + p * d
    BY <2>4, DivisionInSteps
  <2>6. d \in Int
    BY <2>4
  <2> HIDE DEF d
  <2>7. d * p = p * d
    BY <2>4, <2>6
  <2>8. QED
    BY <2>2, <2>3, <2>4, <2>5, <2>7
<1>3. Nat \subseteq A
  <2> HIDE DEF A
  <2>1. QED
    BY <1>1, <1>2, SetInduction, Zenon
<1>4. Sum(f, n) = v % Pow2[b * n]
  BY <1>3
<1>5. QED
  BY <1>4 DEF f

=============================================================================
