------------------------------- MODULE Numbers -------------------------------
(***************************************************************************)
(* Lemmas about numbers that the proofs of several components need:        *)
(* induction, and what recursive functions on 0 .. n compute, sums and     *)
(* products first; division with remainder for any divisor, which the      *)
(* solver knows only for divisors that are numbers.                        *)
(***************************************************************************)
EXTENDS Integers, Sequences, SeqSums, TLAPS, WellFoundedInduction

(* A set of natural numbers has a least one. *)
LEMMA Least ==
  ASSUME NEW T \in SUBSET Nat, T # {}
  PROVE  \E x \in T : \A y \in T : ~(y < x)
  <1> DEFINE R == OpToRel(<, Nat)
  <1>1. IsWellFoundedOn(R, Nat)
    BY NatLessThanWellFounded
  <1>2. \A x, y \in Nat : y < x => <<y, x>> \in R
    BY DEF OpToRel
  <1> HIDE DEF R
  <1>3. \E x \in T : \A y \in T : ~(<<y, x>> \in R)
    BY <1>1, WFMin, Zenon
  <1> QED BY <1>2, <1>3

(* Induction, for the set of numbers that have a property. *)
LEMMA Induction ==
  ASSUME NEW S \in SUBSET Nat, 0 \in S, \A k \in S : k + 1 \in S
  PROVE  \A k \in Nat : k \in S
  <1> SUFFICES ASSUME \E k \in Nat : k \notin S PROVE FALSE
    OBVIOUS
  <1>1. PICK k \in Nat \ S : \A i \in Nat \ S : ~(i < k)
    <2> Nat \ S \in SUBSET Nat /\ Nat \ S # {}
      OBVIOUS
    <2> QED BY Least
  <1>2. k - 1 \in Nat /\ k - 1 < k
    BY <1>1
  <1>3. k - 1 \in S
    BY <1>1, <1>2
  <1>4. (k - 1) + 1 \in S
    BY <1>3
  <1> QED BY <1>1, <1>4

(* A function on 0 .. n defined by its first value and a step exists. *)
Extends(g, m, first, step) ==
  /\ g \in [0 .. m -> Int]
  /\ g[0] = first
  /\ \A k \in 1 .. m : g[k] = step[<<k, g[k - 1]>>]

(* A recursive function on 0 .. n exists. *)
LEMMA Recursion ==
  ASSUME NEW n \in Nat, NEW first \in Int, NEW step \in [(1 .. n) \X Int -> Int]
  PROVE  \E g : Extends(g, n, first, step)
  <1> DEFINE S == {m \in Nat : m <= n => \E g : Extends(g, m, first, step)}
  <1>1. 0 \in S
    <2> DEFINE g == [k \in 0 .. 0 |-> first]
    <2>1. g \in [0 .. 0 -> Int] /\ g[0] = first /\ 1 .. 0 = {}
      OBVIOUS
    <2>2. Extends(g, 0, first, step)
      BY <2>1 DEF Extends
    <2> QED BY <2>2
  <1>2. ASSUME NEW m \in Nat, m + 1 <= n, NEW f, Extends(f, m, first, step)
        PROVE  \E g : Extends(g, m + 1, first, step)
    <2> DEFINE x == step[<<m + 1, f[m]>>]
               g == [k \in 0 .. m + 1 |-> IF k <= m THEN f[k] ELSE x]
    <2>1. /\ f \in [0 .. m -> Int] /\ f[0] = first
          /\ \A k \in 1 .. m : f[k] = step[<<k, f[k - 1]>>]
      BY <1>2 DEF Extends
    <2>2. <<m + 1, f[m]>> \in (1 .. n) \X Int
      BY <1>2, <2>1
    <2>3. x \in Int
      BY <2>2
    <2> HIDE DEF x
    <2>4. g \in [0 .. m + 1 -> Int] /\ g[0] = first
      BY <2>1, <2>3
    <2>5. /\ \A k \in 0 .. m : g[k] = f[k]
          /\ g[m + 1] = x
      OBVIOUS
    <2> HIDE DEF g
    <2>6. ASSUME NEW k \in 1 .. m + 1 PROVE g[k] = step[<<k, g[k - 1]>>]
      <3>1. CASE k <= m
        <4>1. g[k] = f[k] /\ g[k - 1] = f[k - 1] /\ k \in 1 .. m
          BY <2>5, <3>1
        <4> QED BY <2>1, <4>1
      <3>2. CASE k = m + 1
        <4>1. g[k - 1] = f[m]
          BY <2>5, <3>2
        <4> QED BY <2>5, <3>2, <4>1 DEF x
      <3> QED BY <3>1, <3>2
    <2>7. Extends(g, m + 1, first, step)
      BY <2>4, <2>6 DEF Extends
    <2> QED BY <2>7
  <1>3. ASSUME NEW m \in S PROVE m + 1 \in S
    <2>1. CASE m + 1 <= n
      <3>1. PICK f : Extends(f, m, first, step)
        BY <2>1
      <3> QED BY <1>2, <2>1, <3>1
    <2>2. CASE ~(m + 1 <= n)
      BY <2>2
    <2> QED BY <2>1, <2>2
  <1>4. \A m \in Nat : m \in S
    <2>1. S \in SUBSET Nat
      OBVIOUS
    <2> HIDE DEF S
    <2> QED BY <1>1, <1>3, <2>1, Induction
  <1> QED BY <1>4

------------------------------------------------------------------------------
(* The equations of Products *)
LEMMA ProductsStep ==
  ASSUME NEW f \in Seq(Nat \ {0})
  PROVE  /\ Products(f)[0] = 1
         /\ \A k \in 1 .. Len(f) : Products(f)[k] = Products(f)[k - 1] * f[k]
         /\ \A k \in 0 .. Len(f) : Products(f)[k] \in Nat \ {0}
  <1> DEFINE n == Len(f)
             F(g) == [k \in 0 .. n |-> IF k = 0 THEN 1 ELSE g[k - 1] * f[k]]
             step == [p \in (1 .. n) \X Int |-> p[2] * f[p[1]]]
             P == Products(f)
  <1>1. n \in Nat /\ \A k \in 1 .. n : f[k] \in Nat \ {0}
    OBVIOUS
  <1>2. step \in [(1 .. n) \X Int -> Int]
    BY <1>1
  <1> HIDE DEF step
  <1> HIDE DEF n
  <1>3. PICK g : Extends(g, n, 1, step)
    <2>1. 1 \in Int /\ n \in Nat
      BY <1>1
    <2> QED BY <1>2, <2>1, Recursion, Zenon
  <1>4. g = F(g)
    <2>1. ASSUME NEW k \in 1 .. n PROVE step[<<k, g[k - 1]>>] = g[k - 1] * f[k]
      <3>1. g[k - 1] \in Int
        BY <1>1, <1>3 DEF Extends
      <3> QED BY <3>1 DEF step
    <2>2. g \in [0 .. n -> Int] /\ g[0] = 1
          /\ \A k \in 1 .. n : g[k] = g[k - 1] * f[k]
      BY <1>3, <2>1 DEF Extends
    <2> QED BY <1>1, <2>2
  <1>5. P = CHOOSE h : h = F(h)
    BY DEF Products, n
  <1>6. P = F(P)
    BY <1>4, <1>5
  <1> HIDE DEF P
  <1>7. P[0] = 1 /\ \A k \in 1 .. n : P[k] = P[k - 1] * f[k]
    BY <1>1, <1>6
  <1> DEFINE S == {k \in Nat : k <= n => P[k] \in Nat \ {0}}
  <1>8. 0 \in S
    BY <1>7
  <1>9. ASSUME NEW k \in S PROVE k + 1 \in S
    <2> SUFFICES ASSUME k + 1 <= n PROVE P[k + 1] \in Nat \ {0}
      OBVIOUS
    <2>1. k + 1 \in 1 .. n /\ (k + 1) - 1 = k
      BY <1>1
    <2>2. P[k + 1] = P[k] * f[k + 1] /\ P[k] \in Nat \ {0} /\ f[k + 1] \in Nat \ {0}
      BY <1>1, <1>7, <2>1
    <2>3. \A x, y \in Nat \ {0} : x * y \in Nat \ {0}
      OBVIOUS
    <2> QED BY <2>2, <2>3
  <1>10. \A k \in Nat : k \in S
    <2>1. S \in SUBSET Nat
      OBVIOUS
    <2> HIDE DEF S
    <2> QED BY <1>8, <1>9, <2>1, Induction
  <1>11. \A k \in 0 .. n : P[k] \in Nat \ {0}
    BY <1>1, <1>10
  <1> QED BY <1>7, <1>11 DEF P, n

(* A longer product is a multiple of a shorter one. *)
LEMMA ProductsFactor ==
  ASSUME NEW f \in Seq(Nat \ {0}), NEW k \in 0 .. Len(f), NEW l \in k .. Len(f)
  PROVE  \E x \in Nat \ {0} : Products(f)[l] = Products(f)[k] * x
  <1> DEFINE P == Products(f)
             S == {i \in Nat : k + i <= Len(f) =>
                     \E x \in Nat \ {0} : P[k + i] = P[k] * x}
  <1>1. /\ Len(f) \in Nat /\ \A i \in 1 .. Len(f) : f[i] \in Nat \ {0}
        /\ \A i \in 1 .. Len(f) : P[i] = P[i - 1] * f[i]
        /\ \A i \in 0 .. Len(f) : P[i] \in Nat \ {0}
    BY ProductsStep
  <1> HIDE DEF P
  <1>2. 0 \in S
    <2>1. P[k + 0] = P[k] * 1 /\ 1 \in Nat \ {0}
      BY <1>1
    <2> QED BY <2>1
  <1>3. ASSUME NEW i \in S PROVE i + 1 \in S
    <2> SUFFICES ASSUME k + (i + 1) <= Len(f)
                 PROVE  \E x \in Nat \ {0} : P[k + (i + 1)] = P[k] * x
      OBVIOUS
    <2>1. PICK x \in Nat \ {0} : P[k + i] = P[k] * x
      BY <1>1
    <2>2. k + (i + 1) \in 1 .. Len(f) /\ (k + (i + 1)) - 1 = k + i /\ k \in 0 .. Len(f)
      BY <1>1
    <2>3. P[k + (i + 1)] = (P[k] * x) * f[k + (i + 1)]
      BY <1>1, <2>1, <2>2
    <2>4. \A a, b, c \in Nat \ {0} : b * c \in Nat \ {0} /\ (a * b) * c = a * (b * c)
      OBVIOUS
    <2>5. P[k] \in Nat \ {0} /\ f[k + (i + 1)] \in Nat \ {0}
      BY <1>1, <2>2
    <2>6. /\ P[k + (i + 1)] = P[k] * (x * f[k + (i + 1)])
          /\ x * f[k + (i + 1)] \in Nat \ {0}
      <3> DEFINE a == P[k]
                 b == f[k + (i + 1)]
      <3>1. a \in Nat \ {0} /\ b \in Nat \ {0} /\ P[k + (i + 1)] = (a * x) * b
        BY <2>3, <2>5
      <3> HIDE DEF a, b
      <3>2. x * b \in Nat \ {0} /\ (a * x) * b = a * (x * b)
        BY <2>4, <3>1
      <3> QED BY <3>1, <3>2 DEF a, b
    <2> QED BY <2>6
  <1>4. \A i \in Nat : i \in S
    <2>1. S \in SUBSET Nat
      OBVIOUS
    <2> HIDE DEF S
    <2> QED BY <1>2, <1>3, <2>1, Induction
  <1>5. l - k \in Nat /\ k + (l - k) = l /\ l <= Len(f)
    BY <1>1
  <1>6. l - k \in S
    BY <1>4, <1>5
  <1>7. \E x \in Nat \ {0} : P[l] = P[k] * x
    BY <1>5, <1>6
  <1> QED BY <1>7 DEF P

(* The equations of Sums *)
LEMMA SumsStep ==
  ASSUME NEW f \in Seq(Int)
  PROVE  /\ Sums(f)[0] = 0
         /\ \A k \in 1 .. Len(f) : Sums(f)[k] = Sums(f)[k - 1] + f[k]
         /\ \A k \in 0 .. Len(f) : Sums(f)[k] \in Int
  <1> DEFINE n == Len(f)
             F(g) == [k \in 0 .. n |-> IF k = 0 THEN 0 ELSE g[k - 1] + f[k]]
             step == [p \in (1 .. n) \X Int |-> p[2] + f[p[1]]]
             P == Sums(f)
  <1>1. n \in Nat /\ \A k \in 1 .. n : f[k] \in Int
    OBVIOUS
  <1>2. step \in [(1 .. n) \X Int -> Int]
    BY <1>1
  <1> HIDE DEF step
  <1> HIDE DEF n
  <1>3. PICK g : Extends(g, n, 0, step)
    <2>1. 0 \in Int /\ n \in Nat
      BY <1>1
    <2> QED BY <1>2, <2>1, Recursion, Zenon
  <1>4. g = F(g)
    <2>1. ASSUME NEW k \in 1 .. n PROVE step[<<k, g[k - 1]>>] = g[k - 1] + f[k]
      <3>1. g[k - 1] \in Int
        BY <1>1, <1>3 DEF Extends
      <3> QED BY <3>1 DEF step
    <2>2. g \in [0 .. n -> Int] /\ g[0] = 0
          /\ \A k \in 1 .. n : g[k] = g[k - 1] + f[k]
      BY <1>3, <2>1 DEF Extends
    <2> QED BY <1>1, <2>2
  <1>5. P = CHOOSE h : h = F(h)
    BY DEF Sums, n
  <1>6. P = F(P)
    BY <1>4, <1>5
  <1> HIDE DEF P
  <1>7. P[0] = 0 /\ \A k \in 1 .. n : P[k] = P[k - 1] + f[k]
    BY <1>1, <1>6
  <1> DEFINE S == {k \in Nat : k <= n => P[k] \in Int}
  <1>8. 0 \in S
    BY <1>7
  <1>9. ASSUME NEW k \in S PROVE k + 1 \in S
    <2> SUFFICES ASSUME k + 1 <= n PROVE P[k + 1] \in Int
      OBVIOUS
    <2>1. k + 1 \in 1 .. n /\ (k + 1) - 1 = k
      BY <1>1
    <2> QED BY <1>1, <1>7, <2>1
  <1>10. \A k \in Nat : k \in S
    <2>1. S \in SUBSET Nat
      OBVIOUS
    <2> HIDE DEF S
    <2> QED BY <1>8, <1>9, <2>1, Induction
  <1>11. \A k \in 0 .. n : P[k] \in Int
    BY <1>1, <1>10
  <1> QED BY <1>7, <1>11 DEF P, n

(* A sum of integers is an integer. *)
LEMMA SumType ==
  ASSUME NEW f \in Seq(Int)
  PROVE  Sum(f) \in Int
  <1>1. Len(f) \in 0 .. Len(f)
    OBVIOUS
  <1> QED BY <1>1, SumsStep DEF Sum

(* What holds at a, and at each number up to b if at the one before it,    *)
(* holds at b.                                                             *)
LEMMA Climb ==
  ASSUME NEW T, NEW a \in Nat, NEW b \in Nat, a <= b, a \in T,
         \A k \in a + 1 .. b : k - 1 \in T => k \in T
  PROVE  b \in T
  <1> DEFINE S == {m \in Nat : a + m <= b => a + m \in T}
  <1>1. 0 \in S
    OBVIOUS
  <1>2. ASSUME NEW m \in S PROVE m + 1 \in S
    <2> DEFINE k == a + m + 1
    <2> SUFFICES ASSUME k <= b PROVE k \in T
      OBVIOUS
    <2>1. k \in a + 1 .. b /\ k - 1 = a + m /\ a + m <= b
      OBVIOUS
    <2>2. k - 1 \in T
      BY <2>1
    <2> HIDE DEF k
    <2> QED BY <2>1, <2>2
  <1>3. \A m \in Nat : m \in S
    <2>1. S \in SUBSET Nat
      OBVIOUS
    <2> HIDE DEF S
    <2> QED BY <1>1, <1>2, <2>1, Induction
  <1>4. b - a \in S
    BY <1>3
  <1> QED BY <1>4

(* A sum of zeros but for one summand *)
LEMMA SumSingle ==
  ASSUME NEW f \in Seq(Int), NEW i \in 1 .. Len(f), \A k \in 1 .. Len(f) : k # i => f[k] = 0
  PROVE  Sum(f) = f[i]
  <1> DEFINE F == Sums(f)
             N == Len(f)
             A == {k \in Nat : F[k] = 0}
             B == {k \in Nat : F[k] = f[i]}
  <1>1. /\ N \in Nat /\ i \in 1 .. N /\ f[i] \in Int
        /\ \A k \in 1 .. N : k # i => f[k] = 0
    OBVIOUS
  <1>2. /\ F[0] = 0
        /\ \A k \in 1 .. N : F[k] = F[k - 1] + f[k]
    BY SumsStep
  <1> HIDE DEF F, N
  <1>3. i - 1 \in A
    <2>1. 0 \in A
      BY <1>2
    <2>2. ASSUME NEW k \in 0 + 1 .. i - 1, k - 1 \in A PROVE k \in A
      <3>1. k \in 1 .. N /\ k # i /\ k \in Nat
        BY <1>1
      <3>2. F[k] = F[k - 1] + f[k] /\ f[k] = 0 /\ F[k - 1] = 0
        BY <1>1, <1>2, <2>2, <3>1
      <3> QED BY <3>1, <3>2
    <2>3. 0 \in Nat /\ i - 1 \in Nat /\ 0 <= i - 1
      BY <1>1
    <2> HIDE DEF A
    <2> QED BY <2>1, <2>2, <2>3, Climb
  <1>4. N \in B
    <2>1. i \in B
      <3>1. F[i - 1] = 0 /\ F[i] = F[i - 1] + f[i] /\ i \in Nat
        BY <1>1, <1>2, <1>3
      <3> QED BY <1>1, <3>1
    <2>2. ASSUME NEW k \in i + 1 .. N, k - 1 \in B PROVE k \in B
      <3>1. k \in 1 .. N /\ k # i /\ k \in Nat
        BY <1>1
      <3>2. F[k] = F[k - 1] + f[k] /\ f[k] = 0 /\ F[k - 1] = f[i]
        BY <1>1, <1>2, <2>2, <3>1
      <3> QED BY <1>1, <3>1, <3>2
    <2>3. i \in Nat /\ N \in Nat /\ i <= N
      BY <1>1
    <2> HIDE DEF B
    <2> QED BY <2>1, <2>2, <2>3, Climb
  <1> QED BY <1>4 DEF B, F, N, Sum

(* g is f with its first n values rotated to the left by one. *)
RotatedAt(f, g, n) ==
  /\ Len(g) = Len(f)
  /\ \A k \in 1 .. n - 1 : g[k] = f[k + 1]
  /\ g[n] = f[1]
  /\ \A k \in n + 1 .. Len(f) : g[k] = f[k]

(* A rotation changes neither the sum *)
LEMMA SumRotated ==
  ASSUME NEW f \in Seq(Int), NEW g \in Seq(Int), NEW n \in 1 .. Len(f),
         RotatedAt(f, g, n)
  PROVE  Sum(g) = Sum(f)
  <1> DEFINE F == Sums(f)
             G == Sums(g)
             N == Len(f)
             x == f[1]
             H == [k \in 0 .. N |-> G[k] + x]
  <1>1. /\ \A k \in 1 .. N : F[k] = F[k - 1] + f[k]
        /\ \A k \in 0 .. N : F[k] \in Int
        /\ F[0] = 0
    BY SumsStep
  <1>2. N \in Nat /\ n \in 1 .. N
    OBVIOUS
  <1>3. /\ Len(g) = N
        /\ \A k \in 1 .. n - 1 : g[k] = f[k + 1]
        /\ g[n] = x
        /\ \A k \in n + 1 .. N : g[k] = f[k]
    BY DEF RotatedAt
  <1>4. /\ \A k \in 1 .. N : G[k] = G[k - 1] + g[k]
        /\ \A k \in 0 .. N : G[k] \in Int
        /\ G[0] = 0
    BY <1>3, SumsStep
  <1>5. \A k \in 1 .. N : f[k] \in Int
    OBVIOUS
  <1>6. Sum(g) = G[N] /\ Sum(f) = F[N]
    BY <1>3 DEF Sum
  <1>7. \A k \in 0 .. N : H[k] = G[k] + x
    OBVIOUS
  <1>8. x \in Int
    BY <1>2, <1>5
  <1> HIDE DEF F, G, N, x, H
  <1>9. F[n - 1 + 1] = H[n - 1]
    <2>1. ASSUME NEW k \in 0 + 1 .. n - 1, F[k - 1 + 1] = H[k - 1] PROVE F[k + 1] = H[k]
      <3>1. /\ k \in 1 .. N /\ k \in 0 .. N /\ k - 1 \in 0 .. N /\ k + 1 \in 1 .. N
            /\ k \in 1 .. n - 1 /\ (k + 1) - 1 = k /\ k - 1 + 1 = k
        BY <1>2
      <3>2. F[k + 1] = F[k] + f[k + 1] /\ G[k] = G[k - 1] + g[k] /\ g[k] = f[k + 1]
        BY <1>1, <1>3, <1>4, <3>1
      <3>3. H[k] = G[k] + x /\ F[k] = G[k - 1] + x
        BY <1>7, <2>1, <3>1
      <3>4. \A a, b, c \in Int : (a + c) + b = (a + b) + c
        OBVIOUS
      <3>5. G[k - 1] \in Int /\ g[k] \in Int /\ x \in Int
        BY <1>3, <1>4, <1>5, <1>8, <3>1
      <3>6. (G[k - 1] + x) + g[k] = (G[k - 1] + g[k]) + x
        BY <3>4, <3>5
      <3> QED BY <3>2, <3>3, <3>6
    <2>2. F[0 + 1] = H[0]
      <3>1. 1 \in 1 .. N /\ 0 \in 0 .. N
        BY <1>2
      <3>2. F[1] = F[1 - 1] + f[1]
        BY <1>1, <3>1
      <3>3. F[1] = 0 + x /\ H[0] = 0 + x
        BY <1>1, <1>4, <1>7, <3>1, <3>2 DEF x
      <3> QED BY <3>3
    <2>3. n - 1 \in Nat /\ 0 \in Nat /\ 1 \in Nat /\ 0 <= n - 1
      BY <1>2
    <2> DEFINE T == {k \in Nat : F[k + 1] = H[k]}
    <2>4. ASSUME NEW k \in 0 + 1 .. n - 1, k - 1 \in T PROVE k \in T
      <3>1. F[k - 1 + 1] = H[k - 1]
        BY <2>4
      <3>2. k \in Nat
        BY <1>2, <1>3
      <3>3. F[k + 1] = H[k]
        BY <2>1, <3>1
      <3> QED BY <3>2, <3>3
    <2>5. 0 \in T /\ 0 \in Nat /\ n - 1 \in Nat /\ 0 <= n - 1
      BY <2>2, <2>3
    <2>6. n - 1 \in T
      <3> HIDE DEF T
      <3> QED BY <2>4, <2>5, Climb
    <2> QED BY <2>6
  <1>10. G[n + 0] = F[n]
    <2>1. n - 1 + 1 = n /\ n \in 1 .. N /\ n - 1 \in 0 .. N /\ n + 0 = n
      BY <1>2
    <2>2. G[n] = G[n - 1] + x /\ H[n - 1] = G[n - 1] + x
      BY <1>3, <1>4, <1>7, <2>1
    <2> QED BY <1>9, <2>1, <2>2
  <1>11. G[N + 0] = F[N]
    <2>1. ASSUME NEW k \in n + 1 .. N, G[k - 1 + 0] = F[k - 1] PROVE G[k + 0] = F[k]
      <3>1. k \in 1 .. N /\ k + 0 = k /\ k - 1 + 0 = k - 1
        BY <1>2
      <3>2. F[k] = F[k - 1] + f[k] /\ G[k] = G[k - 1] + g[k] /\ g[k] = f[k]
        BY <1>1, <1>3, <1>4, <3>1
      <3> QED BY <2>1, <3>1, <3>2
    <2>2. n \in Nat /\ n <= N /\ 0 \in Nat
      BY <1>2
    <2> DEFINE T == {k \in Nat : G[k + 0] = F[k]}
    <2>4. ASSUME NEW k \in n + 1 .. N, k - 1 \in T PROVE k \in T
      <3>1. G[k - 1 + 0] = F[k - 1]
        BY <2>4
      <3>2. k \in Nat
        BY <1>2, <1>3
      <3>3. G[k + 0] = F[k]
        BY <2>1, <3>1
      <3> QED BY <3>2, <3>3
    <2>5. n \in T /\ n \in Nat /\ N \in Nat /\ n <= N
      BY <1>2, <1>10, <2>2
    <2>6. N \in T
      <3> HIDE DEF T
      <3> QED BY <2>4, <2>5, Climb
    <2> QED BY <2>6
  <1> QED BY <1>2, <1>6, <1>11

(* nor the product. *)
LEMMA ProdRotated ==
  ASSUME NEW f \in Seq(Nat \ {0}), NEW g \in Seq(Nat \ {0}), NEW n \in 1 .. Len(f),
         RotatedAt(f, g, n)
  PROVE  Prod(g) = Prod(f)
  <1> DEFINE F == Products(f)
             G == Products(g)
             N == Len(f)
             x == f[1]
             H == [k \in 0 .. N |-> G[k] * x]
  <1>1. /\ \A k \in 1 .. N : F[k] = F[k - 1] * f[k]
        /\ \A k \in 0 .. N : F[k] \in Nat \ {0}
        /\ F[0] = 1
    BY ProductsStep
  <1>2. N \in Nat /\ n \in 1 .. N
    OBVIOUS
  <1>3. /\ Len(g) = N
        /\ \A k \in 1 .. n - 1 : g[k] = f[k + 1]
        /\ g[n] = x
        /\ \A k \in n + 1 .. N : g[k] = f[k]
    BY DEF RotatedAt
  <1>4. /\ \A k \in 1 .. N : G[k] = G[k - 1] * g[k]
        /\ \A k \in 0 .. N : G[k] \in Nat \ {0}
        /\ G[0] = 1
    BY <1>3, ProductsStep
  <1>5. \A k \in 1 .. N : f[k] \in Nat \ {0}
    OBVIOUS
  <1>6. Prod(g) = G[N] /\ Prod(f) = F[N]
    BY <1>3 DEF Prod
  <1>7. \A k \in 0 .. N : H[k] = G[k] * x
    OBVIOUS
  <1>8. x \in Nat \ {0}
    BY <1>2, <1>5
  <1> HIDE DEF F, G, N, x, H
  <1>9. F[n - 1 + 1] = H[n - 1]
    <2>1. ASSUME NEW k \in 0 + 1 .. n - 1, F[k - 1 + 1] = H[k - 1] PROVE F[k + 1] = H[k]
      <3>1. /\ k \in 1 .. N /\ k \in 0 .. N /\ k - 1 \in 0 .. N /\ k + 1 \in 1 .. N
            /\ k \in 1 .. n - 1 /\ (k + 1) - 1 = k /\ k - 1 + 1 = k
        BY <1>2
      <3>2. F[k + 1] = F[k] * f[k + 1] /\ G[k] = G[k - 1] * g[k] /\ g[k] = f[k + 1]
        BY <1>1, <1>3, <1>4, <3>1
      <3>3. H[k] = G[k] * x /\ F[k] = G[k - 1] * x
        BY <1>7, <2>1, <3>1
      <3>4. \A a, b, c \in Nat : (a * c) * b = (a * b) * c
        OBVIOUS
      <3>5. G[k - 1] \in Nat /\ g[k] \in Nat /\ x \in Nat
        BY <1>3, <1>4, <1>5, <1>8, <3>1
      <3>6. (G[k - 1] * x) * g[k] = (G[k - 1] * g[k]) * x
        BY <3>4, <3>5
      <3> QED BY <3>2, <3>3, <3>6
    <2>2. F[0 + 1] = H[0]
      <3>1. 1 \in 1 .. N /\ 0 \in 0 .. N
        BY <1>2
      <3>2. F[1] = F[1 - 1] * f[1]
        BY <1>1, <3>1
      <3>3. F[1] = 1 * x /\ H[0] = 1 * x
        BY <1>1, <1>4, <1>7, <3>1, <3>2 DEF x
      <3> QED BY <3>3
    <2>3. n - 1 \in Nat /\ 0 \in Nat /\ 1 \in Nat /\ 0 <= n - 1
      BY <1>2
    <2> DEFINE T == {k \in Nat : F[k + 1] = H[k]}
    <2>4. ASSUME NEW k \in 0 + 1 .. n - 1, k - 1 \in T PROVE k \in T
      <3>1. F[k - 1 + 1] = H[k - 1]
        BY <2>4
      <3>2. k \in Nat
        BY <1>2, <1>3
      <3>3. F[k + 1] = H[k]
        BY <2>1, <3>1
      <3> QED BY <3>2, <3>3
    <2>5. 0 \in T /\ 0 \in Nat /\ n - 1 \in Nat /\ 0 <= n - 1
      BY <2>2, <2>3
    <2>6. n - 1 \in T
      <3> HIDE DEF T
      <3> QED BY <2>4, <2>5, Climb
    <2> QED BY <2>6
  <1>10. G[n + 0] = F[n]
    <2>1. n - 1 + 1 = n /\ n \in 1 .. N /\ n - 1 \in 0 .. N /\ n + 0 = n
      BY <1>2
    <2>2. G[n] = G[n - 1] * x /\ H[n - 1] = G[n - 1] * x
      BY <1>3, <1>4, <1>7, <2>1
    <2> QED BY <1>9, <2>1, <2>2
  <1>11. G[N + 0] = F[N]
    <2>1. ASSUME NEW k \in n + 1 .. N, G[k - 1 + 0] = F[k - 1] PROVE G[k + 0] = F[k]
      <3>1. k \in 1 .. N /\ k + 0 = k /\ k - 1 + 0 = k - 1
        BY <1>2
      <3>2. F[k] = F[k - 1] * f[k] /\ G[k] = G[k - 1] * g[k] /\ g[k] = f[k]
        BY <1>1, <1>3, <1>4, <3>1
      <3> QED BY <2>1, <3>1, <3>2
    <2>2. n \in Nat /\ n <= N /\ 0 \in Nat
      BY <1>2
    <2> DEFINE T == {k \in Nat : G[k + 0] = F[k]}
    <2>4. ASSUME NEW k \in n + 1 .. N, k - 1 \in T PROVE k \in T
      <3>1. G[k - 1 + 0] = F[k - 1]
        BY <2>4
      <3>2. k \in Nat
        BY <1>2, <1>3
      <3>3. G[k + 0] = F[k]
        BY <2>1, <3>1
      <3> QED BY <3>2, <3>3
    <2>5. n \in T /\ n \in Nat /\ N \in Nat /\ n <= N
      BY <1>2, <1>10, <2>2
    <2>6. N \in T
      <3> HIDE DEF T
      <3> QED BY <2>4, <2>5, Climb
    <2> QED BY <2>6
  <1> QED BY <1>2, <1>6, <1>11

(* g is f with two values in the place of value d. *)
SplitAt(f, g, d) ==
  /\ Len(g) = Len(f) + 1
  /\ \A k \in 1 .. d - 1 : g[k] = f[k]
  /\ \A k \in d + 1 .. Len(f) : g[k + 1] = f[k]

(* A summand in two *)
LEMMA SumSplit ==
  ASSUME NEW f \in Seq(Int), NEW g \in Seq(Int), NEW d \in 1 .. Len(f),
         SplitAt(f, g, d), g[d] + g[d + 1] = f[d]
  PROVE  Sum(g) = Sum(f)
  <1> DEFINE F == Sums(f)
             G == Sums(g)
             N == Len(f)
             M == Len(g)
  <1>1. /\ \A k \in 1 .. N : F[k] = F[k - 1] + f[k]
        /\ \A k \in 0 .. N : F[k] \in Int
        /\ F[0] = 0
    BY SumsStep
  <1>2. /\ \A k \in 1 .. M : G[k] = G[k - 1] + g[k]
        /\ \A k \in 0 .. M : G[k] \in Int
        /\ G[0] = 0
    BY SumsStep
  <1>3. N \in Nat /\ d \in 1 .. N
    OBVIOUS
  <1>4. /\ M = N + 1
        /\ \A k \in 1 .. d - 1 : g[k] = f[k]
        /\ \A k \in d + 1 .. N : g[k + 1] = f[k]
    BY DEF SplitAt
  <1>5. \A k \in 1 .. M : g[k] \in Int
    OBVIOUS
  <1>6. Sum(g) = G[M] /\ Sum(f) = F[N]
    BY DEF Sum
  <1> HIDE DEF F, G, N, M
  <1>7. G[d - 1] = F[d - 1]
    <2>1. ASSUME NEW k \in 0 + 1 .. d - 1, G[k - 1 + 0] = F[k - 1] PROVE G[k + 0] = F[k]
      <3>1. k \in 1 .. N /\ k \in 1 .. M /\ k \in 1 .. d - 1 /\ k + 0 = k /\ k - 1 + 0 = k - 1
        BY <1>3, <1>4
      <3> QED BY <1>1, <1>2, <1>4, <2>1, <3>1
    <2>2. G[0 + 0] = F[0] /\ d - 1 \in Nat /\ 0 <= d - 1 /\ 0 \in Nat
      BY <1>1, <1>2, <1>3
    <2> DEFINE T == {k \in Nat : G[k + 0] = F[k]}
    <2>4. ASSUME NEW k \in 0 + 1 .. d - 1, k - 1 \in T PROVE k \in T
      <3>1. G[k - 1 + 0] = F[k - 1]
        BY <2>4
      <3>2. k \in Nat
        BY <1>2, <1>3
      <3>3. G[k + 0] = F[k]
        BY <2>1, <3>1
      <3> QED BY <3>2, <3>3
    <2>5. 0 \in T /\ 0 \in Nat /\ d - 1 \in Nat /\ 0 <= d - 1
      BY <2>2
    <2>6. d - 1 \in T
      <3> HIDE DEF T
      <3> QED BY <2>4, <2>5, Climb
    <2>3. G[d - 1 + 0] = F[d - 1]
      BY <2>6
    <2> QED BY <1>3, <2>3
  <1>8. G[d + 1] = F[d]
    <2>1. d \in 1 .. N /\ d \in 1 .. M /\ d + 1 \in 1 .. M /\ (d + 1) - 1 = d /\ d - 1 \in 0 .. M
      BY <1>3, <1>4
    <2>2. F[d] = F[d - 1] + f[d] /\ G[d] = G[d - 1] + g[d] /\ G[d + 1] = G[d] + g[d + 1]
      BY <1>1, <1>2, <2>1
    <2>3. (G[d - 1] + g[d]) + g[d + 1] = G[d - 1] + (g[d] + g[d + 1])
      <3>1. G[d - 1] \in Int /\ g[d] \in Int /\ g[d + 1] \in Int
        BY <1>2, <1>5, <2>1
      <3>2. \A a, b, c \in Int : (a + b) + c = a + (b + c)
        OBVIOUS
      <3> QED BY <3>1, <3>2
    <2> QED BY <1>7, <2>2, <2>3
  <1>9. G[N + 1] = F[N]
    <2>1. ASSUME NEW k \in d + 1 .. N, G[k - 1 + 1] = F[k - 1] PROVE G[k + 1] = F[k]
      <3>1. /\ k \in 1 .. N /\ k + 1 \in 1 .. M /\ (k + 1) - 1 = k
            /\ k - 1 + 1 = k
        BY <1>3, <1>4
      <3>2. F[k] = F[k - 1] + f[k] /\ G[k + 1] = G[k] + g[k + 1] /\ g[k + 1] = f[k]
        BY <1>1, <1>2, <1>4, <3>1
      <3> QED BY <2>1, <3>1, <3>2
    <2>2. d \in Nat /\ d <= N /\ 1 \in Nat
      BY <1>3
    <2> DEFINE T == {k \in Nat : G[k + 1] = F[k]}
    <2>4. ASSUME NEW k \in d + 1 .. N, k - 1 \in T PROVE k \in T
      <3>1. G[k - 1 + 1] = F[k - 1]
        BY <2>4
      <3>2. k \in Nat
        BY <1>2, <1>3
      <3>3. G[k + 1] = F[k]
        BY <2>1, <3>1
      <3> QED BY <3>2, <3>3
    <2>5. d \in T /\ d \in Nat /\ N \in Nat /\ d <= N
      BY <1>3, <1>8, <2>2
    <2>6. N \in T
      <3> HIDE DEF T
      <3> QED BY <2>4, <2>5, Climb
    <2> QED BY <2>6
  <1> QED BY <1>4, <1>6, <1>9

(* A factor in two *)
LEMMA ProdSplit ==
  ASSUME NEW f \in Seq(Nat \ {0}), NEW g \in Seq(Nat \ {0}), NEW d \in 1 .. Len(f),
         SplitAt(f, g, d), g[d] * g[d + 1] = f[d]
  PROVE  Prod(g) = Prod(f)
  <1> DEFINE F == Products(f)
             G == Products(g)
             N == Len(f)
             M == Len(g)
  <1>1. /\ \A k \in 1 .. N : F[k] = F[k - 1] * f[k]
        /\ \A k \in 0 .. N : F[k] \in Nat \ {0}
        /\ F[0] = 1
    BY ProductsStep
  <1>2. /\ \A k \in 1 .. M : G[k] = G[k - 1] * g[k]
        /\ \A k \in 0 .. M : G[k] \in Nat \ {0}
        /\ G[0] = 1
    BY ProductsStep
  <1>3. N \in Nat /\ d \in 1 .. N
    OBVIOUS
  <1>4. /\ M = N + 1
        /\ \A k \in 1 .. d - 1 : g[k] = f[k]
        /\ \A k \in d + 1 .. N : g[k + 1] = f[k]
    BY DEF SplitAt
  <1>5. \A k \in 1 .. M : g[k] \in Nat \ {0}
    OBVIOUS
  <1>6. Prod(g) = G[M] /\ Prod(f) = F[N]
    BY DEF Prod
  <1> HIDE DEF F, G, N, M
  <1>7. G[d - 1] = F[d - 1]
    <2>1. ASSUME NEW k \in 0 + 1 .. d - 1, G[k - 1 + 0] = F[k - 1] PROVE G[k + 0] = F[k]
      <3>1. k \in 1 .. N /\ k \in 1 .. M /\ k \in 1 .. d - 1 /\ k + 0 = k /\ k - 1 + 0 = k - 1
        BY <1>3, <1>4
      <3> QED BY <1>1, <1>2, <1>4, <2>1, <3>1
    <2>2. G[0 + 0] = F[0] /\ d - 1 \in Nat /\ 0 <= d - 1 /\ 0 \in Nat
      BY <1>1, <1>2, <1>3
    <2> DEFINE T == {k \in Nat : G[k + 0] = F[k]}
    <2>4. ASSUME NEW k \in 0 + 1 .. d - 1, k - 1 \in T PROVE k \in T
      <3>1. G[k - 1 + 0] = F[k - 1]
        BY <2>4
      <3>2. k \in Nat
        BY <1>2, <1>3
      <3>3. G[k + 0] = F[k]
        BY <2>1, <3>1
      <3> QED BY <3>2, <3>3
    <2>5. 0 \in T /\ 0 \in Nat /\ d - 1 \in Nat /\ 0 <= d - 1
      BY <2>2
    <2>6. d - 1 \in T
      <3> HIDE DEF T
      <3> QED BY <2>4, <2>5, Climb
    <2>3. G[d - 1 + 0] = F[d - 1]
      BY <2>6
    <2> QED BY <1>3, <2>3
  <1>8. G[d + 1] = F[d]
    <2>1. d \in 1 .. N /\ d \in 1 .. M /\ d + 1 \in 1 .. M /\ (d + 1) - 1 = d /\ d - 1 \in 0 .. M
      BY <1>3, <1>4
    <2>2. F[d] = F[d - 1] * f[d] /\ G[d] = G[d - 1] * g[d] /\ G[d + 1] = G[d] * g[d + 1]
      BY <1>1, <1>2, <2>1
    <2>3. (G[d - 1] * g[d]) * g[d + 1] = G[d - 1] * (g[d] * g[d + 1])
      <3>1. G[d - 1] \in Nat /\ g[d] \in Nat /\ g[d + 1] \in Nat
        BY <1>2, <1>5, <2>1
      <3>2. \A a, b, c \in Nat : (a * b) * c = a * (b * c)
        OBVIOUS
      <3> QED BY <3>1, <3>2
    <2> QED BY <1>7, <2>2, <2>3
  <1>9. G[N + 1] = F[N]
    <2>1. ASSUME NEW k \in d + 1 .. N, G[k - 1 + 1] = F[k - 1] PROVE G[k + 1] = F[k]
      <3>1. /\ k \in 1 .. N /\ k + 1 \in 1 .. M /\ (k + 1) - 1 = k
            /\ k - 1 + 1 = k
        BY <1>3, <1>4
      <3>2. F[k] = F[k - 1] * f[k] /\ G[k + 1] = G[k] * g[k + 1] /\ g[k + 1] = f[k]
        BY <1>1, <1>2, <1>4, <3>1
      <3> QED BY <2>1, <3>1, <3>2
    <2>2. d \in Nat /\ d <= N /\ 1 \in Nat
      BY <1>3
    <2> DEFINE T == {k \in Nat : G[k + 1] = F[k]}
    <2>4. ASSUME NEW k \in d + 1 .. N, k - 1 \in T PROVE k \in T
      <3>1. G[k - 1 + 1] = F[k - 1]
        BY <2>4
      <3>2. k \in Nat
        BY <1>2, <1>3
      <3>3. G[k + 1] = F[k]
        BY <2>1, <3>1
      <3> QED BY <3>2, <3>3
    <2>5. d \in T /\ d \in Nat /\ N \in Nat /\ d <= N
      BY <1>3, <1>8, <2>2
    <2>6. N \in T
      <3> HIDE DEF T
      <3> QED BY <2>4, <2>5, Climb
    <2> QED BY <2>6
  <1> QED BY <1>4, <1>6, <1>9

(* The first factor *)
LEMMA ProdHead ==
  ASSUME NEW f \in Seq(Nat \ {0}), NEW g \in Seq(Nat \ {0}),
         Len(f) = Len(g) + 1, \A k \in 1 .. Len(g) : g[k] = f[k + 1]
  PROVE  Prod(f) = f[1] * Prod(g)
  <1> DEFINE F == Products(f)
             G == Products(g)
             N == Len(g)
             x == f[1]
             T == {k \in Nat : F[k + 1] = x * G[k]}
  <1>1. N \in Nat /\ Len(f) = N + 1
    OBVIOUS
  <1>2. /\ \A k \in 1 .. N + 1 : F[k] = F[k - 1] * f[k]
        /\ F[0] = 1
    BY <1>1, ProductsStep
  <1>3. /\ \A k \in 1 .. N : G[k] = G[k - 1] * g[k]
        /\ \A k \in 0 .. N : G[k] \in Nat \ {0}
        /\ G[0] = 1
    BY ProductsStep
  <1>4. \A k \in 1 .. N + 1 : f[k] \in Nat \ {0}
    BY <1>1
  <1>5. \A k \in 1 .. N : g[k] = f[k + 1]
    OBVIOUS
  <1>6. Prod(f) = F[N + 1] /\ Prod(g) = G[N]
    BY <1>1 DEF Prod
  <1>7. 1 \in 1 .. N + 1
    BY <1>1
  <1>8. x \in Nat
    BY <1>4, <1>7
  <1> HIDE DEF F, G, N, x
  <1>9. 0 \in T
    <2>1. F[1] = F[1 - 1] * f[1]
      BY <1>2, <1>7
    <2>2. F[0 + 1] = 1 * x /\ x * G[0] = x * 1
      BY <1>2, <1>3, <2>1 DEF x
    <2>3. F[0 + 1] = x * G[0]
      BY <1>8, <2>2
    <2> QED BY <2>3
  <1>10. ASSUME NEW k \in 0 + 1 .. N, k - 1 \in T PROVE k \in T
    <2>1. k \in Nat /\ k \in 1 .. N /\ k + 1 \in 1 .. N + 1 /\ (k + 1) - 1 = k /\ k - 1 \in 0 .. N
      BY <1>1
    <2>2. F[(k - 1) + 1] = x * G[k - 1]
      BY <1>10
    <2>3. F[k] = x * G[k - 1]
      <3>1. (k - 1) + 1 = k
        BY <2>1
      <3> QED BY <2>2, <3>1
    <2>4. F[k + 1] = F[k] * f[k + 1] /\ G[k] = G[k - 1] * g[k] /\ g[k] = f[k + 1]
      BY <1>2, <1>3, <1>5, <2>1
    <2>5. G[k - 1] \in Nat /\ g[k] \in Nat
      BY <1>3, <1>4, <1>5, <2>1
    <2>6. \A a, b, c \in Nat : (a * b) * c = a * (b * c)
      OBVIOUS
    <2>7. F[k + 1] = x * G[k]
      BY <1>8, <2>3, <2>4, <2>5, <2>6
    <2> QED BY <2>1, <2>7
  <1>11. N \in T
    <2>1. 0 \in Nat /\ N \in Nat /\ 0 <= N
      BY <1>1
    <2> HIDE DEF T
    <2> QED BY <1>9, <1>10, <2>1, Climb
  <1>12. F[N + 1] = x * G[N]
    BY <1>11
  <1> QED BY <1>6, <1>12 DEF x

------------------------------------------------------------------------------

(* Remainders: what is divided is the quotient's share and the remainder,  *)
(* in one way only.                                                        *)
LEMMA Division ==
  ASSUME NEW r \in Nat \ {0}, NEW m \in Nat
  PROVE  /\ m = r * (m \div r) + (m % r)
         /\ m % r \in 0 .. r - 1
         /\ m \div r \in Int
  OBVIOUS

(* Quotient and remainder are unique. *)
LEMMA OneRemainder ==
  ASSUME NEW r \in Nat \ {0}, NEW m \in Nat, NEW q \in Int, NEW b \in 0 .. r - 1,
         m = r * q + b
  PROVE  m \div r = q /\ m % r = b
  <1>1. /\ m = r * (m \div r) + (m % r)
        /\ m % r \in 0 .. r - 1
        /\ m \div r \in Int
    BY Division
  <1>2. r * (q - (m \div r)) = (m % r) - b
    BY <1>1
  <1>3. q - (m \div r) = 0
    BY <1>1, <1>2, SMTT(30)
  <1> QED BY <1>1, <1>2, <1>3

(* Two digits make one number. *)
LEMMA OneNumber ==
  ASSUME NEW r \in Nat \ {0}, NEW a \in Nat, NEW p \in Nat, NEW b \in 0 .. r - 1,
         NEW q \in 0 .. r - 1, a * r + b = p * r + q
  PROVE  a = p /\ b = q
  <1> DEFINE m == a * r + b
  <1>1. m \in Nat /\ m = r * a + b /\ m = r * p + q /\ a \in Int /\ p \in Int
    OBVIOUS
  <1> HIDE DEF m
  <1>2. m \div r = a /\ m % r = b
    BY <1>1, OneRemainder
  <1>3. m \div r = p /\ m % r = q
    BY <1>1, OneRemainder
  <1> QED BY <1>2, <1>3

(* Products grow with a factor. *)
LEMMA Monotone == \A r, q, p \in Nat : q <= p => r * q <= r * p
  <1>1. ASSUME NEW r \in Nat, NEW d \in Nat, NEW q \in Nat PROVE r * q <= r * (q + d)
    <2>1. r * (q + d) = r * q + r * d /\ r * d \in Nat /\ r * q \in Nat
      BY SMTT(30)
    <2> QED BY <2>1
  <1> SUFFICES ASSUME NEW r \in Nat, NEW q \in Nat, NEW p \in Nat, q <= p
               PROVE  r * q <= r * p
    OBVIOUS
  <1>2. p - q \in Nat /\ q + (p - q) = p
    OBVIOUS
  <1> QED BY <1>1, <1>2

(* One more: the remainder goes on by one, or the quotient does. *)
LEMMA NextNumber ==
  ASSUME NEW r \in Nat \ {0}, NEW m \in Nat
  PROVE  /\ (m + 1) % r = IF m % r = r - 1 THEN 0 ELSE (m % r) + 1
         /\ (m + 1) \div r = IF m % r = r - 1 THEN (m \div r) + 1 ELSE m \div r
  <1>1. /\ m = r * (m \div r) + (m % r)
        /\ m % r \in 0 .. r - 1
        /\ m \div r \in Int
    BY Division
  <1>2. CASE m % r = r - 1
    <2>1. m + 1 = r * ((m \div r) + 1) + 0
      BY <1>1, <1>2
    <2>2. m + 1 \in Nat /\ (m \div r) + 1 \in Int /\ 0 \in 0 .. r - 1
      BY <1>1
    <2>3. (m + 1) % r = 0 /\ (m + 1) \div r = (m \div r) + 1
      BY <2>1, <2>2, OneRemainder
    <2> QED BY <1>2, <2>3
  <1>3. CASE m % r # r - 1
    <2>1. m + 1 = r * (m \div r) + ((m % r) + 1) /\ (m % r) + 1 \in 0 .. r - 1
      BY <1>1, <1>3
    <2>2. m + 1 \in Nat /\ m \div r \in Int
      BY <1>1
    <2>3. (m + 1) % r = (m % r) + 1 /\ (m + 1) \div r = m \div r
      BY <2>1, <2>2, OneRemainder
    <2> QED BY <1>3, <2>3
  <1> QED BY <1>2, <1>3

(* Division by a product is division by one factor, then by the other. *)
LEMMA DivisionTwice ==
  ASSUME NEW b \in Nat \ {0}, NEW r \in Nat \ {0}, NEW m \in Nat
  PROVE  /\ m \div b \in Nat
         /\ m % (b * r) = b * ((m \div b) % r) + (m % b)
         /\ m \div (b * r) = (m \div b) \div r
  <1>1. /\ m = b * (m \div b) + (m % b)
        /\ m % b \in 0 .. b - 1
        /\ m \div b \in Nat
    <2>1. \A x \in Nat, y \in Nat \ {0} : x \div y \in Nat
      OBVIOUS
    <2> QED BY <2>1, Division
  <1> DEFINE q == m \div b
  <1> HIDE DEF q
  <1>2. /\ q = r * (q \div r) + (q % r)
        /\ q % r \in 0 .. r - 1
        /\ q \div r \in Int
    BY <1>1, Division DEF q
  <1>3. b * r \in Nat \ {0}
    <2>1. \A x, y \in Nat \ {0} : x * y \in Nat \ {0}
      OBVIOUS
    <2> QED BY <2>1
  <1>4. b * (q % r) + (m % b) \in 0 .. (b * r) - 1
    <2>1. \A x, y \in Nat \ {0} : \A u \in 0 .. x - 1, v \in 0 .. y - 1 :
            x * v + u \in Nat /\ x * v + u < x * y
      <3> SUFFICES ASSUME NEW x \in Nat \ {0}, NEW y \in Nat \ {0},
                          NEW u \in 0 .. x - 1, NEW v \in 0 .. y - 1
                   PROVE  x * v + u \in Nat /\ x * v + u < x * y
        OBVIOUS
      <3>1. x * v \in Nat /\ x * y \in Nat
        OBVIOUS
      <3>2. x * v + x <= x * y
        <4>1. \A k \in Nat : x * v + x * k >= x * v
          OBVIOUS
        <4>2. PICK k \in Nat : y = v + 1 + k
          <5>1. y - v - 1 \in Nat
            OBVIOUS
          <5> QED BY <5>1
        <4>3. x * y = x * v + x + x * k
          BY <4>2
        <4> QED BY <3>1, <4>3
      <3> QED BY <3>1, <3>2
    <2> DEFINE v == q % r
               u == m % b
    <2>2. u \in 0 .. b - 1 /\ v \in 0 .. r - 1
      BY <1>1, <1>2
    <2> HIDE DEF u, v
    <2>3. b * v + u \in Nat /\ b * v + u < b * r
      BY <2>1, <2>2
    <2> QED BY <1>3, <2>3 DEF u, v
  <1>5. m = (b * r) * (q \div r) + (b * (q % r) + (m % b))
    <2> DEFINE w == q \div r
               v == q % r
               u == m % b
    <2>1. w \in Int /\ v \in Int /\ u \in Int /\ m = b * q + u /\ q = r * w + v
      BY <1>1, <1>2 DEF q
    <2> HIDE DEF w, v, u
    <2>2. m = (b * r) * w + (b * v + u)
      BY <2>1
    <2> QED BY <2>2 DEF w, v, u
  <1>6. m \div (b * r) = q \div r /\ m % (b * r) = b * (q % r) + (m % b)
    BY <1>2, <1>3, <1>4, <1>5, OneRemainder
  <1> QED BY <1>1, <1>6 DEF q

(* A two-digit number is the largest one when both digits are. *)
LEMMA LargestDigits ==
  ASSUME NEW x \in Nat \ {0}, NEW y \in Nat \ {0}, NEW u \in 0 .. x - 1, NEW v \in 0 .. y - 1
  PROVE  x * v + u = x * y - 1 <=> u = x - 1 /\ v = y - 1
  <1>1. PICK k \in Nat : y = v + 1 + k
    <2>1. y - v - 1 \in Nat
      OBVIOUS
    <2> QED BY <2>1
  <1>2. x * y = x * v + x + x * k
    BY <1>1
  <1>3. x * v + u = x * y - 1 <=> u = x - 1 + x * k
    BY <1>2
  <1>4. k = 0 \/ x * k >= x
    <2>1. CASE k # 0
      <3>1. PICK l \in Nat : k = 1 + l
        <4>1. k - 1 \in Nat
          BY <2>1
        <4> QED BY <4>1
      <3>2. x * k = x + x * l /\ x * l \in Nat
        BY <3>1
      <3> QED BY <3>2
    <2> QED BY <2>1
  <1> QED BY <1>1, <1>3, <1>4

------------------------------------------------------------------------------
(* Groups of r that m things begin. *)
CeilDiv(m, r) == (m + r - 1) \div r

(* Division that rounds up *)
LEMMA CeilDivision ==
  ASSUME NEW r \in Nat \ {0}, NEW m \in Nat
  PROVE  /\ CeilDiv(m, r) \in Nat
         /\ CeilDiv(m, r) = IF m % r = 0 THEN m \div r ELSE (m \div r) + 1
         /\ m % r = 0 => m = r * CeilDiv(m, r)
         /\ CeilDiv(m + 1, r) = IF m % r = 0 THEN CeilDiv(m, r) + 1 ELSE CeilDiv(m, r)
  <1> DEFINE q == m \div r
             b == m % r
  <1>1. m = r * q + b /\ b \in 0 .. r - 1 /\ q \in Nat
    <2>1. \A x \in Nat, y \in Nat \ {0} : x \div y \in Nat
      OBVIOUS
    <2> QED BY <2>1, Division
  <1> HIDE DEF q, b
  <1>2. CeilDiv(m + 1, r) = q + 1
    <2>1. m + r = r * (q + 1) + b /\ m + r \in Nat /\ q + 1 \in Int
      BY <1>1
    <2>2. (m + r) \div r = q + 1
      BY <1>1, <2>1, OneRemainder
    <2>3. (m + 1) + r - 1 = m + r
      OBVIOUS
    <2> QED BY <2>2, <2>3 DEF CeilDiv
  <1>3. CASE b = 0
    <2>1. m + r - 1 = r * q + (r - 1) /\ m + r - 1 \in Nat /\ r - 1 \in 0 .. r - 1 /\ q \in Int
      BY <1>1, <1>3
    <2>2. CeilDiv(m, r) = q
      BY <2>1, OneRemainder DEF CeilDiv
    <2> QED BY <1>1, <1>2, <1>3, <2>2 DEF q, b
  <1>4. CASE b # 0
    <2>1. /\ m + r - 1 = r * (q + 1) + (b - 1) /\ m + r - 1 \in Nat
          /\ b - 1 \in 0 .. r - 1 /\ q + 1 \in Int
      BY <1>1, <1>4
    <2>2. CeilDiv(m, r) = q + 1
      BY <2>1, OneRemainder DEF CeilDiv
    <2> QED BY <1>1, <1>2, <1>4, <2>2 DEF q, b
  <1> QED BY <1>3, <1>4

(* Of m things l are gone; n groups that are not gone hold the others. *)
LEMMA Outstanding ==
  ASSUME NEW r \in Nat \ {0}, NEW m \in Nat, NEW l \in Nat, NEW n \in Nat,
         CeilDiv(m, r) - (l \div r) + (IF m % r = 0 THEN 1 ELSE 0) <= n
  PROVE  m - l < n * r
  <1> DEFINE C == CeilDiv(m, r)
             q == l \div r
             p == m \div r
  <1>1. /\ l = r * q + (l % r) /\ l % r \in 0 .. r - 1 /\ q \in Nat
        /\ m = r * p + (m % r) /\ m % r \in 0 .. r - 1 /\ p \in Nat
    <2>1. \A x \in Nat, y \in Nat \ {0} : x \div y \in Nat
      OBVIOUS
    <2> QED BY <2>1, Division
  <1>2. C = IF m % r = 0 THEN p ELSE p + 1
    BY CeilDivision
  <1> HIDE DEF C, q, p
  <1>3. p + 1 <= n + q
    BY <1>1, <1>2 DEF C, q
  <1>4. r * (p + 1) <= r * (n + q)
    BY <1>1, <1>3, Monotone
  <1>5. r * (p + 1) = r * p + r /\ r * (n + q) = n * r + r * q
    BY <1>1
  <1>6. r * p \in Nat /\ n * r \in Nat /\ r * q \in Nat
    BY <1>1
  <1> QED BY <1>1, <1>4, <1>5, <1>6

(* When all begun groups are complete and one is not gone, a thing is left. *)
LEMMA GroupLeft ==
  ASSUME NEW r \in Nat \ {0}, NEW m \in Nat, NEW l \in Nat, m % r = 0,
         l \div r < CeilDiv(m, r)
  PROVE  l < m
  <1> DEFINE C == CeilDiv(m, r)
             q == l \div r
  <1>1. l = r * q + (l % r) /\ l % r \in 0 .. r - 1 /\ q \in Nat
    <2>1. \A x \in Nat, y \in Nat \ {0} : x \div y \in Nat
      OBVIOUS
    <2> QED BY <2>1, Division
  <1>2. C \in Nat /\ m = r * C /\ q < C
    BY CeilDivision
  <1> HIDE DEF C, q
  <1>3. r * (q + 1) <= r * C
    BY <1>1, <1>2, Monotone
  <1>4. r * (q + 1) = r * q + r /\ r * q \in Nat
    BY <1>1
  <1> QED BY <1>1, <1>2, <1>3, <1>4

(* Every begun group has a first thing. *)
LEMMA FirstOfGroup ==
  ASSUME NEW r \in Nat \ {0}, NEW m \in Nat, NEW k \in Nat, k < CeilDiv(m, r)
  PROVE  r * k < m
  <1> DEFINE q == m \div r
             b == m % r
  <1>1. m = r * q + b /\ b \in 0 .. r - 1 /\ q \in Nat
    <2>1. \A x \in Nat, y \in Nat \ {0} : x \div y \in Nat
      OBVIOUS
    <2> QED BY <2>1, Division
  <1>2. k < IF b = 0 THEN q ELSE q + 1
    BY CeilDivision
  <1> HIDE DEF q, b
  <1>3. CASE b = 0
    <2>1. r * (k + 1) <= r * q
      BY <1>1, <1>2, <1>3, Monotone
    <2>2. r * (k + 1) = r * k + r /\ r * k \in Nat
      OBVIOUS
    <2> QED BY <1>1, <1>3, <2>1, <2>2
  <1>4. CASE b # 0
    <2>1. r * k <= r * q
      BY <1>1, <1>2, <1>4, Monotone
    <2>2. r * k \in Nat /\ r * q \in Nat
      BY <1>1
    <2> QED BY <1>1, <1>4, <2>1, <2>2
  <1> QED BY <1>3, <1>4

(* More groups are begun by more things. *)
LEMMA CeilOrder ==
  ASSUME NEW r \in Nat \ {0}, NEW m \in Nat, NEW l \in Nat, CeilDiv(l, r) < CeilDiv(m, r)
  PROVE  l < m
  <1> DEFINE k == CeilDiv(l, r)
             q == l \div r
             b == l % r
  <1>1. l = r * q + b /\ b \in 0 .. r - 1 /\ q \in Nat
    <2>1. \A x \in Nat, y \in Nat \ {0} : x \div y \in Nat
      OBVIOUS
    <2> QED BY <2>1, Division
  <1>2. k = (IF b = 0 THEN q ELSE q + 1) /\ k \in Nat
    BY CeilDivision
  <1>3. r * k < m
    BY <1>2, FirstOfGroup
  <1> HIDE DEF k, q, b
  <1>4. r * (q + 1) = r * q + r /\ r * q \in Nat
    BY <1>1
  <1>5. l <= r * k
    BY <1>1, <1>2, <1>4
  <1>6. r * k \in Nat
    BY <1>2
  <1> QED BY <1>3, <1>5, <1>6

(* The group a thing completes is complete when the thing is there. *)
LEMMA GroupComplete ==
  ASSUME NEW r \in Nat \ {0}, NEW m \in Nat, NEW l \in Nat, l < m, (l + 1) % r = 0
  PROVE  l \div r < m \div r
  <1> DEFINE p == m \div r
             q == l \div r
  <1>1. /\ m = r * p + (m % r) /\ m % r \in 0 .. r - 1 /\ p \in Nat
        /\ l = r * q + (l % r) /\ l % r \in 0 .. r - 1 /\ q \in Nat
    <2>1. \A x \in Nat, y \in Nat \ {0} : x \div y \in Nat
      OBVIOUS
    <2> QED BY <2>1, Division
  <1>2. l % r = r - 1
    <2>1. (l + 1) % r = IF l % r = r - 1 THEN 0 ELSE (l % r) + 1
      BY NextNumber
    <2>2. l % r \in Nat
      BY <1>1
    <2> QED BY <2>1, <2>2
  <1> HIDE DEF p, q
  <1>3. r * q + r <= m
    BY <1>1, <1>2
  <1>4. ASSUME p <= q PROVE FALSE
    <2>1. r * p <= r * q
      BY <1>1, <1>4, Monotone
    <2>2. r * p \in Nat /\ r * q \in Nat
      BY <1>1
    <2> QED BY <1>1, <1>3, <2>1, <2>2
  <1> QED BY <1>1, <1>4 DEF p, q
=============================================================================
