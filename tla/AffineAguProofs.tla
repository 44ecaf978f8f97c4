-------------------------- MODULE AffineAguProofs ----------------------------
(***************************************************************************)
(* What the address generator's operators compute, for every number of     *)
(* dimensions: the counters of an iteration are the digits of its number   *)
(* in the mixed radix of the bounds, and the carry logic of the generator  *)
(* adds one to that number.                                                *)
(***************************************************************************)
EXTENDS AffineAgu, Numbers

InRange(c, counters) ==
  counters \in [Dims -> Nat] /\ \A d \in Dims : counters[d] < Radix(c, d)

(* A loop runs at least once; its bound fits the register. *)
LEMMA RadixPositive ==
  ASSUME NEW c, WellFormed(c), NEW d \in Dims
  PROVE  /\ Radix(c, d) \in Nat \ {0}
         /\ c.bounds[d] \in 0 .. AddrSpace - 1
  BY AddrSpaceAssumption DEF Radix, WellFormed

(* A counter that wraps is at its last iteration. *)
LEMMA WrapsAtLast ==
  ASSUME NEW c, WellFormed(c), NEW d \in Dims, NEW counters, InRange(c, counters)
  PROVE  Wraps(c, counters, d) <=> counters[d] = Radix(c, d) - 1
  <1>1. counters[d] \in Nat /\ counters[d] < Radix(c, d)
    BY DEF InRange
  <1>2. CASE c.bounds[d] <= 1
    BY <1>1, <1>2, RadixPositive DEF Wraps, Radix
  <1>3. CASE ~(c.bounds[d] <= 1)
    <2>1. c.bounds[d] - 1 \in 0 .. AddrSpace - 1
      BY <1>3, RadixPositive, AddrSpaceAssumption
    <2>2. Wrap(c.bounds[d] - 1) = c.bounds[d] - 1
      BY <2>1, AddrSpaceAssumption DEF Wrap
    <2> QED BY <1>3, <2>2, RadixPositive DEF Wraps, AtBound, Radix
  <1> QED BY <1>2, <1>3, RadixPositive

(* Iterations of the dimensions below d *)
LEMMA Below ==
  ASSUME NEW c, WellFormed(c)
  PROVE  /\ IterationsBelow(c, 1) = 1
         /\ \A d \in 1 .. NumDims + 1 : IterationsBelow(c, d) \in Nat \ {0}
         /\ \A d \in Dims :
              IterationsBelow(c, d + 1) = IterationsBelow(c, d) * Radix(c, d)
         /\ Iterations(c) \in Nat \ {0}
         /\ \A d \in Dims \ {1} : \E x \in Nat \ {0} :
              IterationsBelow(c, d) = Radix(c, 1) * x
  <1> DEFINE f == [e \in Dims |-> Radix(c, e)]
  <1>1. f \in [1 .. NumDims -> Nat \ {0}]
    BY RadixPositive DEF Dims
  <1>2. f \in Seq(Nat \ {0}) /\ Len(f) = NumDims
    BY <1>1, NumDimsAssumption
  <1>3. /\ Products(f)[0] = 1
        /\ \A k \in 1 .. NumDims : Products(f)[k] = Products(f)[k - 1] * f[k]
        /\ \A k \in 0 .. NumDims : Products(f)[k] \in Nat \ {0}
    BY <1>2, ProductsStep, Zenon
  <1>4. \A d : IterationsBelow(c, d) = Products(f)[d - 1]
    BY DEF IterationsBelow
  <1>5. \A d \in Dims : f[d] = Radix(c, d)
    OBVIOUS
  <1> HIDE DEF f
  <1>6. \A d \in 1 .. NumDims + 1 : IterationsBelow(c, d) \in Nat \ {0}
    BY <1>3, <1>4, NumDimsAssumption
  <1>7. ASSUME NEW d \in Dims
        PROVE  IterationsBelow(c, d + 1) = IterationsBelow(c, d) * Radix(c, d)
    <2>1. d \in 1 .. NumDims /\ (d + 1) - 1 = d
      BY NumDimsAssumption DEF Dims
    <2>2. IterationsBelow(c, d + 1) = Products(f)[d]
      BY <1>4, <2>1
    <2>3. IterationsBelow(c, d) = Products(f)[d - 1]
      BY <1>4
    <2> QED BY <1>3, <1>5, <2>1, <2>2, <2>3
  <1>8. ASSUME NEW d \in Dims \ {1}
        PROVE  \E x \in Nat \ {0} : IterationsBelow(c, d) = Radix(c, 1) * x
    <2>1. 1 \in 0 .. NumDims /\ d - 1 \in 1 .. NumDims
      BY NumDimsAssumption DEF Dims
    <2>2. PICK x \in Nat \ {0} : Products(f)[d - 1] = Products(f)[1] * x
      BY <1>2, <2>1, ProductsFactor
    <2>3. Products(f)[1] = Products(f)[0] * f[1]
      BY <1>3, <2>1
    <2>4. Products(f)[1] = Radix(c, 1)
      <3>1. f[1] = Radix(c, 1) /\ Radix(c, 1) \in Nat
        BY <1>5, <2>1, RadixPositive DEF Dims
      <3> QED BY <1>3, <2>3, <3>1
    <2> QED BY <1>4, <2>2, <2>4
  <1> QED BY <1>3, <1>4, <1>6, <1>7, <1>8, NumDimsAssumption DEF Iterations

------------------------------------------------------------------------------
(* The counters of an iteration stay within their loops. *)
LEMMA DigitsInRange ==
  ASSUME NEW c, WellFormed(c), NEW m \in Nat
  PROVE  InRange(c, Digits(c, m))
  <1>1. ASSUME NEW d \in Dims PROVE Digits(c, m)[d] \in 0 .. Radix(c, d) - 1
    <2>1. d \in 1 .. NumDims + 1
      BY NumDimsAssumption DEF Dims
    <2>2. IterationsBelow(c, d) \in Nat \ {0} /\ Radix(c, d) \in Nat \ {0}
      BY <2>1, Below, RadixPositive
    <2>3. \A x \in Nat, y, z \in Nat \ {0} : (x \div y) % z \in 0 .. z - 1
      OBVIOUS
    <2>4. (m \div IterationsBelow(c, d)) % Radix(c, d) \in 0 .. Radix(c, d) - 1
      BY <2>2, <2>3
    <2> QED BY <2>4 DEF Digits
  <1>2. \A d \in Dims : Radix(c, d) \in Nat
    BY RadixPositive
  <1> QED BY <1>1, <1>2 DEF InRange, Digits

(* The digits inside dimension d are all at their last iteration when the  *)
(* number, as far as they make it up, is the largest one.                  *)
LEMMA CarryIsLast ==
  ASSUME NEW c, WellFormed(c), NEW m \in Nat, NEW d \in 1 .. NumDims + 1
  PROVE  Carry(c, Digits(c, m), d)
           <=> m % IterationsBelow(c, d) = IterationsBelow(c, d) - 1
  <1> DEFINE B(e) == IterationsBelow(c, e)
             P(e) == Carry(c, Digits(c, m), e) <=> m % B(e) = B(e) - 1
             S == {k \in Nat : k + 1 <= NumDims + 1 => P(k + 1)}
  <1>1. 0 \in S
    <2>1. Carry(c, Digits(c, m), 1)
      BY DEF Carry
    <2>2. B(1) = 1
      BY Below
    <2>3. \A x \in Nat : x % 1 = 0
      OBVIOUS
    <2> QED BY <2>1, <2>2, <2>3
  <1>2. ASSUME NEW e \in Dims, P(e) PROVE P(e + 1)
    <2>1. /\ B(e) \in Nat \ {0} /\ Radix(c, e) \in Nat \ {0}
          /\ B(e + 1) = B(e) * Radix(c, e)
      BY Below, RadixPositive, NumDimsAssumption DEF Dims
    <2> HIDE DEF B
    <2>2. Carry(c, Digits(c, m), e + 1)
            <=> Carry(c, Digits(c, m), e) /\ Wraps(c, Digits(c, m), e)
      <3>1. 1 .. (e + 1) - 1 = (1 .. e - 1) \cup {e}
        BY NumDimsAssumption DEF Dims
      <3> QED BY <3>1 DEF Carry
    <2>3. Wraps(c, Digits(c, m), e) <=> (m \div B(e)) % Radix(c, e) = Radix(c, e) - 1
      BY DigitsInRange, WrapsAtLast DEF Digits, B
    <2> DEFINE b == B(e)
               r == Radix(c, e)
               q == m \div b
    <2>4. b \in Nat \ {0} /\ r \in Nat \ {0} /\ B(e + 1) = b * r
      BY <2>1
    <2> HIDE DEF b, r
    <2>5. q \in Nat /\ m % (b * r) = b * (q % r) + (m % b)
      BY <2>4, DivisionTwice
    <2> HIDE DEF q
    <2>6. m % b \in 0 .. b - 1 /\ q % r \in 0 .. r - 1
      BY <2>4, <2>5, Division
    <2>7. m % (b * r) = b * r - 1 <=> m % b = b - 1 /\ q % r = r - 1
      BY <2>4, <2>5, <2>6, LargestDigits
    <2>8. m % B(e + 1) = B(e + 1) - 1
            <=> m % B(e) = B(e) - 1 /\ (m \div B(e)) % Radix(c, e) = Radix(c, e) - 1
      BY <2>4, <2>7 DEF b, r, q
    <2> QED BY <1>2, <2>2, <2>3, <2>8, Zenon
  <1> HIDE DEF P
  <1>3. ASSUME NEW k \in S PROVE k + 1 \in S
    <2> SUFFICES ASSUME (k + 1) + 1 <= NumDims + 1 PROVE P((k + 1) + 1)
      OBVIOUS
    <2>1. k + 1 \in Dims /\ P(k + 1)
      BY NumDimsAssumption DEF Dims
    <2> QED BY <1>2, <2>1
  <1>4. \A k \in Nat : k \in S
    <2>1. S \in SUBSET Nat
      OBVIOUS
    <2> HIDE DEF S
    <2> QED BY <1>1, <1>3, <2>1, Induction
  <1>5. d - 1 \in Nat /\ (d - 1) + 1 = d /\ d <= NumDims + 1
    BY NumDimsAssumption
  <1>6. d - 1 \in S
    BY <1>4, <1>5
  <1>7. P(d)
    BY <1>5, <1>6
  <1> QED BY <1>7 DEF P

(* The carry logic counts: from the digits of m to those of m + 1. *)
LEMMA IncrementCounts ==
  ASSUME NEW c, WellFormed(c), NEW m \in Nat
  PROVE  IncrementCounters(c, Digits(c, m)) = Digits(c, m + 1)
  <1>1. ASSUME NEW d \in Dims
        PROVE  IncrementCounters(c, Digits(c, m))[d] = Digits(c, m + 1)[d]
    <2> DEFINE b == IterationsBelow(c, d)
               r == Radix(c, d)
               q == m \div b
    <2>1. b \in Nat \ {0} /\ r \in Nat \ {0} /\ d \in 1 .. NumDims + 1
      BY Below, RadixPositive, NumDimsAssumption DEF Dims
    <2>2. Carry(c, Digits(c, m), d) <=> m % b = b - 1
      BY <2>1, CarryIsLast
    <2>3. Digits(c, m)[d] = q % r /\ Digits(c, m + 1)[d] = ((m + 1) \div b) % r
      BY DEF Digits
    <2>4. Wraps(c, Digits(c, m), d) <=> q % r = r - 1
      BY <2>3, DigitsInRange, WrapsAtLast
    <2>5. IncrementCounters(c, Digits(c, m))[d] =
            IF ~(m % b = b - 1) THEN q % r ELSE IF q % r = r - 1 THEN 0 ELSE (q % r) + 1
      BY <2>2, <2>3, <2>4 DEF IncrementCounters
    <2> HIDE DEF b, r
    <2>6. /\ q \in Nat
          /\ (m + 1) \div b = IF m % b = b - 1 THEN q + 1 ELSE q
      BY <2>1, DivisionTwice, NextNumber
    <2> HIDE DEF q
    <2>7. (q + 1) % r = IF q % r = r - 1 THEN 0 ELSE (q % r) + 1
      BY <2>1, <2>6, NextNumber
    <2> QED BY <2>3, <2>5, <2>6, <2>7
  <1>2. /\ IncrementCounters(c, Digits(c, m)) =
             [d \in Dims |-> IncrementCounters(c, Digits(c, m))[d]]
        /\ Digits(c, m + 1) = [d \in Dims |-> Digits(c, m + 1)[d]]
    BY DEF IncrementCounters, Digits
  <1> QED BY <1>1, <1>2

(* All dimensions are at their last iteration in the last one of the nest. *)
LEMMA AllDoneAtLast ==
  ASSUME NEW c, WellFormed(c), NEW m \in 0 .. Iterations(c) - 1
  PROVE  AllDone(c, Digits(c, m)) <=> m = Iterations(c) - 1
  <1>1. Iterations(c) \in Nat \ {0} /\ NumDims + 1 \in 1 .. NumDims + 1
    BY Below, NumDimsAssumption
  <1>2. AllDone(c, Digits(c, m)) <=> Carry(c, Digits(c, m), NumDims + 1)
    BY NumDimsAssumption DEF AllDone, Carry, Dims
  <1>3. Carry(c, Digits(c, m), NumDims + 1)
          <=> m % Iterations(c) = Iterations(c) - 1
    BY <1>1, CarryIsLast DEF Iterations
  <1>4. m % Iterations(c) = m
    BY <1>1
  <1> QED BY <1>2, <1>3, <1>4

(* The first iteration has all counters at 0. *)
LEMMA FirstDigits ==
  ASSUME NEW c, WellFormed(c)
  PROVE  Digits(c, 0) = AguReset.counters
  <1>1. ASSUME NEW d \in Dims
        PROVE  (0 \div IterationsBelow(c, d)) % Radix(c, d) = 0
    <2>1. IterationsBelow(c, d) \in Nat \ {0} /\ Radix(c, d) \in Nat \ {0}
      BY Below, RadixPositive, NumDimsAssumption DEF Dims
    <2>2. \A x, y \in Nat \ {0} : (0 \div x) % y = 0
      OBVIOUS
    <2> QED BY <2>1, <2>2
  <1> QED BY <1>1 DEF Digits, AguReset

(* After the last iteration every counter is cleared. *)
LEMMA LastStep ==
  ASSUME NEW c, WellFormed(c), NEW counters, AllDone(c, counters)
  PROVE  IncrementCounters(c, counters) = AguReset.counters
  <1>1. \A d \in Dims : Carry(c, counters, d)
    BY NumDimsAssumption DEF AllDone, Carry, Dims
  <1> QED BY <1>1 DEF IncrementCounters, AllDone, AguReset

(* Before it, a step keeps every counter in its range. *)
LEMMA StepInRange ==
  ASSUME NEW c, WellFormed(c), NEW counters, InRange(c, counters)
  PROVE  InRange(c, IncrementCounters(c, counters))
  <1>1. ASSUME NEW d \in Dims
        PROVE  /\ IncrementCounters(c, counters)[d] \in Nat
               /\ IncrementCounters(c, counters)[d] < Radix(c, d)
    <2>1. /\ counters[d] \in Nat /\ counters[d] < Radix(c, d) /\ Radix(c, d) \in Nat \ {0}
          /\ Wraps(c, counters, d) <=> counters[d] = Radix(c, d) - 1
      BY RadixPositive, WrapsAtLast DEF InRange
    <2>2. IncrementCounters(c, counters)[d]
            \in {counters[d], 0} \cup {x \in {counters[d] + 1} : ~Wraps(c, counters, d)}
      BY DEF IncrementCounters
    <2> HIDE DEF Radix
    <2> QED BY <2>1, <2>2
  <1>2. IncrementCounters(c, counters) \in [Dims -> Nat]
    BY <1>1 DEF IncrementCounters
  <1> QED BY <1>1, <1>2 DEF InRange

------------------------------------------------------------------------------
(* An element is used once or more; the innermost digit. *)
LEMMA ReusePositive ==
  ASSUME NEW c, WellFormed(c)
  PROVE  /\ Reuse(c) \in Nat \ {0} /\ 1 \in Dims
         /\ \A m \in Nat : Digits(c, m)[1] = m % Radix(c, 1)
  <1>1. 1 \in Dims /\ Radix(c, 1) \in Nat \ {0} /\ IterationsBelow(c, 1) = 1
    BY NumDimsAssumption, RadixPositive, Below DEF Dims
  <1>2. \A m \in Nat : m \div 1 = m
    OBVIOUS
  <1> QED BY <1>1, <1>2 DEF Reuse, Digits

(* The generator flags the first and the last iteration of an element. *)
LEMMA ElementFlags ==
  ASSUME NEW c, WellFormed(c), NEW m \in Nat
  PROVE  /\ IsFirst(c, Digits(c, m)) <=> m % Reuse(c) = 0
         /\ IsLast(c, Digits(c, m)) <=> (m + 1) % Reuse(c) = 0
  <1>1. CASE c.strides[1] # 0
    <2>1. m % 1 = 0 /\ (m + 1) % 1 = 0
      OBVIOUS
    <2> QED BY <1>1, <2>1 DEF IsFirst, IsLast, Reuse
  <1>2. CASE c.strides[1] = 0
    <2>1. /\ 1 \in Dims /\ Radix(c, 1) \in Nat \ {0}
          /\ Digits(c, m)[1] = m % Radix(c, 1)
          /\ c.bounds[1] \in 1 .. AddrSpace - 1
      BY <1>2, ReusePositive, RadixPositive, AddrSpaceAssumption DEF WellFormed
    <2>2. Wrap(c.bounds[1] - 1) = Radix(c, 1) - 1
      BY <2>1, AddrSpaceAssumption DEF Wrap, Radix
    <2>3. m % Radix(c, 1) \in 0 .. Radix(c, 1) - 1
      BY <2>1, Division
    <2>4. (m + 1) % Radix(c, 1) = IF m % Radix(c, 1) = Radix(c, 1) - 1
                                  THEN 0 ELSE (m % Radix(c, 1)) + 1
      BY <2>1, NextNumber
    <2>5. (m + 1) % Radix(c, 1) = 0 <=> m % Radix(c, 1) = Radix(c, 1) - 1
      BY <2>1, <2>3, <2>4
    <2> QED BY <1>2, <2>1, <2>2, <2>5 DEF IsFirst, IsLast, AtBound, Reuse
  <1> QED BY <1>1, <1>2

(* The nest ends with the last use of an element. *)
LEMMA EndsWithElement ==
  ASSUME NEW c, WellFormed(c)
  PROVE  Iterations(c) % Reuse(c) = 0
  <1> DEFINE m == Iterations(c) - 1
  <1>1. m \in Nat /\ m + 1 = Iterations(c) /\ m \in 0 .. Iterations(c) - 1
    BY Below
  <1>2. AllDone(c, Digits(c, m))
    BY <1>1, AllDoneAtLast
  <1>3. CASE c.strides[1] # 0
    BY <1>1, <1>3 DEF Reuse
  <1>4. CASE c.strides[1] = 0
    <2>1. /\ 1 \in Dims /\ Radix(c, 1) \in Nat \ {0}
          /\ Digits(c, m)[1] = m % Radix(c, 1)
      BY <1>1, ReusePositive, RadixPositive
    <2>2. m % Radix(c, 1) = Radix(c, 1) - 1
      BY <1>1, <1>2, <2>1, DigitsInRange, WrapsAtLast DEF AllDone
    <2>3. (m + 1) % Radix(c, 1) = 0
      BY <1>1, <2>1, <2>2, NextNumber
    <2> QED BY <1>1, <1>4, <2>3 DEF Reuse
  <1> QED BY <1>3, <1>4

(* All iterations of an element have its address. *)
LEMMA ElementAddress ==
  ASSUME NEW c, WellFormed(c), NEW m \in Nat, NEW lane
  PROVE  IterAddress(c, m, lane) = IterAddress(c, Reuse(c) * (m \div Reuse(c)), lane)
  <1> DEFINE k == Reuse(c) * (m \div Reuse(c))
  <1>1. CASE c.strides[1] # 0
    <2>1. Reuse(c) = 1 /\ m \div 1 = m /\ 1 * m = m
      BY <1>1 DEF Reuse
    <2> QED BY <2>1
  <1>2. CASE c.strides[1] = 0
    <2> DEFINE r == Radix(c, 1)
               q == m \div r
    <2>1. r \in Nat \ {0} /\ Reuse(c) = r /\ 1 \in Dims
      BY <1>2, ReusePositive DEF Reuse
    <2> HIDE DEF r
    <2>2. q \in Nat /\ k = r * q /\ k \in Nat /\ k \div r = q
      <3>1. q \in Nat /\ k = r * q
        BY <2>1, DivisionTwice
      <3> HIDE DEF q, k
      <3>2. \A x, y \in Nat : x * y \in Nat
        OBVIOUS
      <3>3. k \in Nat
        BY <2>1, <3>1, <3>2
      <3>4. k = r * q + 0 /\ q \in Int /\ 0 \in 0 .. r - 1
        BY <2>1, <3>1, <3>3
      <3>5. k \div r = q
        BY <2>1, <3>3, <3>4, OneRemainder
      <3> QED BY <3>1, <3>3, <3>5
    <2>3. \A d \in Dims \ {1} : Digits(c, m)[d] = Digits(c, k)[d]
      <3> SUFFICES ASSUME NEW d \in Dims \ {1}
                   PROVE  m \div IterationsBelow(c, d) = k \div IterationsBelow(c, d)
        BY DEF Digits
      <3> HIDE DEF k, q
      <3>1. PICK x \in Nat \ {0} : IterationsBelow(c, d) = r * x
        BY Below DEF r
      <3>2. m \div (r * x) = (m \div r) \div x /\ k \div (r * x) = (k \div r) \div x
        <4>1. r \in Nat \ {0} /\ k \in Nat
          BY <2>1, <2>2
        <4> QED BY <4>1, DivisionTwice, Zenon
      <3> QED BY <2>2, <3>1, <3>2 DEF q
    <2>4. Digits(c, m)[1] \in Nat /\ Digits(c, k)[1] \in Nat
      <3>1. InRange(c, Digits(c, m)) /\ InRange(c, Digits(c, k))
        BY <2>1, <2>2, DigitsInRange
      <3>2. 1 \in Dims /\ Radix(c, 1) \in Int
        BY <2>1, RadixPositive
      <3> HIDE DEF k
      <3> QED BY <3>1, <3>2 DEF InRange
    <2> HIDE DEF k
    <2>5. \A d \in Dims : Digits(c, m)[d] * c.strides[d] = Digits(c, k)[d] * c.strides[d]
      BY <1>2, <2>3, <2>4
    <2>6. TemporalAddress(c, Digits(c, m)) = TemporalAddress(c, Digits(c, k))
      <3>1. [d \in Dims |-> Digits(c, m)[d] * c.strides[d]]
             = [d \in Dims |-> Digits(c, k)[d] * c.strides[d]]
        BY <2>5
      <3> QED BY <3>1 DEF TemporalAddress
    <2> QED BY <2>6 DEF IterAddress, Address, k
  <1> QED BY <1>1, <1>2

(* Lanes differ in the dimensions: there is one at least, the first. *)
LEMMA SomeLane ==
  /\ 0 \in Lanes /\ NumLanes \in Nat \ {0}
  /\ \A k \in SDims : /\ SpatialDims[k] \in Nat \ {0}
                      /\ LanesWithin(k) \in Nat \ {0}
                      /\ NumLanes \div LanesWithin(k) \in Nat \ {0}
  <1> DEFINE P == Products(SpatialDims)
             n == Len(SpatialDims)
  <1>1. SpatialDims \in Seq(Nat \ {0}) /\ n \in Nat /\ SDims = 1 .. n
    BY SpatialAssumption DEF SDims
  <1>2. \A k \in 0 .. n : P[k] \in Nat \ {0}
    BY <1>1, ProductsStep
  <1>3. ASSUME NEW k \in SDims PROVE P[n] \div P[k] \in Nat \ {0}
    <2>1. k \in 0 .. n /\ n \in k .. n
      BY <1>1
    <2>2. PICK x \in Nat \ {0} : P[n] = P[k] * x
      BY <1>1, <2>1, ProductsFactor
    <2> DEFINE a == P[k]
    <2>3. a \in Nat \ {0}
      BY <1>2, <2>1
    <2> HIDE DEF a
    <2>4. a * x = a * x + 0 /\ a * x \in Nat /\ x \in Int /\ 0 \in 0 .. a - 1
      <3>1. \A u, v \in Nat : u * v \in Nat
        OBVIOUS
      <3> QED BY <2>3, <3>1
    <2>5. (a * x) \div a = x
      BY <2>3, <2>4, OneRemainder
    <2> QED BY <2>2, <2>5 DEF a
  <1>4. NumLanes = P[n] /\ \A k : LanesWithin(k) = P[k]
    BY DEF NumLanes, LanesWithin
  <1>5. \A k \in SDims : SpatialDims[k] \in Nat \ {0} /\ k \in 0 .. n
    BY <1>1
  <1> HIDE DEF P, n
  <1>6. NumLanes \in Nat \ {0}
    BY <1>1, <1>2, <1>4
  <1> QED BY <1>2, <1>3, <1>4, <1>5, <1>6 DEF Lanes

------------------------------------------------------------------------------
(* An address is one of the memory's. *)
LEMMA AddressType ==
  ASSUME NEW c, WellFormed(c), NEW counters \in [Dims -> Int], NEW i \in Lanes
  PROVE  Address(c, counters, i) \in 0 .. AddrSpace - 1
  <1> DEFINE t == [d \in Dims |-> counters[d] * c.strides[d]]
             u == [k \in SDims |-> DimIndex(i, k) * c.spatial[k]]
  <1>1. \A n \in Int : Wrap(n) \in 0 .. AddrSpace - 1
    BY AddrSpaceAssumption DEF Wrap
  <1>2. c.base \in Int /\ c.strides \in [Dims -> Int] /\ c.spatial \in [SDims -> Int]
    BY DEF WellFormed
  <1>3. Sum(t) \in Int
    <2>1. \A d \in Dims : counters[d] * c.strides[d] \in Int
      BY <1>2
    <2>2. t \in Seq(Int)
      BY <2>1, NumDimsAssumption DEF Dims
    <2> QED BY <2>2, SumType
  <1>4. Sum(u) \in Int
    <2>1. Len(SpatialDims) \in Nat /\ SDims = 1 .. Len(SpatialDims)
      BY SpatialAssumption DEF SDims
    <2>2. ASSUME NEW k \in SDims PROVE DimIndex(i, k) * c.spatial[k] \in Int
      <3>1. k - 1 \in 0 .. Len(SpatialDims)
        BY <2>1
      <3>2. LanesWithin(k - 1) \in Nat \ {0} /\ SpatialDims[k] \in Nat \ {0}
        BY <3>1, SpatialAssumption, ProductsStep, SomeLane DEF LanesWithin
      <3>3. \A x \in Nat, y, z \in Nat \ {0} : (x \div y) % z \in Int
        OBVIOUS
      <3>4. i \in Nat
        BY SomeLane DEF Lanes
      <3>5. DimIndex(i, k) \in Int
        BY <3>2, <3>3, <3>4 DEF DimIndex
      <3> QED BY <1>2, <3>5
    <2>3. u \in Seq(Int)
      BY <2>1, <2>2
    <2> QED BY <2>3, SumType
  <1> HIDE DEF t, u
  <1>5. Wrap(c.base + Sum(t)) \in Int
    <2>1. c.base + Sum(t) \in Int
      BY <1>2, <1>3
    <2> QED BY <1>1, <2>1
  <1>6. Wrap(Wrap(c.base + Sum(t)) + Sum(u)) \in 0 .. AddrSpace - 1
    <2>1. Wrap(c.base + Sum(t)) + Sum(u) \in Int
      BY <1>4, <1>5
    <2> QED BY <1>1, <2>1
  <1> QED BY <1>6 DEF Address, TemporalAddress, t, u

(* So is the address of an iteration. *)
LEMMA AddressInRange ==
  ASSUME NEW c, WellFormed(c), NEW m \in Nat, NEW i \in Lanes
  PROVE  IterAddress(c, m, i) \in 0 .. AddrSpace - 1
  <1>1. InRange(c, Digits(c, m))
    BY DigitsInRange
  <1>2. Digits(c, m) \in [Dims -> Int]
    BY <1>1 DEF InRange
  <1> QED BY <1>2, AddressType DEF IterAddress

(* The registers of a generator whose consumer has taken n addresses of the *)
(* job on its configuration wires; before the first job there is nothing to *)
(* take.                                                                    *)
AtIteration(c, agu, started, n) ==
  /\ agu = [busy |-> agu.busy, counters |-> agu.counters]
  /\ agu.busy \in BOOLEAN
  /\ IF agu.busy
     THEN started /\ n < Iterations(c) /\ agu.counters = Digits(c, n)
     ELSE /\ agu.counters = AguReset.counters
          /\ n = IF started THEN Iterations(c) ELSE 0

(* A clock edge without start: at most one address is taken. *)
LEMMA GeneratorStep ==
  ASSUME NEW c, WellFormed(c), NEW agu, NEW started, NEW n \in Nat,
         AtIteration(c, agu, started, n), NEW ready
  PROVE  AtIteration(c, AguNext(c, agu, FALSE, ready), started,
                     IF agu.busy /\ ready THEN n + 1 ELSE n)
  <1> DEFINE next == AguNext(c, agu, FALSE, ready)
  <1>1. Iterations(c) \in Nat \ {0}
    BY Below
  <1>2. CASE agu.busy /\ ready
    <2>1. started /\ n < Iterations(c) /\ agu.counters = Digits(c, n)
      BY <1>2 DEF AtIteration
    <2>2. next = [busy |-> ~AllDone(c, agu.counters),
                  counters |-> IncrementCounters(c, agu.counters)]
      BY <1>2 DEF AguNext
    <2>3. IncrementCounters(c, agu.counters) = Digits(c, n + 1)
      BY <2>1, IncrementCounts
    <2>4. AllDone(c, agu.counters) <=> n = Iterations(c) - 1
      BY <1>1, <2>1, AllDoneAtLast
    <2> HIDE DEF next
    <2>5. CASE n = Iterations(c) - 1
      <3>1. IncrementCounters(c, agu.counters) = AguReset.counters
        BY <2>4, <2>5, LastStep
      <3>2. next = [busy |-> FALSE, counters |-> AguReset.counters]
        BY <2>2, <2>4, <2>5, <3>1
      <3>3. n + 1 = Iterations(c)
        BY <1>1, <2>5
      <3>4. AtIteration(c, next, started, n + 1)
        BY <2>1, <3>2, <3>3 DEF AtIteration
      <3> QED BY <1>2, <3>4 DEF next
    <2>6. CASE n # Iterations(c) - 1
      <3>1. next = [busy |-> TRUE, counters |-> Digits(c, n + 1)]
        BY <2>2, <2>3, <2>4, <2>6
      <3>2. n + 1 < Iterations(c)
        BY <1>1, <2>1, <2>6
      <3>3. AtIteration(c, next, started, n + 1)
        BY <2>1, <3>1, <3>2 DEF AtIteration
      <3> QED BY <1>2, <3>3 DEF next
    <2> QED BY <2>5, <2>6
  <1>3. CASE ~(agu.busy /\ ready)
    <2>1. next = agu
      <3>1. CASE agu.busy
        BY <1>3, <3>1 DEF AguNext
      <3>2. CASE ~agu.busy
        <4>1. next = [agu EXCEPT !.busy = FALSE]
          BY <3>2 DEF AguNext
        <4>2. agu = [busy |-> FALSE, counters |-> agu.counters]
          BY <3>2 DEF AtIteration
        <4> QED BY <4>1, <4>2
      <3> QED BY <3>1, <3>2
    <2> QED BY <1>3, <2>1
  <1> QED BY <1>2, <1>3

(* A generator that has been through its nest starts with the next one. *)
LEMMA GeneratorStart ==
  ASSUME NEW c, NEW d, WellFormed(d), NEW agu, NEW started, NEW n,
         AtIteration(c, agu, started, n), ~agu.busy, NEW ready
  PROVE  AtIteration(d, AguNext(c, agu, TRUE, ready), TRUE, 0)
  <1> DEFINE next == AguNext(c, agu, TRUE, ready)
  <1>1. agu = [busy |-> FALSE, counters |-> AguReset.counters]
    BY DEF AtIteration
  <1>2. next = [busy |-> TRUE, counters |-> AguReset.counters]
    BY <1>1 DEF AguNext
  <1>3. Digits(d, 0) = AguReset.counters /\ 0 < Iterations(d)
    BY FirstDigits, Below
  <1> HIDE DEF next
  <1>4. AtIteration(d, next, TRUE, 0)
    BY <1>2, <1>3 DEF AtIteration
  <1> QED BY <1>4 DEF next

(* Before the first job *)
LEMMA GeneratorReset ==
  ASSUME NEW c PROVE AtIteration(c, AguReset, FALSE, 0)
  BY DEF AtIteration, AguReset
==============================================================================
