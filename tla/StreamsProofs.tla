---------------------------- MODULE StreamsProofs ----------------------------
(***************************************************************************)
(* The search for a schedule, for every operation and accelerator: however *)
(* it rotates and tiles the loops, the schedule does the operation's work, *)
(* and the one it accepts finishes each vector of the output before the    *)
(* next.                                                                   *)
(***************************************************************************)
EXTENDS Streams, Numbers, SequenceTheorems, FiniteSetTheorems

------------------------------------------------------------------------------
(* The iterations of a nest: all the values of its loops. *)
Box(b) == {x \in [DOMAIN b -> Nat] : \A i \in DOMAIN b : x[i] < b[i]}

(* Iterations of the loops inside loop i *)
Inside(b, i) == Prod(SubSeq(b, i + 1, Len(b)))

(* Inside the innermost loop there is one, and each loop multiplies them. *)
LEMMA InsideSteps ==
  ASSUME NEW b \in Seq(Nat \ {0})
  PROVE  /\ Inside(b, Len(b)) = 1 /\ Inside(b, 0) = Prod(b)
         /\ \A i \in 0 .. Len(b) : Inside(b, i) \in Nat \ {0}
         /\ \A i \in 1 .. Len(b) : Inside(b, i - 1) = b[i] * Inside(b, i)
  <1> DEFINE N == Len(b)
             In(i) == SubSeq(b, i + 1, N)
  <1>1. N \in Nat /\ \A i \in 1 .. N : b[i] \in Nat \ {0}
    OBVIOUS
  <1> HIDE DEF N
  <1>2. ASSUME NEW i \in 0 .. N
        PROVE  /\ In(i) \in Seq(Nat \ {0}) /\ Len(In(i)) = N - i
               /\ \A k \in 1 .. N - i : In(i)[k] = b[i + k]
    <2>1. i + 1 \in Int /\ N \in Int /\ \A k \in i + 1 .. N : b[k] \in Nat \ {0}
      BY <1>1
    <2>2. /\ In(i) \in Seq(Nat \ {0})
          /\ Len(In(i)) = IF i + 1 <= N THEN N - (i + 1) + 1 ELSE 0
          /\ \A k \in 1 .. N - (i + 1) + 1 : In(i)[k] = b[i + 1 + k - 1]
      BY <2>1, SubSeqProperties
    <2> HIDE DEF In
    <2>3. /\ N - (i + 1) + 1 = N - i
          /\ (IF i + 1 <= N THEN N - (i + 1) + 1 ELSE 0) = N - i
      BY <1>1
    <2>4. ASSUME NEW k \in 1 .. N - i PROVE In(i)[k] = b[i + k]
      <3>1. i + 1 + k - 1 = i + k /\ k \in 1 .. N - (i + 1) + 1
        BY <1>1, <2>3
      <3> QED BY <2>2, <3>1
    <2> QED BY <2>2, <2>3, <2>4
  <1>3. In(0) = b
    BY SubSeqFull DEF N
  <1>4. In(N) = <<>>
    BY <1>1, <1>2
  <1>5. Prod(<<>>) = 1
    <2>1. <<>> \in Seq(Nat \ {0}) /\ Len(<<>>) = 0
      OBVIOUS
    <2> QED BY <2>1, ProductsStep DEF Prod
  <1> HIDE DEF In
  <1>6. ASSUME NEW i \in 1 .. N PROVE Prod(In(i - 1)) = b[i] * Prod(In(i))
    <2>1. i - 1 \in 0 .. N /\ i \in 0 .. N
      BY <1>1
    <2>2. /\ In(i - 1) \in Seq(Nat \ {0}) /\ Len(In(i - 1)) = N - (i - 1)
          /\ \A k \in 1 .. N - (i - 1) : In(i - 1)[k] = b[(i - 1) + k]
      BY <1>2, <2>1
    <2>3. /\ In(i) \in Seq(Nat \ {0}) /\ Len(In(i)) = N - i
          /\ \A k \in 1 .. N - i : In(i)[k] = b[i + k]
      BY <1>2, <2>1
    <2>4. In(i - 1)[1] = b[i]
      <3>1. 1 \in 1 .. N - (i - 1) /\ (i - 1) + 1 = i
        BY <1>1
      <3> QED BY <2>2, <3>1
    <2>5. ASSUME NEW k \in 1 .. Len(In(i)) PROVE In(i)[k] = In(i - 1)[k + 1]
      <3>1. k \in 1 .. N - i /\ k + 1 \in 1 .. N - (i - 1) /\ (i - 1) + (k + 1) = i + k
        BY <1>1, <2>3
      <3> QED BY <2>2, <2>3, <3>1
    <2>6. Len(In(i - 1)) = Len(In(i)) + 1
      BY <1>1, <2>2, <2>3
    <2> QED BY <2>2, <2>3, <2>4, <2>5, <2>6, ProdHead
  <1>7. ASSUME NEW i \in 0 .. N PROVE Prod(In(i)) \in Nat \ {0}
    <2>1. In(i) \in Seq(Nat \ {0}) /\ Len(In(i)) \in 0 .. Len(In(i))
      BY <1>1, <1>2
    <2> QED BY <2>1, ProductsStep DEF Prod
  <1>8. \A i : Inside(b, i) = Prod(In(i))
    BY DEF Inside, In, N
  <1> QED BY <1>1, <1>3, <1>4, <1>5, <1>6, <1>7, <1>8 DEF N

(* Iteration n of a nest: its number in the mixed radix of the bounds *)
LEMMA IterationDigits ==
  ASSUME NEW b \in Seq(Nat \ {0}), NEW n \in Nat
  PROVE  /\ Iteration(b, n) \in Box(b)
         /\ \A i \in 1 .. Len(b) : Iteration(b, n)[i] = (n \div Inside(b, i)) % b[i]
  <1>1. DOMAIN b = 1 .. Len(b) /\ \A i \in 1 .. Len(b) : b[i] \in Nat \ {0}
    OBVIOUS
  <1>2. \A i \in 1 .. Len(b) : Iteration(b, n)[i] = (n \div Inside(b, i)) % b[i]
    BY <1>1 DEF Iteration, Inside
  <1>3. ASSUME NEW i \in 1 .. Len(b)
        PROVE  Iteration(b, n)[i] \in Nat /\ Iteration(b, n)[i] < b[i]
    <2>1. Inside(b, i) \in Nat \ {0} /\ b[i] \in Nat \ {0}
      BY <1>1, InsideSteps
    <2>2. \A x, y \in Nat \ {0} : (n \div x) % y \in Nat /\ (n \div x) % y < y
      OBVIOUS
    <2> QED BY <1>2, <2>1, <2>2
  <1>4. Iteration(b, n) \in [DOMAIN b -> Nat]
    BY <1>1, <1>3 DEF Iteration
  <1> QED BY <1>1, <1>2, <1>3, <1>4 DEF Box

(* The nest runs through all of them. *)
LEMMA NestIsBox ==
  ASSUME NEW b \in Seq(Nat \ {0})
  PROVE  Nest(b) = Box(b)
  <1> DEFINE N == Len(b)
             W(i) == Inside(b, i)
  <1>1. DOMAIN b = 1 .. N /\ N \in Nat /\ \A i \in 1 .. N : b[i] \in Nat \ {0}
    OBVIOUS
  <1>2. /\ W(N) = 1 /\ W(0) = Prod(b)
        /\ \A i \in 0 .. N : W(i) \in Nat \ {0}
        /\ \A i \in 1 .. N : W(i - 1) = b[i] * W(i)
    BY InsideSteps
  <1>3. \A n \in Nat : /\ Iteration(b, n) \in Box(b)
                       /\ \A i \in 1 .. N : Iteration(b, n)[i] = (n \div W(i)) % b[i]
    BY IterationDigits
  <1> HIDE DEF N, W
  <1>4. ASSUME NEW x \in Box(b) PROVE \E n \in 0 .. Prod(b) - 1 : Iteration(b, n) = x
    <2>1. x \in [1 .. N -> Nat] /\ \A i \in 1 .. N : x[i] \in Nat /\ x[i] < b[i]
      BY <1>1 DEF Box
    (* m gives the loops inside j their values, whatever is added outside. *)
    <2> DEFINE Gives(j, m) ==
                 \A i \in j + 1 .. N, h \in Nat : ((h * W(j) + m) \div W(i)) % b[i] = x[i]
               T == {k \in Nat : \E m \in 0 .. W(N - k) - 1 : Gives(N - k, m)}
    <2>2. 0 \in T
      <3>1. N - 0 = N /\ N + 1 .. N = {}
        BY <1>1
      <3>2. Gives(N, 0) /\ 0 \in 0 .. W(N) - 1
        BY <1>2, <3>1
      <3> QED BY <3>1, <3>2
    <2>3. ASSUME NEW j \in 1 .. N, NEW m \in 0 .. W(j) - 1, Gives(j, m)
          PROVE  \E p \in 0 .. W(j - 1) - 1 : Gives(j - 1, p)
      <3> DEFINE w == W(j)
                 c == b[j]
                 u == x[j]
                 p == u * w + m
      <3>1. /\ w \in Nat \ {0} /\ c \in Nat \ {0} /\ u \in 0 .. c - 1 /\ m \in 0 .. w - 1
            /\ W(j - 1) = c * w
        <4>1. j \in 0 .. N
          BY <1>1
        <4>2. W(j) \in Nat \ {0} /\ b[j] \in Nat \ {0} /\ x[j] \in Nat /\ x[j] < b[j]
          BY <1>1, <1>2, <2>1, <4>1
        <4> QED BY <1>2, <4>2
      <3>2. \A h \in Nat, i \in j + 1 .. N : ((h * w + m) \div W(i)) % b[i] = x[i]
        BY <2>3
      <3> HIDE DEF w, c, u
      <3>3. p \in 0 .. c * w - 1
        <4>1. PICK k \in Nat : c = u + 1 + k
          <5>1. c - 1 - u \in Nat
            BY <3>1
          <5> QED BY <3>1, <5>1
        <4>2. c * w = u * w + w + k * w /\ k * w \in Nat /\ u * w \in Nat
          BY <3>1, <4>1
        <4> DEFINE a == u * w
                   e == k * w
                   z == c * w
        <4>3. /\ z = a + w + e /\ e \in Nat /\ a \in Nat
              /\ w \in Nat /\ m \in 0 .. w - 1 /\ p = a + m
          BY <3>1, <4>2
        <4> HIDE DEF a, e, z, p
        <4>4. p \in 0 .. z - 1
          BY <4>3
        <4> QED BY <4>4 DEF z
      <3>4. ASSUME NEW h \in Nat, NEW i \in j .. N
            PROVE  ((h * W(j - 1) + p) \div W(i)) % b[i] = x[i]
        <4> DEFINE g == h * c + u
        <4>1. g \in Nat /\ h * (c * w) + p = g * w + m
          BY <3>1
        <4> HIDE DEF g, p
        <4>2. CASE i = j
          <5>1. (g * w + m) \div w = g
            <6>1. g * w + m = w * g + m /\ g * w + m \in Nat
              BY <3>1, <4>1
            <6>2. w \in Nat \ {0} /\ m \in 0 .. w - 1 /\ g \in Int
              BY <3>1, <4>1
            <6> QED BY <6>1, <6>2, OneRemainder
          <5>2. g % c = u
            <6>1. g = c * h + u
              BY <3>1 DEF g
            <6>2. c \in Nat \ {0} /\ u \in 0 .. c - 1 /\ g \in Nat /\ h \in Int
              BY <3>1, <4>1
            <6> QED BY <6>1, <6>2, OneRemainder
          <5> QED BY <3>1, <4>1, <4>2, <5>1, <5>2 DEF w, c, u
        <4>3. CASE i # j
          <5>1. i \in j + 1 .. N
            BY <1>1, <4>3
          <5> QED BY <3>1, <3>2, <4>1, <5>1
        <4> QED BY <4>2, <4>3
      <3>5. Gives(j - 1, p)
        <4>1. (j - 1) + 1 = j
          BY <1>1
        <4> HIDE DEF p
        <4> QED BY <3>4, <4>1
      <3> HIDE DEF Gives, p
      <3> QED BY <3>1, <3>3, <3>5
    <2> HIDE DEF Gives
    <2>4. ASSUME NEW k \in 0 + 1 .. N, k - 1 \in T PROVE k \in T
      <3>1. PICK m \in 0 .. W(N - (k - 1)) - 1 : Gives(N - (k - 1), m)
        BY <2>4
      <3>2. N - (k - 1) \in 1 .. N /\ (N - (k - 1)) - 1 = N - k /\ k \in Nat
        BY <1>1
      <3>3. \E p \in 0 .. W((N - (k - 1)) - 1) - 1 : Gives((N - (k - 1)) - 1, p)
        BY <2>3, <3>1, <3>2
      <3>4. \E p \in 0 .. W(N - k) - 1 : Gives(N - k, p)
        BY <3>2, <3>3
      <3> QED BY <3>2, <3>4
    <2>5. N \in T
      <3>1. 0 \in Nat /\ N \in Nat /\ 0 <= N
        BY <1>1
      <3> HIDE DEF T
      <3> QED BY <2>2, <2>4, <3>1, Climb
    <2>6. PICK m \in 0 .. W(0) - 1 : Gives(0, m)
      <3>1. N - N = 0
        BY <1>1
      <3>2. \E m \in 0 .. W(N - N) - 1 : Gives(N - N, m)
        BY <2>5
      <3> QED BY <3>1, <3>2
    <2>7. m \in 0 .. Prod(b) - 1 /\ m \in Nat
      BY <1>2, <2>6
    <2>8. ASSUME NEW i \in 1 .. N PROVE Iteration(b, m)[i] = x[i]
      <3>1. ((0 * W(0) + m) \div W(i)) % b[i] = x[i]
        <4>1. 0 + 1 = 1 /\ 0 \in Nat
          OBVIOUS
        <4> QED BY <2>6, <4>1 DEF Gives
      <3>2. 0 * W(0) + m = m
        BY <1>1, <1>2, <2>7
      <3> QED BY <1>3, <2>7, <3>1, <3>2
    <2>9. Iteration(b, m) \in [1 .. N -> Nat]
      BY <1>1, <1>3, <2>7 DEF Box
    <2>10. Iteration(b, m) = x
      <3>1. Iteration(b, m) = [i \in 1 .. N |-> Iteration(b, m)[i]]
        BY <2>9
      <3>2. x = [i \in 1 .. N |-> x[i]]
        BY <2>1
      <3>3. [i \in 1 .. N |-> Iteration(b, m)[i]] = [i \in 1 .. N |-> x[i]]
        BY <2>8
      <3> QED BY <3>1, <3>2, <3>3, Zenon
    <2> QED BY <2>7, <2>10
  <1> QED BY <1>3, <1>4 DEF Nest

------------------------------------------------------------------------------
(* Rotation and tiling *)
LEMMA UptoSeq ==
  ASSUME NEW n \in Nat
  PROVE  Upto(n) \in Seq(Int) /\ Len(Upto(n)) = n /\ \A k \in 1 .. n : Upto(n)[k] = k
  <1>1. Upto(n) \in [1 .. n -> Int]
    BY DEF Upto
  <1>2. Upto(n) \in Seq(Int) /\ DOMAIN Upto(n) = 1 .. n
    BY <1>1
  <1>3. \A k \in 1 .. n : Upto(n)[k] = k
    BY DEF Upto
  <1> QED BY <1>2, <1>3

(* A part of a sequence *)
LEMMA Part ==
  ASSUME NEW S, NEW s \in Seq(S), NEW a \in 1 .. Len(s) + 1, NEW e \in a - 1 .. Len(s)
  PROVE  /\ SubSeq(s, a, e) \in Seq(S)
         /\ Len(SubSeq(s, a, e)) = e - a + 1
         /\ \A k \in 1 .. e - a + 1 : SubSeq(s, a, e)[k] = s[a + k - 1]
  <1>1. Len(s) \in Nat /\ \A k \in 1 .. Len(s) : s[k] \in S
    OBVIOUS
  <1>2. a \in Int /\ e \in Int /\ \A k \in a .. e : s[k] \in S
    BY <1>1
  <1>3. /\ SubSeq(s, a, e) \in Seq(S)
        /\ Len(SubSeq(s, a, e)) = IF a <= e THEN e - a + 1 ELSE 0
        /\ \A k \in 1 .. e - a + 1 : SubSeq(s, a, e)[k] = s[a + k - 1]
    BY <1>2, SubSeqProperties
  <1>4. (IF a <= e THEN e - a + 1 ELSE 0) = e - a + 1
    BY <1>1
  <1> QED BY <1>3, <1>4

(* Three parts one after the other *)
Parts(s, t, u) == s \o t \o u

IsParts(S, w, s, t, u) ==
  /\ w \in Seq(S) /\ Len(w) = Len(s) + Len(t) + Len(u)
  /\ \A k \in 1 .. Len(s) : w[k] = s[k]
  /\ \A k \in 1 .. Len(t) : w[Len(s) + k] = t[k]
  /\ \A k \in 1 .. Len(u) : w[Len(s) + Len(t) + k] = u[k]

LEMMA Joined ==
  ASSUME NEW S, NEW s \in Seq(S), NEW t \in Seq(S), NEW u \in Seq(S)
  PROVE  IsParts(S, Parts(s, t, u), s, t, u)
  <1> DEFINE v == s \o t
             w == Parts(s, t, u)
             a == Len(s)
             b == Len(t)
             c == Len(u)
  <1>1. a \in Nat /\ b \in Nat /\ c \in Nat
    OBVIOUS
  <1>2. v \in Seq(S) /\ Len(v) = a + b
        /\ \A k \in 1 .. a + b : v[k] = IF k <= a THEN s[k] ELSE t[k - a]
    BY ConcatProperties
  <1>3. w = v \o u
    BY DEF Parts
  <1> HIDE DEF v, w
  <1>4. w \in Seq(S) /\ Len(w) = Len(v) + c
        /\ \A k \in 1 .. Len(v) + c : w[k] = IF k <= Len(v) THEN v[k] ELSE u[k - Len(v)]
    <2>1. v \in Seq(S) /\ u \in Seq(S)
      BY <1>2
    <2>2. v \o u \in Seq(S) /\ Len(v \o u) = Len(v) + Len(u)
          /\ \A k \in 1 .. Len(v) + Len(u) :
               (v \o u)[k] = IF k <= Len(v) THEN v[k] ELSE u[k - Len(v)]
      BY <2>1, ConcatProperties, Zenon
    <2> QED BY <1>3, <2>2
  <1> HIDE DEF a, b, c
  <1>5. ASSUME NEW k \in 1 .. a PROVE w[k] = s[k]
    <2>1. k \in 1 .. a + b /\ k \in 1 .. (a + b) + c /\ k <= a /\ k <= a + b
      BY <1>1
    <2> QED BY <1>2, <1>4, <2>1
  <1>6. ASSUME NEW k \in 1 .. b PROVE w[a + k] = t[k]
    <2>1. /\ a + k \in 1 .. a + b /\ a + k \in 1 .. (a + b) + c
          /\ ~(a + k <= a) /\ a + k <= a + b /\ (a + k) - a = k
      BY <1>1
    <2> QED BY <1>2, <1>4, <2>1
  <1>7. ASSUME NEW k \in 1 .. c PROVE w[a + b + k] = u[k]
    <2>1. /\ a + b + k \in 1 .. (a + b) + c
          /\ ~(a + b + k <= a + b) /\ (a + b + k) - (a + b) = k
      BY <1>1
    <2> QED BY <1>2, <1>4, <2>1
  <1> QED BY <1>2, <1>4, <1>5, <1>6, <1>7 DEF a, b, c, w, IsParts

(* The order Rotate takes the loops in *)
LEMMA RotatedOrder ==
  ASSUME NEW N \in Nat, NEW n \in 1 .. N
  PROVE  LET ds == SubSeq(Upto(n), 2, n) \o <<1>> \o SubSeq(Upto(N), n + 1, N)
         IN  /\ DOMAIN ds = 1 .. N
             /\ \A k \in 1 .. n - 1 : ds[k] = k + 1
             /\ ds[n] = 1
             /\ \A k \in n + 1 .. N : ds[k] = k
  <1> DEFINE s == SubSeq(Upto(n), 2, n)
             t == <<1>>
             u == SubSeq(Upto(N), n + 1, N)
             ds == s \o t \o u
  <1>1. /\ s \in Seq(Int) /\ Len(s) = n - 1
        /\ \A k \in 1 .. n - 1 : s[k] = k + 1
    <2>1. Upto(n) \in Seq(Int) /\ Len(Upto(n)) = n /\ \A k \in 1 .. n : Upto(n)[k] = k
      BY UptoSeq
    <2>2. 2 \in 1 .. Len(Upto(n)) + 1 /\ n \in 2 - 1 .. Len(Upto(n)) /\ n - 2 + 1 = n - 1
      BY <2>1
    <2>3. s \in Seq(Int) /\ Len(s) = n - 1 /\ \A k \in 1 .. n - 1 : s[k] = Upto(n)[2 + k - 1]
      BY <2>1, <2>2, Part
    <2>4. \A k \in 1 .. n - 1 : 2 + k - 1 = k + 1 /\ k + 1 \in 1 .. n
      OBVIOUS
    <2> QED BY <2>1, <2>3, <2>4
  <1>2. /\ u \in Seq(Int) /\ Len(u) = N - n
        /\ \A k \in 1 .. N - n : u[k] = n + k
    <2>1. Upto(N) \in Seq(Int) /\ Len(Upto(N)) = N /\ \A k \in 1 .. N : Upto(N)[k] = k
      BY UptoSeq
    <2>2. n + 1 \in 1 .. Len(Upto(N)) + 1 /\ N \in (n + 1) - 1 .. Len(Upto(N)) /\ N - (n + 1) + 1 = N - n
      BY <2>1
    <2>3. u \in Seq(Int) /\ Len(u) = N - n /\ \A k \in 1 .. N - n : u[k] = Upto(N)[(n + 1) + k - 1]
      BY <2>1, <2>2, Part
    <2>4. \A k \in 1 .. N - n : (n + 1) + k - 1 = n + k /\ n + k \in 1 .. N
      OBVIOUS
    <2>5. ASSUME NEW k \in 1 .. N - n
          PROVE  u[k] = n + k
      <3>1. u[k] = Upto(N)[(n + 1) + k - 1]
        BY <2>3
      <3>2. (n + 1) + k - 1 = n + k /\ n + k \in 1 .. N
        BY <2>4
      <3> QED BY <2>1, <3>1, <3>2
    <2> QED BY <2>3, <2>5
  <1>3. t \in Seq(Int) /\ Len(t) = 1 /\ t[1] = 1
    OBVIOUS
  <1> HIDE DEF s, t, u
  <1>4. /\ ds \in Seq(Int) /\ Len(ds) = Len(s) + Len(t) + Len(u)
        /\ \A k \in 1 .. Len(s) : ds[k] = s[k]
        /\ \A k \in 1 .. Len(t) : ds[Len(s) + k] = t[k]
        /\ \A k \in 1 .. Len(u) : ds[Len(s) + Len(t) + k] = u[k]
    <2>1. s \in Seq(Int) /\ t \in Seq(Int) /\ u \in Seq(Int)
      BY <1>1, <1>2, <1>3
    <2>2. ds = Parts(s, t, u)
      BY DEF Parts
    <2> HIDE DEF ds
    <2>3. IsParts(Int, ds, s, t, u)
      BY <2>1, <2>2, Joined
    <2> QED BY <2>3 DEF IsParts
  <1> HIDE DEF ds
  <1>5. DOMAIN ds = 1 .. N
    <2>1. Len(ds) = N
      BY <1>1, <1>2, <1>3, <1>4
    <2> QED BY <1>4, <2>1
  <1>6. \A k \in 1 .. n - 1 : ds[k] = k + 1
    BY <1>1, <1>4
  <1>7. ds[n] = 1
    <2>1. Len(s) + 1 = n /\ 1 \in 1 .. Len(t)
      BY <1>1, <1>3
    <2> QED BY <1>3, <1>4, <2>1
  <1>8. ASSUME NEW k \in n + 1 .. N PROVE ds[k] = k
    <2>1. k - n \in 1 .. N - n /\ Len(s) + Len(t) + (k - n) = k /\ n + (k - n) = k
      BY <1>1, <1>3
    <2>2. ds[Len(s) + Len(t) + (k - n)] = u[k - n] /\ u[k - n] = n + (k - n)
      BY <1>2, <1>4, <2>1
    <2> QED BY <2>1, <2>2
  <1> QED BY <1>5, <1>6, <1>7, <1>8 DEF ds, s, t, u

SameOperands(s, t) ==
  /\ DOMAIN t.maps = DOMAIN s.maps
  /\ \A o \in DOMAIN s.maps : DOMAIN t.maps[o] = DOMAIN s.maps[o]

(* What a well shaped schedule consists of *)
LEMMA Shape ==
  ASSUME NEW s, WellShaped(s)
  PROVE  /\ LoopsOf(s) \in Nat /\ s.bounds \in Seq(Nat \ {0}) /\ LoopsOf(s) = Len(s.bounds)
         /\ DOMAIN s.bounds = 1 .. LoopsOf(s)
         /\ s.maps \in Seq(Seq([1 .. LoopsOf(s) -> Int]))
         /\ Len(s.maps) \in Nat /\ DOMAIN s.maps = 1 .. Len(s.maps)
         /\ \A o \in DOMAIN s.maps :
              /\ s.maps[o] \in Seq([1 .. LoopsOf(s) -> Int])
              /\ Len(s.maps[o]) \in Nat /\ DOMAIN s.maps[o] = 1 .. Len(s.maps[o])
              /\ \A r \in DOMAIN s.maps[o] : s.maps[o][r] \in [1 .. LoopsOf(s) -> Int]
  <1> DEFINE R == [1 .. LoopsOf(s) -> Int]
  <1>1. s.bounds \in Seq(Nat \ {0}) /\ s.maps \in Seq(Seq(R))
    BY DEF WellShaped
  <1>2. LoopsOf(s) \in Nat /\ LoopsOf(s) = Len(s.bounds) /\ DOMAIN s.bounds = 1 .. LoopsOf(s)
    BY <1>1 DEF LoopsOf
  <1> HIDE DEF R
  <1>3. Len(s.maps) \in Nat /\ DOMAIN s.maps = 1 .. Len(s.maps)
        /\ \A o \in DOMAIN s.maps : s.maps[o] \in Seq(R)
    BY <1>1
  <1>4. ASSUME NEW m \in Seq(R)
        PROVE  /\ Len(m) \in Nat /\ DOMAIN m = 1 .. Len(m)
               /\ \A r \in DOMAIN m : m[r] \in R
    OBVIOUS
  <1> QED BY <1>1, <1>2, <1>3, <1>4 DEF R

(* Loops of a schedule in another order, or some of them *)
LEMMA SelectShape ==
  ASSUME NEW s, WellShaped(s), NEW n \in Nat, NEW ds \in [1 .. n -> 1 .. LoopsOf(s)],
         NEW t, t = Select(s, ds)
  PROVE  /\ WellShaped(t) /\ LoopsOf(t) = n /\ SameOperands(s, t)
         /\ \A i \in 1 .. n : t.bounds[i] = s.bounds[ds[i]]
         /\ \A o \in DOMAIN s.maps : \A r \in DOMAIN s.maps[o], i \in 1 .. n :
              t.maps[o][r][i] = s.maps[o][r][ds[i]]
  <1> DEFINE R == [1 .. n -> Int]
             Map(o) == [r \in DOMAIN s.maps[o] |-> [i \in 1 .. n |-> s.maps[o][r][ds[i]]]]
             Maps == [o \in DOMAIN s.maps |-> Map(o)]
             Bs == [i \in 1 .. n |-> s.bounds[ds[i]]]
  <1>1. t = [bounds |-> Bs, maps |-> Maps]
    BY DEF Select
  <1>2. Bs \in Seq(Nat \ {0}) /\ Len(Bs) = n
    <2>1. \A i \in 1 .. n : s.bounds[ds[i]] \in Nat \ {0}
      <3> DEFINE b == s.bounds
      <3>1. b \in Seq(Nat \ {0}) /\ LoopsOf(s) = Len(b)
        BY Shape
      <3> HIDE DEF b
      <3>2. \A i \in 1 .. n : ds[i] \in 1 .. Len(b)
        BY <3>1
      <3>3. \A k \in 1 .. Len(b) : b[k] \in Nat \ {0}
        BY <3>1
      <3>4. \A i \in 1 .. n : b[ds[i]] \in Nat \ {0}
        BY <3>2, <3>3
      <3> QED BY <3>4 DEF b
    <2>2. Bs \in [1 .. n -> Nat \ {0}]
      BY <2>1
    <2> HIDE DEF Bs
    <2> QED BY <2>2
  <1>3. ASSUME NEW o \in DOMAIN s.maps
        PROVE  /\ Map(o) \in Seq(R) /\ DOMAIN Map(o) = DOMAIN s.maps[o]
               /\ \A r \in DOMAIN s.maps[o], i \in 1 .. n : Map(o)[r][i] = s.maps[o][r][ds[i]]
    <2>1. ASSUME NEW r \in DOMAIN s.maps[o]
          PROVE  [i \in 1 .. n |-> s.maps[o][r][ds[i]]] \in R
      <3>1. s.maps[o][r] \in [1 .. LoopsOf(s) -> Int]
        BY Shape
      <3> QED BY <3>1
    <2>2. DOMAIN s.maps[o] = 1 .. Len(s.maps[o]) /\ Len(s.maps[o]) \in Nat
      BY Shape
    <2>3. \A r \in DOMAIN s.maps[o], i \in 1 .. n : Map(o)[r][i] = s.maps[o][r][ds[i]]
      OBVIOUS
    <2> HIDE DEF R
    <2>4. Map(o) \in [1 .. Len(s.maps[o]) -> R]
      BY <2>1, <2>2
    <2> HIDE DEF Map
    <2>5. Map(o) \in Seq(R)
      BY <2>2, <2>4
    <2> QED BY <2>2, <2>3, <2>4, <2>5
  <1>4. DOMAIN s.maps = 1 .. Len(s.maps) /\ Len(s.maps) \in Nat
    BY Shape
  <1>5. \A o \in DOMAIN s.maps : Maps[o] = Map(o)
    OBVIOUS
  <1>6. Maps \in Seq(Seq(R))
    <2> HIDE DEF R, Map
    <2>1. Maps \in [1 .. Len(s.maps) -> Seq(R)]
      BY <1>3, <1>4
    <2> HIDE DEF Maps
    <2> QED BY <1>4, <2>1
  <1>7. DOMAIN Maps = DOMAIN s.maps
    OBVIOUS
  <1>8. \A i \in 1 .. n : Bs[i] = s.bounds[ds[i]]
    OBVIOUS
  <1> HIDE DEF R, Map, Maps, Bs
  <1>9. t.bounds = Bs /\ t.maps = Maps
    BY <1>1
  <1>10. LoopsOf(t) = n
    BY <1>2, <1>9 DEF LoopsOf
  <1>11. WellShaped(t)
    BY <1>1, <1>2, <1>6, <1>10 DEF WellShaped, R
  <1>12. SameOperands(s, t)
    BY <1>3, <1>5, <1>7, <1>9 DEF SameOperands
  <1> QED BY <1>3, <1>5, <1>8, <1>9, <1>10, <1>11, <1>12

(* A rotation moves the same column of every row. *)
RotatedRows(s, t, n) ==
  \A o \in DOMAIN s.maps : \A r \in DOMAIN s.maps[o] :
    RotatedAt(s.maps[o][r], t.maps[o][r], n)

LEMMA RotateShape ==
  ASSUME NEW s, WellShaped(s), NEW n \in 1 .. LoopsOf(s), NEW t, t = Rotate(s, n)
  PROVE  /\ WellShaped(t) /\ LoopsOf(t) = LoopsOf(s) /\ SameOperands(s, t)
         /\ RotatedAt(s.bounds, t.bounds, n) /\ RotatedRows(s, t, n)
  <1> DEFINE N == LoopsOf(s)
             ds == SubSeq(Upto(n), 2, n) \o <<1>> \o SubSeq(Upto(N), n + 1, N)
  <1>1. N \in Nat /\ n \in 1 .. N
    BY Shape
  <1> HIDE DEF N
  <1>2. /\ DOMAIN ds = 1 .. N
        /\ \A k \in 1 .. n - 1 : ds[k] = k + 1
        /\ ds[n] = 1
        /\ \A k \in n + 1 .. N : ds[k] = k
    BY <1>1, RotatedOrder
  <1>3. t = Select(s, ds)
    BY DEF Rotate, N
  <1>4. ds \in [1 .. N -> 1 .. N]
    <2>1. ds = [k \in 1 .. N |-> ds[k]]
      <3>1. Upto(n) \in Seq(Int) /\ Upto(N) \in Seq(Int)
        BY <1>1, UptoSeq
      <3> DEFINE a == SubSeq(Upto(n), 2, n)
                 b == SubSeq(Upto(N), n + 1, N)
      <3>2. a \in Seq(Int) /\ b \in Seq(Int)
        <4>1. \A u \in Seq(Int), x, y \in Int : 1 <= x /\ y <= Len(u) => SubSeq(u, x, y) \in Seq(Int)
          BY SubSeqProperties
        <4>2. Len(Upto(n)) = n /\ Len(Upto(N)) = N
          BY <1>1, UptoSeq
        <4> QED BY <1>1, <3>1, <4>1, <4>2
      <3> HIDE DEF a, b
      <3>3. ds \in Seq(Int)
        BY <3>2 DEF a, b
      <3> HIDE DEF ds
      <3> QED BY <1>2, <3>3
    <2> HIDE DEF ds
    <2>2. \A k \in 1 .. N : ds[k] \in 1 .. N
      <3>1. \A k \in 1 .. N : k \in 1 .. n - 1 \/ k = n \/ k \in n + 1 .. N
        BY <1>1
      <3>2. /\ \A k \in 1 .. n - 1 : k + 1 \in 1 .. N
            /\ 1 \in 1 .. N
            /\ \A k \in n + 1 .. N : k \in 1 .. N
        BY <1>1
      <3> QED BY <1>2, <3>1, <3>2
    <2> QED BY <2>1, <2>2
  <1> HIDE DEF ds
  <1>5. /\ WellShaped(t) /\ LoopsOf(t) = N /\ SameOperands(s, t)
        /\ \A i \in 1 .. N : t.bounds[i] = s.bounds[ds[i]]
        /\ \A o \in DOMAIN s.maps : \A r \in DOMAIN s.maps[o], i \in 1 .. N :
             t.maps[o][r][i] = s.maps[o][r][ds[i]]
    BY <1>1, <1>3, <1>4, SelectShape DEF N
  <1>6. ASSUME NEW f, NEW g, Len(f) = N, Len(g) = N, \A i \in 1 .. N : g[i] = f[ds[i]]
        PROVE  RotatedAt(f, g, n)
    <2>1. /\ \A k \in 1 .. n - 1 : k \in 1 .. N
          /\ n \in 1 .. N
          /\ \A k \in n + 1 .. N : k \in 1 .. N
      BY <1>1
    <2>2. \A k \in 1 .. n - 1 : g[k] = f[k + 1]
      BY <1>2, <1>6, <2>1
    <2>3. g[n] = f[1]
      BY <1>2, <1>6, <2>1
    <2>4. \A k \in n + 1 .. N : g[k] = f[k]
      BY <1>2, <1>6, <2>1
    <2> QED BY <1>6, <2>2, <2>3, <2>4 DEF RotatedAt
  <1>7. RotatedAt(s.bounds, t.bounds, n)
    <2>1. Len(s.bounds) = N /\ Len(t.bounds) = N
      BY <1>5 DEF LoopsOf, N
    <2> QED BY <1>5, <1>6, <2>1
  <1>8. RotatedRows(s, t, n)
    <2> SUFFICES ASSUME NEW o \in DOMAIN s.maps, NEW r \in DOMAIN s.maps[o]
                 PROVE  RotatedAt(s.maps[o][r], t.maps[o][r], n)
      BY DEF RotatedRows
    <2>1. s.maps[o][r] \in [1 .. N -> Int]
      BY Shape DEF N
    <2>2. t.maps[o][r] \in [1 .. N -> Int]
      BY <1>5, Shape DEF SameOperands
    <2>3. Len(s.maps[o][r]) = N /\ Len(t.maps[o][r]) = N
      BY <1>1, <2>1, <2>2
    <2>4. \A i \in 1 .. N : t.maps[o][r][i] = s.maps[o][r][ds[i]]
      BY <1>5
    <2> QED BY <1>6, <2>3, <2>4
  <1> QED BY <1>5, <1>7, <1>8 DEF N

(* Tiling splits the same column of every row. *)
TiledRows(s, t, d, inner) ==
  \A o \in DOMAIN s.maps : \A r \in DOMAIN s.maps[o] :
    LET f == s.maps[o][r]
        g == t.maps[o][r]
    IN SplitAt(f, g, d) /\ g[d] = f[d] * inner /\ g[d + 1] = f[d]

(* t in the place of the values from d up to e *)
Replaced(f, d, e, t) == Parts(SubSeq(f, 1, d - 1), t, SubSeq(f, e, Len(f)))

(* Value d of f is now x and y. *)
IsSplit(S, f, g, d, x, y) ==
  g \in Seq(S) /\ SplitAt(f, g, d) /\ g[d] = x /\ g[d + 1] = y

LEMMA SplitOne ==
  ASSUME NEW S, NEW f \in Seq(S), NEW d \in 1 .. Len(f), NEW e \in d .. d + 1,
         NEW t \in Seq(S), Len(t) = e - d + 1
  PROVE  IsSplit(S, f, Replaced(f, d, e, t), d, t[1], IF e = d THEN f[d] ELSE t[2])
  <1> DEFINE s == SubSeq(f, 1, d - 1)
             u == SubSeq(f, e, Len(f))
             n == Len(f)
             g == Replaced(f, d, e, t)
             a == Len(s)
             b == Len(t)
             c == Len(u)
  <1>1. n \in Nat /\ d \in 1 .. n /\ e \in 1 .. n + 1 /\ e - d \in {0, 1} /\ b = e - d + 1
        /\ e \in Nat /\ e >= d /\ (e # d => e = d + 1)
    OBVIOUS
  <1>2. s \in Seq(S) /\ a = d - 1 /\ \A k \in 1 .. d - 1 : s[k] = f[k]
    <2>1. 1 \in 1 .. n + 1 /\ d - 1 \in 1 - 1 .. n /\ (d - 1) - 1 + 1 = d - 1
      BY <1>1
    <2>2. s \in Seq(S) /\ Len(s) = d - 1 /\ \A k \in 1 .. d - 1 : s[k] = f[1 + k - 1]
      BY <2>1, Part
    <2>3. \A k \in 1 .. d - 1 : 1 + k - 1 = k
      BY <1>1
    <2> QED BY <2>2, <2>3
  <1>3. u \in Seq(S) /\ c = n - e + 1 /\ \A k \in 1 .. n - e + 1 : u[k] = f[e + k - 1]
    <2>1. e \in 1 .. n + 1 /\ n \in e - 1 .. n
      BY <1>1
    <2> QED BY <2>1, Part
  <1>4. g = Parts(s, t, u)
    BY DEF Replaced
  <1> HIDE DEF s, u, n, g
  <1>5. /\ g \in Seq(S) /\ Len(g) = a + b + c
        /\ \A k \in 1 .. a : g[k] = s[k]
        /\ \A k \in 1 .. b : g[a + k] = t[k]
        /\ \A k \in 1 .. c : g[a + b + k] = u[k]
    <2>1. s \in Seq(S) /\ u \in Seq(S)
      BY <1>2, <1>3
    <2>2. IsParts(S, g, s, t, u)
      BY <1>4, <2>1, Joined
    <2> QED BY <2>2 DEF IsParts
  <1> HIDE DEF a, b, c
  <1>6. Len(g) = n + 1
    <2>1. Len(g) = a + b + c /\ a = d - 1 /\ b = e - d + 1 /\ c = n - e + 1
      BY <1>1, <1>2, <1>3, <1>5
    <2> QED BY <1>1, <2>1
  <1>7. \A k \in 1 .. d - 1 : g[k] = f[k]
    BY <1>2, <1>5
  <1>8. g[d] = t[1]
    <2>1. 1 \in 1 .. b /\ a + 1 = d
      BY <1>1, <1>2
    <2> QED BY <1>5, <2>1
  <1>9. ASSUME NEW k \in e .. n PROVE g[k + 1] = f[k]
    <2>1. /\ k - e + 1 \in 1 .. n - e + 1 /\ a + b + (k - e + 1) = k + 1
          /\ e + (k - e + 1) - 1 = k
      BY <1>1, <1>2
    <2>2. /\ g[a + b + (k - e + 1)] = u[k - e + 1]
          /\ u[k - e + 1] = f[e + (k - e + 1) - 1]
      BY <1>3, <1>5, <2>1
    <2> QED BY <2>1, <2>2
  <1>10. g[d + 1] = IF e = d THEN f[d] ELSE t[2]
    <2>1. CASE e = d
      <3>1. d \in e .. n
        BY <1>1, <2>1
      <3> QED BY <1>9, <2>1, <3>1
    <2>2. CASE e # d
      <3>1. 2 \in 1 .. b /\ a + 2 = d + 1
        BY <1>1, <1>2, <2>2
      <3> QED BY <1>5, <2>2, <3>1
    <2> QED BY <2>1, <2>2
  <1>11. \A k \in d + 1 .. n : g[k + 1] = f[k]
    <2>1. \A k \in d + 1 .. n : k \in e .. n
      BY <1>1
    <2> QED BY <1>9, <2>1
  <1> QED BY <1>5, <1>6, <1>7, <1>8, <1>10, <1>11 DEF SplitAt, n, g, IsSplit

(* What SplitColumn makes of a row *)
LEMMA SplitRow ==
  ASSUME NEW f \in Seq(Int), NEW d \in 1 .. Len(f), NEW inner \in Nat \ {0}
  PROVE  IsSplit(Int, f, SplitColumn(f, d, inner), d, f[d] * inner, f[d])
  <1> DEFINE t == <<f[d] * inner>>
             g == SplitColumn(f, d, inner)
  <1>1. f[d] \in Int
    OBVIOUS
  <1>2. f[d] * inner \in Int
    BY <1>1
  <1>3. t \in Seq(Int) /\ Len(t) = d - d + 1 /\ t[1] = f[d] * inner
    BY <1>2
  <1>4. g = Replaced(f, d, d, t)
    BY DEF SplitColumn, Replaced, Parts
  <1>5. d \in d .. d + 1
    OBVIOUS
  <1> HIDE DEF t, g
  <1>6. IsSplit(Int, f, g, d, t[1], IF d = d THEN f[d] ELSE t[2])
    BY <1>3, <1>4, <1>5, SplitOne
  <1> QED BY <1>3, <1>6 DEF g

(* What TileDim makes of the bounds *)
LEMMA SplitBounds ==
  ASSUME NEW f \in Seq(Nat \ {0}), NEW d \in 1 .. Len(f), NEW x \in Nat \ {0}, NEW y \in Nat \ {0}
  PROVE  IsSplit(Nat \ {0}, f, Replaced(f, d, d + 1, <<x, y>>), d, x, y)
  <1> DEFINE t == <<x, y>>
             g == Replaced(f, d, d + 1, t)
  <1>1. t \in Seq(Nat \ {0}) /\ Len(t) = (d + 1) - d + 1 /\ t[1] = x /\ t[2] = y
    OBVIOUS
  <1>2. d + 1 \in d .. d + 1 /\ d + 1 # d
    OBVIOUS
  <1> HIDE DEF t
  <1>3. IsSplit(Nat \ {0}, f, g, d, t[1], IF d + 1 = d THEN f[d] ELSE t[2])
    BY <1>1, <1>2, SplitOne
  <1> QED BY <1>1, <1>2, <1>3 DEF t

LEMMA TileShape ==
  ASSUME NEW s, WellShaped(s), NEW d \in 1 .. LoopsOf(s), NEW inner \in Nat \ {0},
         s.bounds[d] \div inner \in Nat \ {0}, NEW t, t = TileDim(s, d, inner)
  PROVE  /\ WellShaped(t) /\ LoopsOf(t) = LoopsOf(s) + 1 /\ SameOperands(s, t)
         /\ SplitAt(s.bounds, t.bounds, d)
         /\ t.bounds[d] = s.bounds[d] \div inner /\ t.bounds[d + 1] = inner
         /\ TiledRows(s, t, d, inner)
  <1> DEFINE N == LoopsOf(s)
             Row(o, r) == SplitColumn(s.maps[o][r], d, inner)
             Map(o) == [r \in DOMAIN s.maps[o] |-> Row(o, r)]
             Maps == [o \in DOMAIN s.maps |-> Map(o)]
             b == s.bounds
             q == b[d] \div inner
             Bs == SubSeq(b, 1, d - 1) \o <<q, inner>> \o SubSeq(b, d + 1, N)
             R == [1 .. N + 1 -> Int]
  <1>1. t = [bounds |-> Bs, maps |-> Maps]
    BY DEF TileDim
  <1>2. N \in Nat /\ d \in 1 .. N /\ b \in Seq(Nat \ {0}) /\ Len(b) = N
    BY Shape
  <1>3. q \in Nat \ {0}
    OBVIOUS
  <1>4. t.bounds = Bs /\ t.maps = Maps
    <2> HIDE DEF Bs, Maps
    <2> QED BY <1>1
  <1>5. IsSplit(Nat \ {0}, b, Bs, d, q, inner)
    <2>1. Bs = Replaced(b, d, d + 1, <<q, inner>>)
      BY <1>2 DEF Replaced, Parts
    <2> HIDE DEF Bs, q, b, N
    <2> QED BY <1>2, <1>3, <2>1, SplitBounds
  <1>6. Len(Bs) = N + 1
    BY <1>2, <1>5 DEF IsSplit, SplitAt
  <1>7. ASSUME NEW o \in DOMAIN s.maps, NEW r \in DOMAIN s.maps[o]
        PROVE  /\ Row(o, r) \in R
               /\ SplitAt(s.maps[o][r], Row(o, r), d)
               /\ Row(o, r)[d] = s.maps[o][r][d] * inner
               /\ Row(o, r)[d + 1] = s.maps[o][r][d]
    <2> DEFINE f == s.maps[o][r]
               g == Row(o, r)
    <2>1. f \in [1 .. N -> Int]
      BY Shape
    <2>2. g = SplitColumn(f, d, inner)
      OBVIOUS
    <2> HIDE DEF f, g, N
    <2>3. f \in Seq(Int) /\ Len(f) = N
      BY <1>2, <2>1
    <2>4. IsSplit(Int, f, g, d, f[d] * inner, f[d])
      BY <1>2, <2>2, <2>3, SplitRow
    <2>5. Len(g) = N + 1
      BY <2>3, <2>4 DEF IsSplit, SplitAt
    <2>6. g \in [1 .. N + 1 -> Int]
      BY <2>4, <2>5 DEF IsSplit
    <2> QED BY <2>4, <2>6 DEF f, g, IsSplit
  <1> HIDE DEF Row
  <1>8. \A o \in DOMAIN s.maps : \A r \in DOMAIN s.maps[o] : Maps[o][r] = Row(o, r)
    OBVIOUS
  <1>9. \A o \in DOMAIN s.maps : DOMAIN Maps[o] = DOMAIN s.maps[o]
    OBVIOUS
  <1>10. DOMAIN Maps = DOMAIN s.maps
    OBVIOUS
  <1>11. Maps \in Seq(Seq(R))
    <2>1. ASSUME NEW o \in DOMAIN s.maps PROVE Map(o) \in Seq(R)
      <3>1. DOMAIN s.maps[o] = 1 .. Len(s.maps[o]) /\ Len(s.maps[o]) \in Nat
        BY Shape
      <3>2. \A r \in DOMAIN s.maps[o] : Row(o, r) \in R
        BY <1>7
      <3> HIDE DEF R
      <3>3. Map(o) \in [1 .. Len(s.maps[o]) -> R]
        BY <3>1, <3>2
      <3> HIDE DEF Map
      <3> QED BY <3>1, <3>3
    <2>2. DOMAIN s.maps = 1 .. Len(s.maps) /\ Len(s.maps) \in Nat
      BY Shape
    <2> HIDE DEF R, Map
    <2>3. Maps \in [1 .. Len(s.maps) -> Seq(R)]
      BY <2>1, <2>2
    <2> HIDE DEF Maps
    <2> QED BY <2>2, <2>3
  <1>12. LoopsOf(t) = N + 1
    BY <1>4, <1>6 DEF LoopsOf
  <1> HIDE DEF Map, Maps, Bs, N, R
  <1>13. WellShaped(t)
    BY <1>1, <1>5, <1>11, <1>12 DEF WellShaped, R, IsSplit
  <1>14. SameOperands(s, t)
    BY <1>4, <1>9, <1>10 DEF SameOperands
  <1>15. TiledRows(s, t, d, inner)
    BY <1>4, <1>7, <1>8 DEF TiledRows
  <1> QED BY <1>4, <1>5, <1>12, <1>13, <1>14, <1>15 DEF N, IsSplit
------------------------------------------------------------------------------
(* The element an iteration of a rotated or tiled nest names *)
Terms(f, x) == [i \in DOMAIN x |-> f[i] * x[i]]

(* Rows and iterations of nests of n loops *)
RowsOf(n) == [1 .. n -> Int]
PointsOf(n) == [1 .. n -> Nat]

LEMMA IndexRows ==
  ASSUME NEW m, NEW x
  PROVE  Index(m, x) = [r \in DOMAIN m |-> Sum(Terms(m[r], x))]
  BY DEF Index, Terms

LEMMA TermsSeq ==
  ASSUME NEW N \in Nat, NEW f \in [1 .. N -> Int], NEW x \in [1 .. N -> Nat]
  PROVE  /\ Terms(f, x) \in Seq(Int) /\ Len(Terms(f, x)) = N
         /\ \A i \in 1 .. N : Terms(f, x)[i] = f[i] * x[i]
  <1>1. Terms(f, x) \in [1 .. N -> Int]
    <2>1. \A i \in 1 .. N : f[i] \in Int /\ x[i] \in Int
      OBVIOUS
    <2>2. \A u, v \in Int : u * v \in Int
      OBVIOUS
    <2> QED BY <2>1, <2>2 DEF Terms
  <1>2. \A i \in 1 .. N : Terms(f, x)[i] = f[i] * x[i]
    BY DEF Terms
  <1> QED BY <1>1, <1>2

LEMMA RotatedTerms ==
  ASSUME NEW N \in Nat, NEW f \in RowsOf(N), NEW g \in RowsOf(N),
         NEW x \in PointsOf(N), NEW y \in PointsOf(N), NEW n \in 1 .. N,
         RotatedAt(f, g, n), RotatedAt(x, y, n)
  PROVE  Sum(Terms(g, y)) = Sum(Terms(f, x))
  <1> DEFINE p == Terms(f, x)
             q == Terms(g, y)
  <1>1. /\ p \in Seq(Int) /\ Len(p) = N /\ \A i \in 1 .. N : p[i] = f[i] * x[i]
        /\ q \in Seq(Int) /\ Len(q) = N /\ \A i \in 1 .. N : q[i] = g[i] * y[i]
    BY TermsSeq DEF RowsOf, PointsOf
  <1>2. Len(f) = N /\ Len(x) = N
    BY DEF RowsOf, PointsOf
  <1>3. /\ \A k \in 1 .. n - 1 : g[k] = f[k + 1] /\ y[k] = x[k + 1]
        /\ g[n] = f[1] /\ y[n] = x[1]
        /\ \A k \in n + 1 .. N : g[k] = f[k] /\ y[k] = x[k]
    BY <1>2 DEF RotatedAt
  <1>4. /\ \A k \in 1 .. n - 1 : k \in 1 .. N /\ k + 1 \in 1 .. N
        /\ n \in 1 .. N /\ 1 \in 1 .. N
        /\ \A k \in n + 1 .. N : k \in 1 .. N
    OBVIOUS
  <1> HIDE DEF p, q
  <1>5. RotatedAt(p, q, n)
    <2>1. \A k \in 1 .. n - 1 : q[k] = p[k + 1]
      BY <1>1, <1>3, <1>4
    <2>2. q[n] = p[1]
      BY <1>1, <1>3, <1>4
    <2>3. \A k \in n + 1 .. N : q[k] = p[k]
      BY <1>1, <1>3, <1>4
    <2> QED BY <1>1, <2>1, <2>2, <2>3 DEF RotatedAt
  <1>6. n \in 1 .. Len(p)
    BY <1>1
  <1>7. Sum(q) = Sum(p)
    BY <1>1, <1>5, <1>6, SumRotated
  <1> QED BY <1>7 DEF p, q

LEMMA TiledTerms ==
  ASSUME NEW N \in Nat, NEW M \in Nat, M = N + 1,
         NEW f \in RowsOf(N), NEW g \in RowsOf(M),
         NEW x \in PointsOf(N), NEW y \in PointsOf(M), NEW d \in 1 .. N,
         NEW inner \in Nat,
         SplitAt(f, g, d), g[d] = f[d] * inner, g[d + 1] = f[d],
         SplitAt(x, y, d), x[d] = y[d] * inner + y[d + 1]
  PROVE  Sum(Terms(g, y)) = Sum(Terms(f, x))
  <1> DEFINE p == Terms(f, x)
             q == Terms(g, y)
  <1>1. p \in Seq(Int) /\ Len(p) = N /\ \A i \in 1 .. N : p[i] = f[i] * x[i]
    BY TermsSeq DEF RowsOf, PointsOf
  <1>2. q \in Seq(Int) /\ Len(q) = M /\ \A i \in 1 .. M : q[i] = g[i] * y[i]
    BY TermsSeq DEF RowsOf, PointsOf
  <1>3. Len(f) = N /\ Len(x) = N
    BY DEF RowsOf, PointsOf
  <1>4. /\ \A k \in 1 .. d - 1 : g[k] = f[k] /\ y[k] = x[k]
        /\ \A k \in d + 1 .. N : g[k + 1] = f[k] /\ y[k + 1] = x[k]
    BY <1>3 DEF SplitAt
  <1>5. /\ \A k \in 1 .. d - 1 : k \in 1 .. N /\ k \in 1 .. M
        /\ d \in 1 .. N /\ d \in 1 .. M /\ d + 1 \in 1 .. M
        /\ \A k \in d + 1 .. N : k \in 1 .. N /\ k + 1 \in 1 .. M
    OBVIOUS
  <1>6. f[d] \in Int /\ x[d] \in Int /\ y[d] \in Int /\ y[d + 1] \in Int
    BY <1>5 DEF RowsOf, PointsOf
  <1>7. Len(q) = Len(p) + 1
    BY <1>1, <1>2
  <1> HIDE DEF p, q
  <1>8. SplitAt(p, q, d)
    <2>1. \A k \in 1 .. d - 1 : q[k] = p[k]
      BY <1>1, <1>2, <1>4, <1>5
    <2>2. \A k \in d + 1 .. N : q[k + 1] = p[k]
      BY <1>1, <1>2, <1>4, <1>5
    <2> QED BY <1>1, <1>7, <2>1, <2>2 DEF SplitAt
  <1>9. q[d] + q[d + 1] = p[d]
    <2>1. \A a, b, c \in Int : (a * inner) * b + a * c = a * (b * inner + c)
      OBVIOUS
    <2>2. (f[d] * inner) * y[d] + f[d] * y[d + 1] = f[d] * (y[d] * inner + y[d + 1])
      BY <1>6, <2>1
    <2>3. q[d] = (f[d] * inner) * y[d] /\ q[d + 1] = f[d] * y[d + 1] /\ p[d] = f[d] * (y[d] * inner + y[d + 1])
      BY <1>1, <1>2, <1>5
    <2> QED BY <2>2, <2>3
  <1>10. d \in 1 .. Len(p)
    BY <1>1
  <1>11. Sum(q) = Sum(p)
    BY <1>1, <1>2, <1>8, <1>9, <1>10, SumSplit
  <1> QED BY <1>11 DEF p, q

(* The iterations x of s and y of t name the same elements. *)
Agree(s, t, x, y) ==
  \A o \in DOMAIN s.maps : Index(s.maps[o], x) = Index(t.maps[o], y)

(* Each iteration of each nest has one of the other that names the same. *)
LEMMA WorkAgrees ==
  ASSUME NEW s, WellShaped(s), NEW t, WellShaped(t), SameOperands(s, t),
         \A x \in Box(s.bounds) : \E y \in Box(t.bounds) : Agree(s, t, x, y),
         \A y \in Box(t.bounds) : \E x \in Box(s.bounds) : Agree(s, t, x, y)
  PROVE  Work(s) = Work(t)
  <1> DEFINE A(x) == [o \in DOMAIN s.maps |-> Index(s.maps[o], x)]
             B(y) == [o \in DOMAIN t.maps |-> Index(t.maps[o], y)]
  <1>1. Work(s) = {A(x) : x \in Box(s.bounds)} /\ Work(t) = {B(y) : y \in Box(t.bounds)}
    <2>1. Nest(s.bounds) = Box(s.bounds)
      BY Shape, NestIsBox
    <2>2. Nest(t.bounds) = Box(t.bounds)
      BY Shape, NestIsBox
    <2> QED BY <2>1, <2>2 DEF Work
  <1>2. ASSUME NEW x, NEW y, Agree(s, t, x, y) PROVE A(x) = B(y)
    BY <1>2 DEF Agree, SameOperands
  <1> HIDE DEF A, B
  <1>3. \A x \in Box(s.bounds) : \E y \in Box(t.bounds) : A(x) = B(y)
    BY <1>2
  <1>4. \A y \in Box(t.bounds) : \E x \in Box(s.bounds) : A(x) = B(y)
    BY <1>2
  <1> QED BY <1>1, <1>3, <1>4

(* The iterations of a rotated nest are those of the nest, rotated. *)
LEMMA RotatedIteration ==
  ASSUME NEW s, WellShaped(s), NEW n \in 1 .. LoopsOf(s), NEW t, t = Rotate(s, n),
         NEW x \in Box(s.bounds), NEW y \in Box(t.bounds), RotatedAt(x, y, n)
  PROVE  Agree(s, t, x, y)
  <1> DEFINE N == LoopsOf(s)
  <1>1. /\ WellShaped(t) /\ LoopsOf(t) = N /\ SameOperands(s, t)
        /\ RotatedRows(s, t, n)
    BY RotateShape
  <1>2. N \in Nat /\ x \in PointsOf(N) /\ y \in PointsOf(N)
    BY <1>1, Shape DEF Box, PointsOf
  <1>3. ASSUME NEW o \in DOMAIN s.maps PROVE Index(s.maps[o], x) = Index(t.maps[o], y)
    <2>1. DOMAIN t.maps[o] = DOMAIN s.maps[o]
      BY <1>1 DEF SameOperands
    <2>2. ASSUME NEW r \in DOMAIN s.maps[o]
          PROVE  Sum(Terms(t.maps[o][r], y)) = Sum(Terms(s.maps[o][r], x))
      <3> DEFINE f == s.maps[o][r]
                 g == t.maps[o][r]
      <3>1. f \in RowsOf(N)
        BY Shape DEF RowsOf
      <3>2. g \in RowsOf(N)
        BY <1>1, Shape DEF SameOperands, RowsOf
      <3>3. RotatedAt(f, g, n)
        BY <1>1 DEF RotatedRows
      <3>4. n \in 1 .. N
        OBVIOUS
      <3> HIDE DEF f, g, N
      <3>5. Sum(Terms(g, y)) = Sum(Terms(f, x))
        BY <1>2, <3>1, <3>2, <3>3, <3>4, RotatedTerms
      <3> QED BY <3>5 DEF f, g
    <2>3. [r \in DOMAIN s.maps[o] |-> Sum(Terms(s.maps[o][r], x))]
          = [r \in DOMAIN t.maps[o] |-> Sum(Terms(t.maps[o][r], y))]
      BY <2>1, <2>2
    <2> QED BY <2>3, IndexRows
  <1> QED BY <1>3 DEF Agree

LEMMA RotatedBox ==
  ASSUME NEW s, WellShaped(s), NEW n \in 1 .. LoopsOf(s), NEW t, t = Rotate(s, n)
  PROVE  /\ \A x \in Box(s.bounds) : \E y \in Box(t.bounds) : RotatedAt(x, y, n)
         /\ \A y \in Box(t.bounds) : \E x \in Box(s.bounds) : RotatedAt(x, y, n)
  <1> DEFINE N == LoopsOf(s)
             b == s.bounds
             c == t.bounds
  <1>1. /\ N \in Nat /\ n \in 1 .. N /\ DOMAIN b = 1 .. N /\ Len(b) = N
        /\ LoopsOf(t) = N /\ DOMAIN c = 1 .. N /\ RotatedAt(b, c, n)
    <2>1. WellShaped(t) /\ LoopsOf(t) = N /\ RotatedAt(b, c, n)
      BY RotateShape
    <2>2. DOMAIN c = 1 .. LoopsOf(t)
      BY <2>1, Shape
    <2>3. N \in Nat /\ DOMAIN b = 1 .. N /\ Len(b) = N
      BY Shape
    <2> QED BY <2>1, <2>2, <2>3
  <1> HIDE DEF N, b, c
  <1>2. /\ \A k \in 1 .. n - 1 : c[k] = b[k + 1]
        /\ c[n] = b[1]
        /\ \A k \in n + 1 .. N : c[k] = b[k]
    BY <1>1 DEF RotatedAt
  <1>3. ASSUME NEW x \in Box(b) PROVE \E y \in Box(c) : RotatedAt(x, y, n)
    <2>1. x \in [1 .. N -> Nat] /\ \A i \in 1 .. N : x[i] < b[i]
      BY <1>1 DEF Box
    <2> DEFINE y == [k \in 1 .. N |-> IF k < n THEN x[k + 1] ELSE IF k = n THEN x[1] ELSE x[k]]
    <2>2. ASSUME NEW k \in 1 .. N PROVE y[k] \in Nat /\ y[k] < c[k]
      <3>1. CASE k < n
        <4>1. y[k] = x[k + 1] /\ k + 1 \in 1 .. N /\ k \in 1 .. n - 1
          BY <1>1, <3>1
        <4> QED BY <1>2, <2>1, <4>1
      <3>2. CASE k = n
        <4>1. y[k] = x[1] /\ 1 \in 1 .. N
          BY <1>1, <3>2
        <4> QED BY <1>2, <2>1, <3>2, <4>1
      <3>3. CASE k > n
        <4>1. y[k] = x[k] /\ k \in n + 1 .. N
          BY <1>1, <3>3
        <4> QED BY <1>2, <2>1, <4>1
      <3> QED BY <1>1, <3>1, <3>2, <3>3
    <2>3. /\ \A k \in 1 .. n - 1 : y[k] = x[k + 1]
          /\ y[n] = x[1]
          /\ \A k \in n + 1 .. N : y[k] = x[k]
      BY <1>1
    <2>4. y \in [1 .. N -> Nat]
      BY <2>2
    <2> HIDE DEF y
    <2>5. Len(x) = N /\ Len(y) = N
      BY <1>1, <2>1, <2>4
    <2>6. RotatedAt(x, y, n)
      BY <2>3, <2>5 DEF RotatedAt
    <2>7. y \in Box(c)
      BY <1>1, <2>2, <2>4 DEF Box
    <2> QED BY <2>6, <2>7
  <1>4. ASSUME NEW y \in Box(c) PROVE \E x \in Box(b) : RotatedAt(x, y, n)
    <2>1. y \in [1 .. N -> Nat] /\ \A i \in 1 .. N : y[i] < c[i]
      BY <1>1 DEF Box
    <2> DEFINE x == [k \in 1 .. N |-> IF k = 1 THEN y[n] ELSE IF k <= n THEN y[k - 1] ELSE y[k]]
    <2>2. ASSUME NEW k \in 1 .. N PROVE x[k] \in Nat /\ x[k] < b[k]
      <3>1. CASE k = 1
        <4>1. x[k] = y[n] /\ n \in 1 .. N
          BY <1>1, <3>1
        <4> QED BY <1>2, <2>1, <3>1, <4>1
      <3>2. CASE k # 1 /\ k <= n
        <4>1. x[k] = y[k - 1] /\ k - 1 \in 1 .. N /\ k - 1 \in 1 .. n - 1 /\ (k - 1) + 1 = k
          BY <1>1, <3>2
        <4>2. c[k - 1] = b[(k - 1) + 1]
          BY <1>2, <4>1
        <4> QED BY <2>1, <4>1, <4>2
      <3>3. CASE k # 1 /\ k > n
        <4>1. x[k] = y[k] /\ k \in n + 1 .. N
          BY <1>1, <3>3
        <4> QED BY <1>2, <2>1, <4>1
      <3> QED BY <1>1, <3>1, <3>2, <3>3
    <2>3. /\ \A k \in 1 .. n - 1 : y[k] = x[k + 1]
          /\ y[n] = x[1]
          /\ \A k \in n + 1 .. N : y[k] = x[k]
      <3>1. ASSUME NEW k \in 1 .. n - 1 PROVE y[k] = x[k + 1]
        <4>1. k + 1 \in 1 .. N /\ k + 1 # 1 /\ k + 1 <= n /\ (k + 1) - 1 = k
          BY <1>1
        <4> QED BY <4>1
      <3>2. 1 \in 1 .. N
        BY <1>1
      <3>3. ASSUME NEW k \in n + 1 .. N PROVE y[k] = x[k]
        <4>1. k \in 1 .. N /\ k # 1 /\ ~(k <= n)
          BY <1>1
        <4> QED BY <4>1
      <3> QED BY <3>1, <3>2, <3>3
    <2>4. x \in [1 .. N -> Nat]
      BY <2>2
    <2> HIDE DEF x
    <2>5. Len(x) = N /\ Len(y) = N
      BY <1>1, <2>1, <2>4
    <2>6. RotatedAt(x, y, n)
      BY <2>3, <2>5 DEF RotatedAt
    <2>7. x \in Box(b)
      BY <1>1, <2>2, <2>4 DEF Box
    <2> QED BY <2>6, <2>7
  <1> QED BY <1>3, <1>4 DEF b, c

(* The iterations of a tiled nest: one loop's value is split in two. *)
TiledAt(x, y, d, inner) ==
  SplitAt(x, y, d) /\ x[d] = y[d] * inner + y[d + 1]

LEMMA TiledIteration ==
  ASSUME NEW s, WellShaped(s), NEW d \in 1 .. LoopsOf(s), NEW inner \in Nat \ {0},
         s.bounds[d] \div inner \in Nat \ {0}, NEW t, t = TileDim(s, d, inner),
         NEW x \in Box(s.bounds), NEW y \in Box(t.bounds), TiledAt(x, y, d, inner)
  PROVE  Agree(s, t, x, y)
  <1> DEFINE N == LoopsOf(s)
             M == LoopsOf(t)
  <1>1. /\ WellShaped(t) /\ M = N + 1 /\ SameOperands(s, t)
        /\ TiledRows(s, t, d, inner)
    BY TileShape
  <1>2. N \in Nat /\ M \in Nat /\ x \in PointsOf(N) /\ y \in PointsOf(M)
    BY <1>1, Shape DEF Box, PointsOf
  <1>3. ASSUME NEW o \in DOMAIN s.maps PROVE Index(s.maps[o], x) = Index(t.maps[o], y)
    <2>1. DOMAIN t.maps[o] = DOMAIN s.maps[o]
      BY <1>1 DEF SameOperands
    <2>2. ASSUME NEW r \in DOMAIN s.maps[o]
          PROVE  Sum(Terms(t.maps[o][r], y)) = Sum(Terms(s.maps[o][r], x))
      <3> DEFINE f == s.maps[o][r]
                 g == t.maps[o][r]
      <3>1. f \in RowsOf(N)
        BY Shape DEF RowsOf
      <3>2. g \in RowsOf(M)
        BY <1>1, Shape DEF SameOperands, RowsOf
      <3>3. SplitAt(f, g, d) /\ g[d] = f[d] * inner /\ g[d + 1] = f[d]
        BY <1>1 DEF TiledRows
      <3>4. d \in 1 .. N /\ inner \in Nat
        OBVIOUS
      <3>5. SplitAt(x, y, d) /\ x[d] = y[d] * inner + y[d + 1]
        BY DEF TiledAt
      <3> HIDE DEF f, g, N, M
      <3>6. Sum(Terms(g, y)) = Sum(Terms(f, x))
        BY <1>1, <1>2, <3>1, <3>2, <3>3, <3>4, <3>5, TiledTerms
      <3> QED BY <3>6 DEF f, g
    <2>3. [r \in DOMAIN s.maps[o] |-> Sum(Terms(s.maps[o][r], x))]
          = [r \in DOMAIN t.maps[o] |-> Sum(Terms(t.maps[o][r], y))]
      BY <2>1, <2>2
    <2> QED BY <2>3, IndexRows
  <1> QED BY <1>3 DEF Agree

LEMMA TiledBox ==
  ASSUME NEW s, WellShaped(s), NEW d \in 1 .. LoopsOf(s), NEW inner \in Nat \ {0},
         s.bounds[d] \div inner \in Nat \ {0}, s.bounds[d] % inner = 0,
         NEW t, t = TileDim(s, d, inner)
  PROVE  /\ \A x \in Box(s.bounds) : \E y \in Box(t.bounds) : TiledAt(x, y, d, inner)
         /\ \A y \in Box(t.bounds) : \E x \in Box(s.bounds) : TiledAt(x, y, d, inner)
  <1> DEFINE N == LoopsOf(s)
             M == LoopsOf(t)
             b == s.bounds
             c == t.bounds
             q == b[d] \div inner
  <1>1. /\ N \in Nat /\ d \in 1 .. N /\ DOMAIN b = 1 .. N /\ Len(b) = N
        /\ M = N + 1 /\ DOMAIN c = 1 .. M /\ SplitAt(b, c, d) /\ c[d] = q /\ c[d + 1] = inner
        /\ b[d] \in Nat /\ q \in Nat
    <2>1. WellShaped(t) /\ M = N + 1 /\ SplitAt(b, c, d) /\ c[d] = q /\ c[d + 1] = inner
      BY TileShape
    <2>2. DOMAIN c = 1 .. M
      BY <2>1, Shape
    <2>3. N \in Nat /\ DOMAIN b = 1 .. N /\ Len(b) = N
      BY Shape
    <2>4. b \in Seq(Nat \ {0})
      BY Shape
    <2> HIDE DEF b, c, N, M
    <2>5. b[d] \in Nat
      BY <2>3, <2>4 DEF N
    <2> QED BY <2>1, <2>2, <2>3, <2>5 DEF N, b
  <1>2. b[d] = inner * q
    <2>1. b[d] = inner * (b[d] \div inner) + (b[d] % inner)
      BY <1>1, Division
    <2>2. b[d] % inner = 0
      OBVIOUS
    <2> HIDE DEF b
    <2>3. inner * (b[d] \div inner) \in Int
      BY <1>1
    <2> QED BY <2>1, <2>2, <2>3
  <1> HIDE DEF N, M, b, c, q
  <1>3. /\ \A k \in 1 .. d - 1 : c[k] = b[k]
        /\ \A k \in d + 1 .. N : c[k + 1] = b[k]
    BY <1>1 DEF SplitAt
  <1>4. ASSUME NEW x \in Box(b) PROVE \E y \in Box(c) : TiledAt(x, y, d, inner)
    <2>1. x \in [1 .. N -> Nat] /\ \A i \in 1 .. N : x[i] \in Nat /\ x[i] < b[i]
      BY <1>1 DEF Box
    <2> DEFINE e == x[d] \div inner
               h == x[d] % inner
               y == [k \in 1 .. M |-> IF k < d THEN x[k] ELSE IF k = d THEN e
                                      ELSE IF k = d + 1 THEN h ELSE x[k - 1]]
    <2>2. e \in Nat /\ h \in 0 .. inner - 1 /\ x[d] = e * inner + h /\ e < q
      <3>1. x[d] \in Nat /\ x[d] < b[d]
        BY <1>1, <2>1
      <3>2. x[d] = inner * e + h /\ h \in 0 .. inner - 1 /\ e \in Int
        BY <3>1, Division
      <3> DEFINE v == x[d]
                 w == b[d]
      <3>3. v \in Nat /\ v < w /\ w = inner * q /\ v = inner * e + h
        BY <1>2, <3>1, <3>2
      <3> HIDE DEF e, h, v, w
      <3>4. e >= 0
        <4>1. SUFFICES ASSUME e <= 0 - 1 PROVE FALSE
          BY <3>2
        <4>2. PICK k \in Nat : e = 0 - 1 - k
          <5>1. 0 - 1 - e \in Nat
            BY <3>2, <4>1
          <5> QED BY <3>2, <5>1
        <4>3. inner * e = 0 - inner - inner * k /\ inner * k \in Nat
          BY <4>2
        <4> QED BY <3>2, <3>3, <4>3
      <3>5. e < q
        <4>1. SUFFICES ASSUME q <= e PROVE FALSE
          BY <1>1, <3>2
        <4>2. inner * q <= inner * e
          BY <1>1, <3>2, <3>4, <4>1, Monotone
        <4>3. inner * e \in Nat
          BY <3>2, <3>4
        <4> QED BY <3>2, <3>3, <4>2, <4>3
      <3>6. inner * e = e * inner
        BY <3>2
      <3> QED BY <3>2, <3>3, <3>4, <3>5, <3>6 DEF v
    <2> HIDE DEF e, h
    <2>3. ASSUME NEW k \in 1 .. M PROVE y[k] \in Nat /\ y[k] < c[k]
      <3>1. CASE k < d
        <4>1. y[k] = x[k] /\ k \in 1 .. N /\ k \in 1 .. d - 1
          BY <1>1, <3>1
        <4> QED BY <1>3, <2>1, <4>1
      <3>2. CASE k = d
        <4>1. y[k] = e
          BY <1>1, <3>2
        <4> QED BY <1>1, <2>2, <3>2, <4>1
      <3>3. CASE k = d + 1
        <4>1. y[k] = h
          BY <1>1, <3>3
        <4> QED BY <1>1, <2>2, <3>3, <4>1
      <3>4. CASE k > d + 1
        <4>1. y[k] = x[k - 1] /\ k - 1 \in 1 .. N /\ k - 1 \in d + 1 .. N /\ (k - 1) + 1 = k
          BY <1>1, <3>4
        <4>2. c[(k - 1) + 1] = b[k - 1]
          BY <1>3, <4>1
        <4> QED BY <2>1, <4>1, <4>2
      <3> QED BY <1>1, <3>1, <3>2, <3>3, <3>4
    <2>4. /\ \A k \in 1 .. d - 1 : y[k] = x[k]
          /\ y[d] = e /\ y[d + 1] = h
          /\ \A k \in d + 1 .. N : y[k + 1] = x[k]
      <3>1. ASSUME NEW k \in d + 1 .. N PROVE y[k + 1] = x[k]
        <4>1. k + 1 \in 1 .. M /\ k + 1 > d + 1 /\ (k + 1) - 1 = k
          BY <1>1
        <4> QED BY <4>1
      <3>2. d \in 1 .. M /\ d + 1 \in 1 .. M /\ d + 1 > d
        BY <1>1
      <3>3. ASSUME NEW k \in 1 .. d - 1 PROVE y[k] = x[k]
        <4>1. k \in 1 .. M /\ k < d
          BY <1>1
        <4> QED BY <4>1
      <3> QED BY <3>1, <3>2, <3>3
    <2>5. y \in [1 .. M -> Nat]
      BY <2>3
    <2> HIDE DEF y
    <2>6. Len(x) = N /\ Len(y) = N + 1
      BY <1>1, <2>1, <2>5
    <2>7. TiledAt(x, y, d, inner)
      BY <2>2, <2>4, <2>6 DEF SplitAt, TiledAt
    <2>8. y \in Box(c)
      BY <1>1, <2>3, <2>5 DEF Box
    <2> QED BY <2>7, <2>8
  <1>5. ASSUME NEW y \in Box(c) PROVE \E x \in Box(b) : TiledAt(x, y, d, inner)
    <2>1. y \in [1 .. M -> Nat] /\ \A i \in 1 .. M : y[i] \in Nat /\ y[i] < c[i]
      BY <1>1 DEF Box
    <2> DEFINE e == y[d]
               h == y[d + 1]
               v == e * inner + h
               x == [k \in 1 .. N |-> IF k < d THEN y[k] ELSE IF k = d THEN v ELSE y[k + 1]]
    <2>2. v \in Nat /\ v < b[d]
      <3>1. d \in 1 .. M /\ d + 1 \in 1 .. M
        BY <1>1
      <3>2. e \in Nat /\ e < q /\ h \in Nat /\ h < inner
        BY <1>1, <2>1, <3>1
      <3> HIDE DEF e, h
      <3>3. PICK k \in Nat : q = e + 1 + k
        <4>1. q - e - 1 \in Nat
          BY <1>1, <3>2
        <4> QED BY <1>1, <3>2, <4>1
      <3>4. inner * q = e * inner + inner + inner * k /\ inner * k \in Nat /\ e * inner \in Nat
        BY <3>2, <3>3
      <3> QED BY <1>2, <3>2, <3>4
    <2> HIDE DEF v
    <2>3. ASSUME NEW k \in 1 .. N PROVE x[k] \in Nat /\ x[k] < b[k]
      <3>1. CASE k < d
        <4>1. x[k] = y[k] /\ k \in 1 .. M /\ k \in 1 .. d - 1
          BY <1>1, <3>1
        <4> QED BY <1>3, <2>1, <4>1
      <3>2. CASE k = d
        <4>1. x[k] = v
          BY <1>1, <3>2
        <4> QED BY <2>2, <3>2, <4>1
      <3>3. CASE k > d
        <4>1. x[k] = y[k + 1] /\ k + 1 \in 1 .. M /\ k \in d + 1 .. N
          BY <1>1, <3>3
        <4>2. c[k + 1] = b[k]
          BY <1>3, <4>1
        <4> QED BY <2>1, <4>1, <4>2
      <3> QED BY <1>1, <3>1, <3>2, <3>3
    <2>4. /\ \A k \in 1 .. d - 1 : y[k] = x[k]
          /\ x[d] = v
          /\ \A k \in d + 1 .. N : y[k + 1] = x[k]
      <3>1. ASSUME NEW k \in d + 1 .. N PROVE y[k + 1] = x[k]
        <4>1. k \in 1 .. N /\ k > d
          BY <1>1
        <4> QED BY <4>1
      <3>2. d \in 1 .. N
        BY <1>1
      <3>3. ASSUME NEW k \in 1 .. d - 1 PROVE y[k] = x[k]
        <4>1. k \in 1 .. N /\ k < d
          BY <1>1
        <4> QED BY <4>1
      <3> QED BY <3>1, <3>2, <3>3
    <2>5. x \in [1 .. N -> Nat]
      BY <2>3
    <2> HIDE DEF x
    <2>6. Len(x) = N /\ Len(y) = N + 1
      BY <1>1, <2>1, <2>5
    <2>7. TiledAt(x, y, d, inner)
      BY <2>4, <2>6 DEF SplitAt, TiledAt, v
    <2>8. x \in Box(b)
      BY <1>1, <2>3, <2>5 DEF Box
    <2> QED BY <2>7, <2>8
  <1> QED BY <1>4, <1>5 DEF b, c

------------------------------------------------------------------------------
(* Schedules that do the same work *)
LEMMA RotateWork ==
  ASSUME NEW s, WellShaped(s), NEW n \in 1 .. LoopsOf(s), NEW t, t = Rotate(s, n)
  PROVE  Prod(t.bounds) = Prod(s.bounds) /\ Work(t) = Work(s)
  <1>1. WellShaped(t) /\ SameOperands(s, t) /\ RotatedAt(s.bounds, t.bounds, n)
    BY RotateShape
  <1>2. Prod(t.bounds) = Prod(s.bounds)
    <2> DEFINE f == s.bounds
               g == t.bounds
    <2>1. f \in Seq(Nat \ {0}) /\ LoopsOf(s) = Len(f)
      BY Shape
    <2>2. g \in Seq(Nat \ {0})
      BY <1>1, Shape
    <2>3. RotatedAt(f, g, n) /\ n \in 1 .. Len(f)
      BY <1>1, <2>1
    <2> HIDE DEF f, g
    <2>4. Prod(g) = Prod(f)
      BY <2>1, <2>2, <2>3, ProdRotated
    <2> QED BY <2>4 DEF f, g
  <1>3. /\ \A x \in Box(s.bounds) : \E y \in Box(t.bounds) : RotatedAt(x, y, n)
        /\ \A y \in Box(t.bounds) : \E x \in Box(s.bounds) : RotatedAt(x, y, n)
    BY RotatedBox
  <1>4. \A x \in Box(s.bounds), y \in Box(t.bounds) : RotatedAt(x, y, n) => Agree(s, t, x, y)
    BY RotatedIteration
  <1>5. Work(s) = Work(t)
    <2>1. \A x \in Box(s.bounds) : \E y \in Box(t.bounds) : Agree(s, t, x, y)
      BY <1>3, <1>4
    <2>2. \A y \in Box(t.bounds) : \E x \in Box(s.bounds) : Agree(s, t, x, y)
      BY <1>3, <1>4
    <2> QED BY <1>1, <2>1, <2>2, WorkAgrees
  <1> QED BY <1>2, <1>5

LEMMA TileWork ==
  ASSUME NEW s, WellShaped(s), NEW d \in 1 .. LoopsOf(s), NEW inner \in Nat \ {0},
         s.bounds[d] \div inner \in Nat \ {0}, s.bounds[d] % inner = 0,
         NEW t, t = TileDim(s, d, inner)
  PROVE  Prod(t.bounds) = Prod(s.bounds) /\ Work(t) = Work(s)
  <1>1. /\ WellShaped(t) /\ SameOperands(s, t) /\ SplitAt(s.bounds, t.bounds, d)
        /\ t.bounds[d] = s.bounds[d] \div inner /\ t.bounds[d + 1] = inner
    BY TileShape
  <1>2. Prod(t.bounds) = Prod(s.bounds)
    <2> DEFINE f == s.bounds
               g == t.bounds
    <2>1. f \in Seq(Nat \ {0}) /\ LoopsOf(s) = Len(f)
      BY Shape
    <2>2. g \in Seq(Nat \ {0})
      BY <1>1, Shape
    <2>3. SplitAt(f, g, d) /\ d \in 1 .. Len(f)
      BY <1>1, <2>1
    <2>4. f[d] % inner = 0 /\ g[d] = f[d] \div inner /\ g[d + 1] = inner
      BY <1>1
    <2> HIDE DEF f, g
    <2>5. f[d] \in Nat
      BY <2>1, <2>3
    <2>6. f[d] = inner * (f[d] \div inner) + (f[d] % inner) /\ f[d] \div inner \in Int
      BY <2>5, Division
    <2>7. g[d] * g[d + 1] = f[d]
      <3> DEFINE p == f[d] \div inner
      <3>1. p \in Int /\ f[d] = inner * p + 0 /\ g[d] = p /\ g[d + 1] = inner
        BY <2>4, <2>6
      <3> HIDE DEF p
      <3>2. inner * p + 0 = p * inner
        BY <3>1
      <3> QED BY <3>1, <3>2
    <2>8. Prod(g) = Prod(f)
      BY <2>1, <2>2, <2>3, <2>7, ProdSplit
    <2> QED BY <2>8 DEF f, g
  <1>3. /\ \A x \in Box(s.bounds) : \E y \in Box(t.bounds) : TiledAt(x, y, d, inner)
        /\ \A y \in Box(t.bounds) : \E x \in Box(s.bounds) : TiledAt(x, y, d, inner)
    BY TiledBox
  <1>4. \A x \in Box(s.bounds), y \in Box(t.bounds) : TiledAt(x, y, d, inner) => Agree(s, t, x, y)
    BY TiledIteration
  <1>5. Work(s) = Work(t)
    <2>1. \A x \in Box(s.bounds) : \E y \in Box(t.bounds) : Agree(s, t, x, y)
      BY <1>3, <1>4
    <2>2. \A y \in Box(t.bounds) : \E x \in Box(s.bounds) : Agree(s, t, x, y)
      BY <1>3, <1>4
    <2> QED BY <1>1, <2>1, <2>2, WorkAgrees
  <1> QED BY <1>2, <1>5
------------------------------------------------------------------------------
(* Iterations that name the same element of the output are the same in     *)
(* every loop that moves it.                                               *)
Separate(s) ==
  \A x, y \in Box(s.bounds) :
    Index(Last(s.maps), x) = Index(Last(s.maps), y) =>
      \A i \in 1 .. LoopsOf(s) : MovesOutput(s, i) => x[i] = y[i]

LEMMA LastOperand ==
  ASSUME NEW s, WellShaped(s), s.maps # <<>>, NEW t, WellShaped(t), SameOperands(s, t)
  PROVE  /\ t.maps # <<>>
         /\ \E o \in DOMAIN s.maps : Last(s.maps) = s.maps[o] /\ Last(t.maps) = t.maps[o]
  <1>1. /\ Len(s.maps) \in Nat /\ DOMAIN s.maps = 1 .. Len(s.maps)
        /\ Len(t.maps) \in Nat /\ DOMAIN t.maps = 1 .. Len(t.maps)
    BY Shape
  <1>2. 1 .. Len(t.maps) = 1 .. Len(s.maps)
    BY <1>1 DEF SameOperands
  <1>3. Len(t.maps) = Len(s.maps)
    BY <1>1, <1>2
  <1>4. Len(s.maps) # 0
    BY Shape
  <1>5. t.maps # <<>>
    BY <1>3, <1>4
  <1>6. Last(s.maps) = s.maps[Len(s.maps)] /\ Last(t.maps) = t.maps[Len(s.maps)]
    BY <1>3 DEF Last
  <1> QED BY <1>1, <1>4, <1>5, <1>6

LEMMA AgreeOutput ==
  ASSUME NEW s, WellShaped(s), s.maps # <<>>, NEW t, WellShaped(t), SameOperands(s, t),
         NEW x, NEW y, Agree(s, t, x, y)
  PROVE  Index(Last(s.maps), x) = Index(Last(t.maps), y)
  BY LastOperand DEF Agree

LEMMA SeparateOperation ==
  ASSUME NEW j \in Jobs
  PROVE  Separate(Operation(j))
  <1> DEFINE s == Operation(j)
             N == LoopsOf(s)
             m == Last(s.maps)
  <1>1. WellShaped(s) /\ s.maps # <<>>
    BY JobsAssumption DEF JobsAssumption
  <1>2. \A i \in 1 .. N : MovesOutput(s, i) => \E r \in DOMAIN m : m[r] = Unit(N, i)
    BY OutputAssumption DEF OutputAssumption
  <1> HIDE DEF s
  <1>3. N \in Nat /\ \A x \in Box(s.bounds) : x \in [1 .. N -> Nat]
    BY <1>1, Shape DEF Box
  <1> SUFFICES ASSUME NEW x \in Box(s.bounds), NEW y \in Box(s.bounds), Index(m, x) = Index(m, y),
                      NEW i \in 1 .. N, MovesOutput(s, i)
               PROVE  x[i] = y[i]
    BY DEF Separate, s
  <1>4. PICK r \in DOMAIN m : m[r] = Unit(N, i)
    BY <1>2
  <1> HIDE DEF m, N
  <1>5. Index(m, x)[r] = Sum(Terms(m[r], x)) /\ Index(m, y)[r] = Sum(Terms(m[r], y))
    BY DEF Index, Terms
  <1>6. ASSUME NEW z \in [1 .. N -> Nat] PROVE Sum(Terms(m[r], z)) = z[i]
    <2> DEFINE f == Unit(N, i)
               p == Terms(f, z)
    <2>1. f \in [1 .. N -> Int] /\ f[i] = 1 /\ \A k \in 1 .. N : k # i => f[k] = 0
      BY <1>3 DEF Unit
    <2> HIDE DEF f
    <2>2. p \in Seq(Int) /\ Len(p) = N /\ \A k \in 1 .. N : p[k] = f[k] * z[k]
      BY <1>3, <2>1, TermsSeq
    <2> HIDE DEF p
    <2>3. p[i] = z[i] /\ \A k \in 1 .. N : k # i => p[k] = 0
      <3>1. \A k \in 1 .. N : z[k] \in Nat
        OBVIOUS
      <3>2. \A u \in Nat : 0 * u = 0 /\ 1 * u = u
        OBVIOUS
      <3> QED BY <2>1, <2>2, <3>1, <3>2
    <2>4. Sum(p) = p[i]
      BY <2>2, <2>3, SumSingle
    <2> QED BY <1>4, <2>3, <2>4 DEF p, f
  <1> QED BY <1>3, <1>5, <1>6

LEMMA SeparateRotate ==
  ASSUME NEW s, WellShaped(s), s.maps # <<>>, Separate(s), NEW n \in 1 .. LoopsOf(s),
         NEW t, t = Rotate(s, n)
  PROVE  Separate(t)
  <1> DEFINE N == LoopsOf(s)
  <1>1. /\ WellShaped(t) /\ LoopsOf(t) = N /\ SameOperands(s, t) /\ RotatedRows(s, t, n)
    BY RotateShape
  <1>2. N \in Nat /\ n \in 1 .. N
    BY Shape
  <1> SUFFICES ASSUME NEW x \in Box(t.bounds), NEW y \in Box(t.bounds),
                      Index(Last(t.maps), x) = Index(Last(t.maps), y),
                      NEW i \in 1 .. N, MovesOutput(t, i)
               PROVE  x[i] = y[i]
    BY <1>1 DEF Separate
  <1>3. PICK u \in Box(s.bounds) : RotatedAt(u, x, n)
    BY RotatedBox
  <1>4. PICK v \in Box(s.bounds) : RotatedAt(v, y, n)
    BY RotatedBox
  <1>5. Index(Last(s.maps), u) = Index(Last(s.maps), v)
    <2>1. Agree(s, t, u, x) /\ Agree(s, t, v, y)
      BY <1>3, <1>4, RotatedIteration
    <2>2. Index(Last(s.maps), u) = Index(Last(t.maps), x)
      BY <1>1, <2>1, AgreeOutput
    <2>3. Index(Last(s.maps), v) = Index(Last(t.maps), y)
      BY <1>1, <2>1, AgreeOutput
    <2> QED BY <2>2, <2>3
  <1>6. \A k \in 1 .. N : MovesOutput(s, k) => u[k] = v[k]
    BY <1>5 DEF Separate
  <1>7. PICK o \in DOMAIN s.maps : Last(s.maps) = s.maps[o] /\ Last(t.maps) = t.maps[o]
    BY <1>1, LastOperand
  <1>8. PICK r \in DOMAIN t.maps[o] : t.maps[o][r][i] # 0
    BY <1>7 DEF MovesOutput
  <1>9. r \in DOMAIN s.maps[o]
    BY <1>1, <1>8 DEF SameOperands
  <1> DEFINE f == s.maps[o][r]
             g == t.maps[o][r]
  <1>10. RotatedAt(f, g, n) /\ Len(f) = N
    <2>1. f \in [1 .. N -> Int]
      BY <1>9, Shape
    <2>2. RotatedAt(f, g, n)
      BY <1>1, <1>9 DEF RotatedRows
    <2> HIDE DEF f, g, N
    <2> QED BY <1>2, <2>1, <2>2
  <1>11. \A k \in 1 .. N : f[k] # 0 => u[k] = v[k]
    BY <1>6, <1>7, <1>9 DEF MovesOutput
  <1>12. g[i] # 0
    BY <1>8
  <1>13. Len(u) = N /\ Len(v) = N
    <2>1. u \in [1 .. N -> Nat] /\ v \in [1 .. N -> Nat]
      BY Shape DEF Box
    <2> HIDE DEF N
    <2> QED BY <1>2, <2>1
  <1> HIDE DEF f, g, N
  <1>14. CASE i < n
    <2>1. i \in 1 .. n - 1 /\ i + 1 \in 1 .. N
      BY <1>2, <1>14
    <2>2. g[i] = f[i + 1] /\ x[i] = u[i + 1] /\ y[i] = v[i + 1]
      BY <1>3, <1>4, <1>10, <2>1 DEF RotatedAt
    <2> QED BY <1>11, <1>12, <2>1, <2>2
  <1>15. CASE i = n
    <2>1. g[i] = f[1] /\ x[i] = u[1] /\ y[i] = v[1] /\ 1 \in 1 .. N
      BY <1>2, <1>3, <1>4, <1>10, <1>15 DEF RotatedAt
    <2> QED BY <1>11, <1>12, <2>1
  <1>16. CASE i > n
    <2>1. i \in n + 1 .. N
      BY <1>2, <1>16
    <2>2. g[i] = f[i] /\ x[i] = u[i] /\ y[i] = v[i]
      BY <1>3, <1>4, <1>10, <1>13, <2>1 DEF RotatedAt
    <2> QED BY <1>11, <1>12, <2>2
  <1> QED BY <1>2, <1>14, <1>15, <1>16

LEMMA SeparateTile ==
  ASSUME NEW s, WellShaped(s), s.maps # <<>>, Separate(s), NEW d \in 1 .. LoopsOf(s),
         NEW inner \in Nat \ {0},
         s.bounds[d] \div inner \in Nat \ {0}, s.bounds[d] % inner = 0,
         NEW t, t = TileDim(s, d, inner)
  PROVE  Separate(t)
  <1> DEFINE N == LoopsOf(s)
             M == LoopsOf(t)
  <1>1. /\ WellShaped(t) /\ M = N + 1 /\ SameOperands(s, t) /\ TiledRows(s, t, d, inner)
        /\ t.bounds[d + 1] = inner
    BY TileShape
  <1>2. N \in Nat /\ d \in 1 .. N
    BY Shape
  <1> SUFFICES ASSUME NEW x \in Box(t.bounds), NEW y \in Box(t.bounds),
                      Index(Last(t.maps), x) = Index(Last(t.maps), y),
                      NEW i \in 1 .. M, MovesOutput(t, i)
               PROVE  x[i] = y[i]
    BY <1>1 DEF Separate
  <1>3. PICK u \in Box(s.bounds) : TiledAt(u, x, d, inner)
    BY TiledBox
  <1>4. PICK v \in Box(s.bounds) : TiledAt(v, y, d, inner)
    BY TiledBox
  <1>5. Index(Last(s.maps), u) = Index(Last(s.maps), v)
    <2>1. Agree(s, t, u, x) /\ Agree(s, t, v, y)
      BY <1>3, <1>4, TiledIteration
    <2>2. Index(Last(s.maps), u) = Index(Last(t.maps), x)
      BY <1>1, <2>1, AgreeOutput
    <2>3. Index(Last(s.maps), v) = Index(Last(t.maps), y)
      BY <1>1, <2>1, AgreeOutput
    <2> QED BY <2>2, <2>3
  <1>6. \A k \in 1 .. N : MovesOutput(s, k) => u[k] = v[k]
    BY <1>5 DEF Separate
  <1>7. PICK o \in DOMAIN s.maps : Last(s.maps) = s.maps[o] /\ Last(t.maps) = t.maps[o]
    BY <1>1, LastOperand
  <1>8. PICK r \in DOMAIN t.maps[o] : t.maps[o][r][i] # 0
    BY <1>7 DEF MovesOutput
  <1>9. r \in DOMAIN s.maps[o]
    BY <1>1, <1>8 DEF SameOperands
  <1> DEFINE f == s.maps[o][r]
             g == t.maps[o][r]
  <1>10. /\ SplitAt(f, g, d) /\ Len(f) = N /\ f[d] \in Int
         /\ g[d] = f[d] * inner /\ g[d + 1] = f[d]
    <2>1. f \in [1 .. N -> Int]
      BY <1>9, Shape
    <2>2. SplitAt(f, g, d) /\ g[d] = f[d] * inner /\ g[d + 1] = f[d]
      BY <1>1, <1>9 DEF TiledRows
    <2> HIDE DEF f, g, N
    <2> QED BY <1>2, <2>1, <2>2
  <1>11. \A k \in 1 .. N : f[k] # 0 => u[k] = v[k]
    BY <1>6, <1>7, <1>9 DEF MovesOutput
  <1>12. g[i] # 0
    BY <1>8
  <1>13. Len(u) = N /\ Len(v) = N
    <2>1. u \in [1 .. N -> Nat] /\ v \in [1 .. N -> Nat]
      BY Shape DEF Box
    <2> HIDE DEF N
    <2> QED BY <1>2, <2>1
  <1>14. \A z \in Box(t.bounds) : z[d] \in Nat /\ z[d + 1] \in 0 .. inner - 1
    <2>1. DOMAIN t.bounds = 1 .. M
      BY <1>1, Shape
    <2>2. d \in 1 .. M /\ d + 1 \in 1 .. M
      BY <1>1, <1>2
    <2> HIDE DEF M
    <2>3. ASSUME NEW z \in Box(t.bounds) PROVE z[d] \in Nat /\ z[d + 1] \in 0 .. inner - 1
      <3>1. z[d] \in Nat /\ z[d + 1] \in Nat /\ z[d + 1] < t.bounds[d + 1]
        BY <2>1, <2>2 DEF Box
      <3> QED BY <1>1, <3>1
    <2> QED BY <2>3
  <1> HIDE DEF f, g, N
  <1>15. CASE i < d
    <2>1. i \in 1 .. d - 1 /\ i \in 1 .. N
      BY <1>2, <1>15
    <2>2. g[i] = f[i] /\ x[i] = u[i] /\ y[i] = v[i]
      BY <1>3, <1>4, <1>10, <2>1 DEF TiledAt, SplitAt
    <2> QED BY <1>11, <1>12, <2>1, <2>2
  <1>16. CASE i \in {d, d + 1}
    <2>1. f[d] # 0
      <3>1. 0 * inner = 0
        OBVIOUS
      <3> QED BY <1>10, <1>12, <1>16, <3>1
    <2>2. u[d] = v[d]
      BY <1>2, <1>11, <2>1
    <2>3. u[d] = x[d] * inner + x[d + 1] /\ v[d] = y[d] * inner + y[d + 1]
      BY <1>3, <1>4 DEF TiledAt
    <2> DEFINE a == x[d]
               b == x[d + 1]
               p == y[d]
               q == y[d + 1]
    <2>4. a \in Nat /\ b \in 0 .. inner - 1 /\ p \in Nat /\ q \in 0 .. inner - 1
          /\ a * inner + b = p * inner + q
      BY <1>14, <2>2, <2>3
    <2> HIDE DEF a, b, p, q
    <2>5. a = p /\ b = q
      BY <2>4, OneNumber
    <2> QED BY <1>16, <2>5 DEF a, b, p, q
  <1>17. CASE i > d + 1
    <2>1. i - 1 \in d + 1 .. N /\ i - 1 \in 1 .. N /\ (i - 1) + 1 = i
      BY <1>1, <1>2, <1>17
    <2>2. g[(i - 1) + 1] = f[i - 1] /\ x[(i - 1) + 1] = u[i - 1] /\ y[(i - 1) + 1] = v[i - 1]
      BY <1>3, <1>4, <1>10, <1>13, <2>1 DEF TiledAt, SplitAt
    <2> QED BY <1>11, <1>12, <2>1, <2>2
  <1> QED BY <1>1, <1>2, <1>15, <1>16, <1>17
------------------------------------------------------------------------------
(***************************************************************************)
(* The invariant: every schedule of the search, the one that is chosen     *)
(* included, does the work of the operation; a frame has no more rotations *)
(* left than its loops outside the ones already placed; and the chosen     *)
(* schedule has the loops that move the output on the outside.             *)
(***************************************************************************)
Schedules == [bounds : Seq(Nat \ {0}), maps : Seq(Seq(Seq(Int)))]

Does(s, j) ==
  /\ WellShaped(s) /\ s.maps # <<>>
  /\ Prod(s.bounds) = Prod(Operation(j).bounds)
  /\ Work(s) = Work(Operation(j))
  /\ Separate(s)

Doing(j) == {s \in Schedules : Does(s, j)}

Frames(j) ==
  {f \in [sched : Doing(j), inner : Nat \ {0}, left : Nat] :
     f.left <= LoopsOf(f.sched) - f.inner + 1}

(* Of the loops the streamers run, those that move the output enclose the  *)
(* others.                                                                 *)
Stationary(s, j) ==
  \A k, l \in 1 .. LoopsOf(s) - LoopsOf(j.acc) :
    MovesOutput(s, l) /\ ~MovesOutput(s, k) => l < k

IInv ==
  /\ job \in Jobs
  /\ sched \in Doing(job)
  /\ stack \in Seq(Frames(job))
  /\ phase = "schedule" => stack # <<>>
  /\ phase \notin {"schedule", "failed"} => Stationary(sched, job)

LEMMA InSchedules ==
  ASSUME NEW s, WellShaped(s)
  PROVE  s \in Schedules
  <1> DEFINE N == LoopsOf(s)
             R == [1 .. N -> Int]
  <1>1. s \in [bounds : Seq(Nat \ {0}), maps : Seq(Seq(R))]
    BY DEF WellShaped
  <1>2. N \in Nat
    BY Shape
  <1> HIDE DEF N
  <1>3. R \subseteq Seq(Int)
    BY <1>2
  <1> HIDE DEF R
  <1>4. ASSUME NEW A, NEW B, A \subseteq B PROVE Seq(A) \subseteq Seq(B)
    <2> SUFFICES ASSUME NEW q \in Seq(A) PROVE q \in Seq(B)
      OBVIOUS
    <2>1. Len(q) \in Nat /\ q \in [1 .. Len(q) -> A]
      OBVIOUS
    <2>2. q \in [1 .. Len(q) -> B]
      BY <1>4, <2>1
    <2> QED BY <2>1, <2>2
  <1>5. Seq(R) \subseteq Seq(Seq(Int))
    BY <1>3, <1>4
  <1>6. Seq(Seq(R)) \subseteq Seq(Seq(Seq(Int)))
    BY <1>4, <1>5
  <1> QED BY <1>1, <1>6 DEF Schedules

LEMMA DoesRotate ==
  ASSUME NEW j, NEW s \in Doing(j), NEW n \in 1 .. LoopsOf(s)
  PROVE  Rotate(s, n) \in Doing(j) /\ LoopsOf(Rotate(s, n)) = LoopsOf(s)
  <1> DEFINE t == Rotate(s, n)
  <1>1. WellShaped(s) /\ s.maps # <<>> /\ Separate(s)
        /\ Prod(s.bounds) = Prod(Operation(j).bounds) /\ Work(s) = Work(Operation(j))
    BY DEF Doing, Does
  <1> HIDE DEF t
  <1>2. WellShaped(t) /\ LoopsOf(t) = LoopsOf(s) /\ SameOperands(s, t)
    BY <1>1, RotateShape DEF t
  <1>3. Prod(t.bounds) = Prod(s.bounds) /\ Work(t) = Work(s)
    BY <1>1, RotateWork DEF t
  <1>4. Separate(t)
    BY <1>1, SeparateRotate DEF t
  <1>5. t.maps # <<>>
    BY <1>1, <1>2, LastOperand
  <1>6. t \in Schedules
    BY <1>2, InSchedules
  <1> QED BY <1>1, <1>2, <1>3, <1>4, <1>5, <1>6 DEF t, Doing, Does

LEMMA DoesTile ==
  ASSUME NEW j, NEW s \in Doing(j), NEW d \in 1 .. LoopsOf(s), NEW inner \in Nat \ {0},
         s.bounds[d] \div inner \in Nat \ {0}, s.bounds[d] % inner = 0
  PROVE  TileDim(s, d, inner) \in Doing(j) /\ LoopsOf(TileDim(s, d, inner)) = LoopsOf(s) + 1
  <1> DEFINE t == TileDim(s, d, inner)
  <1>1. WellShaped(s) /\ s.maps # <<>> /\ Separate(s)
        /\ Prod(s.bounds) = Prod(Operation(j).bounds) /\ Work(s) = Work(Operation(j))
    BY DEF Doing, Does
  <1> HIDE DEF t
  <1>2. WellShaped(t) /\ LoopsOf(t) = LoopsOf(s) + 1 /\ SameOperands(s, t)
    BY <1>1, TileShape DEF t
  <1>3. Prod(t.bounds) = Prod(s.bounds) /\ Work(t) = Work(s)
    BY <1>1, TileWork DEF t
  <1>4. Separate(t)
    BY <1>1, SeparateTile DEF t
  <1>5. t.maps # <<>>
    BY <1>1, <1>2, LastOperand
  <1>6. t \in Schedules
    BY <1>2, InSchedules
  <1> QED BY <1>1, <1>2, <1>3, <1>4, <1>5, <1>6 DEF t, Doing, Does

LEMMA DoesOperation ==
  ASSUME NEW j \in Jobs
  PROVE  Operation(j) \in Doing(j)
  <1>1. WellShaped(Operation(j)) /\ Operation(j).maps # <<>>
    BY JobsAssumption DEF JobsAssumption
  <1>2. Operation(j) \in Schedules /\ Separate(Operation(j))
    BY <1>1, InSchedules, SeparateOperation
  <1> QED BY <1>1, <1>2 DEF Doing, Does

(* A template bound is a number. *)
LEMMA TemplateBoundType ==
  ASSUME job \in Jobs, NEW inner \in Nat \ {0}
  PROVE  TemplateBound(inner) \in Nat
  <1> DEFINE b == job.acc.bounds
  <1>1. b \in Seq(Nat)
    BY JobsAssumption DEF JobsAssumption
  <1>2. LoopsOf(job.acc) = Len(b)
    BY DEF LoopsOf
  <1> HIDE DEF b
  <1>3. CASE inner > Len(b)
    BY <1>2, <1>3 DEF TemplateBound
  <1>4. CASE ~(inner > Len(b))
    <2>1. Len(b) \in Nat /\ Len(b) - inner + 1 \in 1 .. Len(b)
      BY <1>1, <1>4
    <2>2. b[Len(b) - inner + 1] \in Nat
      BY <1>1, <2>1
    <2> QED BY <1>2, <1>4, <2>2 DEF TemplateBound, b
  <1> QED BY <1>3, <1>4

(* What fits the template, tiled or as it is, does the work. *)
LEMMA DoesCandidate ==
  ASSUME job \in Jobs, NEW s \in Doing(job), NEW inner \in Nat \ {0}, inner <= LoopsOf(s),
         Fits(s, inner)
  PROVE  /\ Candidate(s, inner) \in Doing(job)
         /\ Candidate(s, inner) = s \/ LoopsOf(Candidate(s, inner)) = LoopsOf(s) + 1
  <1> DEFINE limit == TemplateBound(inner)
             d == Focus(s, inner)
             bound == s.bounds[d]
  <1>1. limit \in Nat
    BY TemplateBoundType
  <1>2. s.bounds \in Seq(Nat \ {0}) /\ LoopsOf(s) = Len(s.bounds) /\ LoopsOf(s) \in Nat
    BY Shape DEF Doing, Does
  <1>3. d \in 1 .. LoopsOf(s)
    BY <1>2 DEF Focus
  <1>4. bound \in Nat
    <2> DEFINE b == s.bounds
    <2>1. b \in Seq(Nat \ {0}) /\ d \in 1 .. Len(b)
      BY <1>2, <1>3
    <2> HIDE DEF b, d
    <2>2. b[d] \in Nat
      BY <2>1
    <2> QED BY <2>2 DEF b
  <1>5. Candidate(s, inner) = IF limit > 0 /\ bound > limit THEN TileDim(s, d, limit) ELSE s
    BY DEF Candidate
  <1>6. limit = 0 \/ bound <= limit \/ bound % limit = 0
    BY DEF Fits
  <1> HIDE DEF limit, d, bound
  <1>7. CASE limit > 0 /\ bound > limit
    <2>1. bound % limit = 0 /\ limit \in Nat \ {0}
      BY <1>1, <1>4, <1>6, <1>7
    <2>2. bound \div limit \in Nat \ {0}
      <3> DEFINE q == bound \div limit
      <3>1. bound = limit * q + (bound % limit) /\ q \in Int
        BY <1>4, <2>1, Division
      <3> HIDE DEF q
      <3>2. bound = limit * q
        <4>1. limit * q \in Int
          BY <1>1, <3>1
        <4> QED BY <2>1, <3>1, <4>1
      <3>3. q > 0
        <4>1. SUFFICES ASSUME q <= 0 PROVE FALSE
          BY <3>1
        <4>2. PICK k \in Nat : q = 0 - k
          <5>1. 0 - q \in Nat
            BY <3>1, <4>1
          <5> QED BY <3>1, <5>1
        <4>3. limit * q = 0 - limit * k /\ limit * k \in Nat
          BY <1>1, <4>2
        <4> QED BY <1>1, <1>4, <1>7, <3>2, <4>3
      <3> QED BY <3>1, <3>3 DEF q
    <2>3. TileDim(s, d, limit) \in Doing(job) /\ LoopsOf(TileDim(s, d, limit)) = LoopsOf(s) + 1
      BY <1>3, <2>1, <2>2, DoesTile DEF bound
    <2> QED BY <1>5, <1>7, <2>3
  <1>8. CASE ~(limit > 0 /\ bound > limit)
    BY <1>5, <1>8
  <1> QED BY <1>7, <1>8

(* The schedule that is accepted with all of its loops placed *)
LEMMA AcceptedStationary ==
  ASSUME job \in Jobs, NEW s \in Doing(job), Accepts(s, LoopsOf(s))
  PROVE  Stationary(s, job)
  <1> DEFINE n == LoopsOf(s)
             L == LoopsOf(job.acc)
             t == InnerDims(job.acc, n)
             c == InnerDims(s, n)
  <1>1. WellShaped(s) /\ s.maps # <<>> /\ n \in Nat
    BY Shape DEF Doing, Does
  <1>2. L \in Nat
    <2>1. job.acc.bounds \in Seq(Nat)
      BY JobsAssumption DEF JobsAssumption
    <2> QED BY <2>1 DEF LoopsOf
  <1>3. CASE L <= n
    <2>1. LoopsOf(t) = L
      <3>1. t = Select(job.acc, Upto(L))
        BY <1>1, <1>2, <1>3 DEF InnerDims
      <3>2. Upto(L) \in Seq(Int) /\ Len(Upto(L)) = L
        BY <1>2, UptoSeq
      <3>3. DOMAIN Upto(L) = 1 .. L
        BY <1>2 DEF Upto
      <3>4. t.bounds = [i \in 1 .. L |-> job.acc.bounds[Upto(L)[i]]]
        BY <3>1, <3>3 DEF Select
      <3> HIDE DEF t, L
      <3>5. Len(t.bounds) = L
        BY <1>2, <3>4
      <3> QED BY <3>5 DEF LoopsOf
    <2>2. /\ WellShaped(c) /\ LoopsOf(c) = n /\ SameOperands(s, c)
          /\ \A o \in DOMAIN s.maps : \A r \in DOMAIN s.maps[o], i \in 1 .. n :
               c.maps[o][r][i] = s.maps[o][r][i]
      <3>1. c = Select(s, Upto(n))
        BY <1>1 DEF InnerDims
      <3>2. Upto(n) \in [1 .. n -> 1 .. n] /\ \A i \in 1 .. n : Upto(n)[i] = i
        BY DEF Upto
      <3> HIDE DEF c
      <3>3. /\ WellShaped(c) /\ LoopsOf(c) = n /\ SameOperands(s, c)
            /\ \A o \in DOMAIN s.maps : \A r \in DOMAIN s.maps[o], i \in 1 .. n :
                 c.maps[o][r][i] = s.maps[o][r][Upto(n)[i]]
        BY <1>1, <3>1, <3>2, SelectShape
      <3> QED BY <3>2, <3>3
    <2>3. OutputStationary(t, c)
      BY DEF Accepts
    <2>4. Temporal(t, c) = 1 .. n - L
      BY <2>1, <2>2 DEF Temporal
    <2> HIDE DEF t, c, n, L
    <2>5. PICK o \in DOMAIN s.maps : Last(s.maps) = s.maps[o] /\ Last(c.maps) = c.maps[o]
      BY <1>1, <2>2, LastOperand
    <2>6. ASSUME NEW i \in 1 .. n - L PROVE MovesOutput(c, i) <=> MovesOutput(s, i)
      <3>1. i \in 1 .. n
        BY <1>1, <1>2
      <3>2. DOMAIN c.maps[o] = DOMAIN s.maps[o]
        BY <2>2 DEF SameOperands
      <3>3. \A r \in DOMAIN s.maps[o] : c.maps[o][r][i] = s.maps[o][r][i]
        BY <2>2, <3>1
      <3> QED BY <2>5, <3>2, <3>3 DEF MovesOutput
    <2>7. ASSUME NEW k \in 1 .. n - L, NEW l \in 1 .. n - L,
                 MovesOutput(c, l), ~MovesOutput(c, k)
          PROVE  l < k
      <3>1. \E r \in DOMAIN Last(c.maps) : Last(c.maps)[r][l] # 0
        BY <2>7 DEF MovesOutput
      <3>2. \A r \in DOMAIN Last(c.maps) : Last(c.maps)[r][k] = 0
        BY <2>7 DEF MovesOutput
      <3> QED BY <2>3, <2>4, <3>1, <3>2 DEF OutputStationary
    <2> QED BY <2>6, <2>7 DEF Stationary, n, L
  <1>4. CASE ~(L <= n)
    <2>1. 1 .. n - L = {}
      BY <1>1, <1>2, <1>4
    <2> QED BY <2>1 DEF Stationary
  <1> QED BY <1>3, <1>4

LEMMA FrameType ==
  ASSUME NEW j, NEW s \in Doing(j), NEW inner \in Nat \ {0}, inner <= LoopsOf(s) + 1
  PROVE  Frame(s, inner) \in Frames(j)
  <1>1. LoopsOf(s) \in Nat
    BY Shape DEF Doing, Does
  <1>2. LoopsOf(s) - inner + 1 \in Nat
    BY <1>1
  <1>3. Frame(s, inner) \in [sched : Doing(j), inner : Nat \ {0}, left : Nat]
    BY <1>2 DEF Frame
  <1>4. /\ Frame(s, inner).sched = s /\ Frame(s, inner).inner = inner
        /\ Frame(s, inner).left = LoopsOf(s) - inner + 1
    BY DEF Frame
  <1>5. Frame(s, inner).left <= LoopsOf(Frame(s, inner).sched) - Frame(s, inner).inner + 1
    BY <1>2, <1>4
  <1> QED BY <1>3, <1>5 DEF Frames

LEMMA Begin == Init => IInv
  <1> SUFFICES ASSUME Init PROVE IInv
    OBVIOUS
  <1>1. job \in Jobs /\ phase = "schedule" /\ sched = Operation(job)
        /\ stack = <<Frame(Operation(job), 1)>>
    BY DEF Init
  <1>2. Operation(job) \in Doing(job)
    BY <1>1, DoesOperation
  <1>3. LoopsOf(Operation(job)) \in Nat
    BY <1>2, Shape DEF Doing, Does
  <1>4. Frame(Operation(job), 1) \in Frames(job)
    <2>1. 1 \in Nat \ {0} /\ 1 <= LoopsOf(Operation(job)) + 1
      BY <1>3
    <2> QED BY <1>2, <2>1, FrameType
  <1>5. stack \in Seq(Frames(job)) /\ stack # <<>>
    BY <1>1, <1>4
  <1> QED BY <1>1, <1>2, <1>5 DEF IInv

(* The end of a stack and what is below it *)
LEMMA Ends ==
  ASSUME NEW S, NEW q \in Seq(S), q # <<>>
  PROVE  Last(q) \in S /\ Front(q) \in Seq(S) /\ Len(Front(q)) = Len(q) - 1
  <1>1. Len(q) \in Nat /\ Len(q) # 0 /\ \A k \in 1 .. Len(q) : q[k] \in S
    OBVIOUS
  <1>2. Last(q) \in S
    BY <1>1 DEF Last
  <1>3. 1 \in 1 .. Len(q) + 1 /\ Len(q) - 1 \in 1 - 1 .. Len(q) /\ (Len(q) - 1) - 1 + 1 = Len(q) - 1
    BY <1>1
  <1>4. SubSeq(q, 1, Len(q) - 1) \in Seq(S) /\ Len(SubSeq(q, 1, Len(q) - 1)) = Len(q) - 1
    BY <1>3, Part
  <1> QED BY <1>2, <1>4 DEF Front

(* A stack with one more frame *)
LEMMA Pushed ==
  ASSUME NEW S, NEW q \in Seq(S), NEW x \in S
  PROVE  Append(q, x) \in Seq(S) /\ Append(q, x) # <<>>
  <1>1. Append(q, x) \in Seq(S)
    OBVIOUS
  <1>2. Len(Append(q, x)) = Len(q) + 1 /\ Len(q) \in Nat
    OBVIOUS
  <1>3. Len(<<>>) = 0
    OBVIOUS
  <1> QED BY <1>1, <1>2, <1>3

LEMMA RotationStep ==
  ASSUME IInv, TryRotation
  PROVE  IInv'
  <1> DEFINE f == Last(stack)
             d == Focus(f.sched, f.inner)
             s == Rotate(f.sched, d)
             c == Candidate(s, f.inner)
             g == [f EXCEPT !.sched = s, !.left = @ - 1]
             tried == Append(Front(stack), g)
  <1>1. /\ job \in Jobs /\ sched \in Doing(job) /\ stack \in Seq(Frames(job))
        /\ phase = "schedule" /\ stack # <<>> /\ job' = job
    BY DEF IInv, TryRotation
  <1>2. f.left > 0
    BY DEF TryRotation
  <1>3. \/ /\ ~Accepts(s, f.inner)
           /\ stack' = tried /\ phase' = phase /\ sched' = sched
        \/ /\ Accepts(s, f.inner) /\ f.inner < LoopsOf(c)
           /\ stack' = Append(tried, Frame(c, f.inner + 1))
           /\ phase' = phase /\ sched' = sched
        \/ /\ Accepts(s, f.inner) /\ ~(f.inner < LoopsOf(c))
           /\ stack' = <<>> /\ sched' = c /\ phase' = "layout"
    BY DEF TryRotation
  <1>4. f \in Frames(job) /\ Front(stack) \in Seq(Frames(job))
    BY <1>1, Ends
  <1> HIDE DEF f
  <1>5. /\ f \in [sched : Doing(job), inner : Nat \ {0}, left : Nat]
        /\ f.left <= LoopsOf(f.sched) - f.inner + 1
    BY <1>4 DEF Frames
  <1>6. f.sched \in Doing(job) /\ f.inner \in Nat \ {0} /\ f.left \in Nat
    BY <1>5
  <1>7. LoopsOf(f.sched) \in Nat
    BY <1>6, Shape DEF Doing, Does
  <1>8. d \in 1 .. LoopsOf(f.sched) /\ f.inner <= LoopsOf(f.sched)
    BY <1>2, <1>5, <1>6, <1>7 DEF Focus
  <1> HIDE DEF d
  <1>9. s \in Doing(job) /\ LoopsOf(s) = LoopsOf(f.sched)
    BY <1>6, <1>8, DoesRotate
  <1> HIDE DEF s
  <1>10. g \in Frames(job)
    <2>1. f.left - 1 \in Nat
      BY <1>2, <1>6
    <2>2. g = [sched |-> s, inner |-> f.inner, left |-> f.left - 1]
      <3>1. f = [sched |-> f.sched, inner |-> f.inner, left |-> f.left]
        BY <1>5
      <3> DEFINE z == f.left
                 w == f.inner
                 v == f.sched
      <3>2. f = [sched |-> v, inner |-> w, left |-> z]
        BY <3>1
      <3>3. g = [f EXCEPT !.sched = s, !.left = z - 1]
        BY <3>2
      <3> HIDE DEF g, z, w, v
      <3> QED BY <3>2, <3>3 DEF z, w
    <2>3. g.sched = s /\ g.inner = f.inner /\ g.left = f.left - 1
      BY <2>2
    <2>4. g \in [sched : Doing(job), inner : Nat \ {0}, left : Nat]
      BY <1>6, <1>9, <2>1, <2>2
    <2> HIDE DEF g
    <2>5. g.left <= LoopsOf(g.sched) - g.inner + 1
      BY <1>5, <1>6, <1>7, <1>9, <2>3
    <2> QED BY <2>4, <2>5 DEF Frames
  <1> HIDE DEF g
  <1>11. tried \in Seq(Frames(job)) /\ tried # <<>>
    BY <1>4, <1>10, Pushed
  <1> HIDE DEF tried, c
  <1>12. CASE ~Accepts(s, f.inner)
    <2>1. stack' = tried /\ phase' = "schedule" /\ sched' = sched
      BY <1>1, <1>3, <1>12
    <2> QED BY <1>1, <1>11, <2>1 DEF IInv
  <1>13. ASSUME Accepts(s, f.inner)
         PROVE  c \in Doing(job) /\ (c = s \/ LoopsOf(c) = LoopsOf(s) + 1)
    <2>1. Fits(s, f.inner) /\ f.inner <= LoopsOf(s)
      BY <1>8, <1>9, <1>13 DEF Accepts
    <2> QED BY <1>1, <1>6, <1>9, <2>1, DoesCandidate DEF c
  <1>14. CASE Accepts(s, f.inner) /\ f.inner < LoopsOf(c)
    <2>1. stack' = Append(tried, Frame(c, f.inner + 1)) /\ phase' = "schedule" /\ sched' = sched
      BY <1>1, <1>3, <1>14
    <2>2. c \in Doing(job)
      BY <1>13, <1>14
    <2>3. LoopsOf(c) \in Nat
      BY <2>2, Shape DEF Doing, Does
    <2>4. Frame(c, f.inner + 1) \in Frames(job)
      <3>1. f.inner + 1 \in Nat \ {0} /\ f.inner + 1 <= LoopsOf(c) + 1
        BY <1>6, <1>14, <2>3
      <3> QED BY <2>2, <3>1, FrameType
    <2> DEFINE h == Frame(c, f.inner + 1)
    <2> HIDE DEF h
    <2>5. Append(tried, h) \in Seq(Frames(job)) /\ Append(tried, h) # <<>>
      BY <1>11, <2>4, Pushed DEF h
    <2> QED BY <1>1, <2>1, <2>5 DEF IInv, h
  <1>15. CASE Accepts(s, f.inner) /\ ~(f.inner < LoopsOf(c))
    <2>1. stack' = <<>> /\ phase' = "layout" /\ sched' = c
      BY <1>3, <1>15
    <2>2. c \in Doing(job) /\ (c = s \/ LoopsOf(c) = LoopsOf(s) + 1)
      BY <1>13, <1>15
    <2>3. c = s /\ f.inner = LoopsOf(s)
      BY <1>6, <1>7, <1>8, <1>9, <1>15, <2>2
    <2>4. Stationary(c, job)
      BY <1>1, <1>9, <1>15, <2>3, AcceptedStationary
    <2>5. stack' \in Seq(Frames(job))
      BY <2>1
    <2> QED BY <1>1, <2>1, <2>2, <2>4, <2>5 DEF IInv
  <1> QED BY <1>12, <1>14, <1>15

LEMMA BacktrackStep ==
  ASSUME IInv, Backtrack
  PROVE  IInv'
  <1>1. /\ job \in Jobs /\ sched \in Doing(job) /\ stack \in Seq(Frames(job))
        /\ phase = "schedule" /\ stack # <<>> /\ job' = job /\ sched' = sched
        /\ stack' = Front(stack)
        /\ phase' = IF Len(stack) = 1 THEN "failed" ELSE phase
    BY DEF IInv, Backtrack
  <1>2. Front(stack) \in Seq(Frames(job)) /\ Len(Front(stack)) = Len(stack) - 1
    BY <1>1, Ends
  <1>3. Len(stack) # 1 => Front(stack) # <<>>
    <2>1. Len(stack) \in Nat /\ Len(stack) # 0
      BY <1>1
    <2>2. Len(<<>>) = 0
      OBVIOUS
    <2> QED BY <1>2, <2>1, <2>2
  <1>4. phase' \in {"schedule", "failed"} /\ (phase' = "schedule" => stack' # <<>>)
    BY <1>1, <1>3
  <1> QED BY <1>1, <1>2, <1>4 DEF IInv

(* The passes after the schedule leave it as it is. *)
LEMMA PassStep ==
  ASSUME IInv, job' = job, stack' = stack, sched' = sched,
         phase \notin {"schedule", "failed"}, phase' # "schedule"
  PROVE  IInv'
  BY DEF IInv

LEMMA Inductive == IInv /\ [Next]_vars => IInv'
  <1> SUFFICES ASSUME IInv, [Next]_vars PROVE IInv'
    OBVIOUS
  <1>1. CASE TryRotation
    BY <1>1, RotationStep
  <1>2. CASE Backtrack
    BY <1>2, BacktrackStep
  <1>3. CASE SetLayout
    BY <1>3, PassStep DEF SetLayout
  <1>4. CASE Allocate
    BY <1>4, PassStep DEF Allocate
  <1>5. CASE ResolveLayout
    BY <1>5, PassStep DEF ResolveLayout
  <1>6. CASE ConvertToStreams
    BY <1>6, PassStep DEF ConvertToStreams
  <1>7. CASE CopyToDma
    BY <1>7, PassStep DEF CopyToDma
  <1>8. CASE UNCHANGED vars
    BY <1>8 DEF IInv, vars
  <1> QED BY <1>1, <1>2, <1>3, <1>4, <1>5, <1>6, <1>7, <1>8 DEF Next, Stop

(* The invariant holds from the operation to the registers, whichever      *)
(* candidates the search tries and in whichever order it drops them.       *)
THEOREM SpecInv == Spec => []IInv
  BY Begin, Inductive, PTL DEF Spec

(* However the search rotates and tiles the loops of an operation, each    *)
(* schedule it holds and the one it chooses does every iteration of the    *)
(* operation once, on the elements the operation names.                    *)
THEOREM ScheduleDoesTheWork == Spec => []SameWork
  <1>1. IInv => SameWork
    <2> SUFFICES ASSUME IInv, NEW s \in {sched} \cup {f.sched : f \in ToSet(stack)}
                 PROVE  /\ Prod(s.bounds) = Prod(Operation(job).bounds)
                        /\ Work(s) = Work(Operation(job))
      BY DEF SameWork
    <2>1. s \in Doing(job)
      <3>1. CASE s = sched
        BY <3>1 DEF IInv
      <3>2. CASE s # sched
        <4>1. PICK f \in ToSet(stack) : s = f.sched
          BY <3>2
        <4>2. stack \in Seq(Frames(job))
          BY DEF IInv
        <4>3. f \in Frames(job)
          BY <4>1, <4>2 DEF ToSet
        <4>4. f \in [sched : Doing(job), inner : Nat \ {0}, left : Nat]
          BY <4>3 DEF Frames
        <4> QED BY <4>1, <4>4
      <3> QED BY <3>1, <3>2
    <2> QED BY <2>1 DEF Doing, Does
  <1> QED BY <1>1, SpecInv, PTL
------------------------------------------------------------------------------
(* Two steps of a nest have the same values in its first p loops when they *)
(* are in the same run of the loops inside those.                          *)
LEMMA SameDigits ==
  ASSUME NEW b \in Seq(Nat \ {0}), NEW p \in 0 .. Len(b),
         NEW n \in 0 .. Prod(b) - 1, NEW m \in 0 .. Prod(b) - 1
  PROVE  (\A i \in 1 .. p : Iteration(b, n)[i] = Iteration(b, m)[i])
         <=> n \div Inside(b, p) = m \div Inside(b, p)
  <1> DEFINE N == Len(b)
             W(i) == Inside(b, i)
  <1>1. N \in Nat /\ p \in 0 .. N /\ \A i \in 1 .. N : b[i] \in Nat \ {0}
    OBVIOUS
  <1>2. /\ W(0) = Prod(b)
        /\ \A i \in 0 .. N : W(i) \in Nat \ {0}
        /\ \A i \in 1 .. N : W(i - 1) = b[i] * W(i)
    BY InsideSteps
  <1>3. n \in Nat /\ m \in Nat /\ n < W(0) /\ m < W(0) /\ W(0) \in Nat \ {0}
    BY <1>1, <1>2
  <1>4. /\ \A i \in 1 .. N : Iteration(b, n)[i] = (n \div W(i)) % b[i]
        /\ \A i \in 1 .. N : Iteration(b, m)[i] = (m \div W(i)) % b[i]
    BY <1>3, IterationDigits
  <1> HIDE DEF N, W
  <1>5. ASSUME NEW h \in Nat, NEW i \in 1 .. N
        PROVE  /\ h \div W(i) \in Nat
               /\ h \div W(i - 1) = (h \div W(i)) \div b[i]
    <2> DEFINE w == W(i)
               r == b[i]
    <2>1. w \in Nat \ {0} /\ r \in Nat \ {0} /\ W(i - 1) = r * w
      BY <1>1, <1>2
    <2> HIDE DEF w, r
    <2>2. h \div w \in Nat /\ h \div (w * r) = (h \div w) \div r
      BY <2>1, DivisionTwice
    <2>3. w * r = r * w
      BY <2>1
    <2> QED BY <2>1, <2>2, <2>3 DEF w, r
  <1>6. n \div W(0) = 0 /\ m \div W(0) = 0
    <2> DEFINE w == W(0)
    <2>1. w \in Nat \ {0} /\ n < w /\ m < w
      BY <1>3
    <2> HIDE DEF w
    <2>2. n = w * 0 + n /\ m = w * 0 + m /\ n \in 0 .. w - 1 /\ m \in 0 .. w - 1 /\ 0 \in Int
      BY <1>3, <2>1
    <2>3. n \div w = 0
      BY <1>3, <2>1, <2>2, OneRemainder
    <2>4. m \div w = 0
      BY <1>3, <2>1, <2>2, OneRemainder
    <2> QED BY <2>3, <2>4 DEF w
  <1>7. ASSUME \A i \in 1 .. p : Iteration(b, n)[i] = Iteration(b, m)[i]
        PROVE  n \div W(p) = m \div W(p)
    <2> DEFINE T == {k \in Nat : n \div W(k) = m \div W(k)}
    <2>1. 0 \in T
      BY <1>6
    <2>2. ASSUME NEW k \in 0 + 1 .. p, k - 1 \in T PROVE k \in T
      <3> DEFINE a == n \div W(k)
                 c == m \div W(k)
                 r == b[k]
      <3>1. k \in 1 .. N /\ k \in 1 .. p /\ k \in Nat
        BY <1>1
      <3>2. a \in Nat /\ c \in Nat /\ n \div W(k - 1) = a \div r /\ m \div W(k - 1) = c \div r
        BY <1>3, <1>5, <3>1
      <3>3. a % r = c % r /\ r \in Nat \ {0}
        BY <1>1, <1>4, <1>7, <3>1
      <3>4. a \div r = c \div r
        BY <2>2, <3>2
      <3> HIDE DEF a, c, r
      <3>5. a = r * (a \div r) + (a % r)
        BY <3>2, <3>3, Division
      <3>6. c = r * (c \div r) + (c % r)
        BY <3>2, <3>3, Division
      <3>7. a = c
        BY <3>3, <3>4, <3>5, <3>6
      <3> QED BY <3>1, <3>7 DEF a, c
    <2>3. 0 \in Nat /\ p \in Nat /\ 0 <= p
      BY <1>1
    <2>4. p \in T
      <3> HIDE DEF T
      <3> QED BY <2>1, <2>2, <2>3, Climb
    <2> QED BY <2>4
  <1>8. ASSUME n \div W(p) = m \div W(p), NEW i \in 1 .. p
        PROVE  Iteration(b, n)[i] = Iteration(b, m)[i]
    <2> DEFINE T == {k \in Nat : n \div W(p - k) = m \div W(p - k)}
    <2>1. 0 \in T
      <3>1. p - 0 = p
        BY <1>1
      <3> QED BY <1>8, <3>1
    <2>2. ASSUME NEW k \in 0 + 1 .. p - i, k - 1 \in T PROVE k \in T
      <3> DEFINE l == p - (k - 1)
      <3>1. l \in 1 .. N /\ l - 1 = p - k /\ k \in Nat
        BY <1>1
      <3> HIDE DEF l
      <3>2. n \div W(l - 1) = (n \div W(l)) \div b[l] /\ m \div W(l - 1) = (m \div W(l)) \div b[l]
        BY <1>3, <1>5, <3>1
      <3>3. n \div W(l) = m \div W(l)
        BY <2>2 DEF l
      <3>4. n \div W(l - 1) = m \div W(l - 1)
        BY <3>2, <3>3
      <3> QED BY <3>1, <3>4
    <2>3. 0 \in Nat /\ p - i \in Nat /\ 0 <= p - i
      BY <1>1
    <2>4. p - i \in T
      <3> HIDE DEF T
      <3> QED BY <2>1, <2>2, <2>3, Climb
    <2>5. p - (p - i) = i /\ i \in 1 .. N
      BY <1>1
    <2>6. n \div W(i) = m \div W(i)
      BY <2>4, <2>5
    <2> QED BY <1>4, <2>5, <2>6
  <1> QED BY <1>7, <1>8 DEF W

(* What changes only from one group of D numbers to the next is never the  *)
(* same in two groups: it has one value more than it has changes.          *)
LEMMA GroupsOnce ==
  ASSUME NEW N \in Nat \ {0}, NEW D \in Nat \ {0}, NEW F,
         \A n, m \in 0 .. N - 1 : F[n] = F[m] <=> n \div D = m \div D
  PROVE  Cardinality({F[n] : n \in 0 .. N - 1})
         = Cardinality({n \in (0 .. N - 1) \ {0} : F[n] # F[n - 1]}) + 1
  <1> DEFINE I == 0 .. N - 1
             left == {n \in I \ {0} : F[n] # F[n - 1]}
             first == left \cup {0}
             values == {F[n] : n \in I}
             G == [n \in first |-> F[n]]
  <1>1. \A n \in Nat : n % D \in 0 .. D - 1 /\ n \div D \in Int /\ n = D * (n \div D) + (n % D)
    BY Division
  <1>2. ASSUME NEW n \in I, n # 0
        PROVE  n \in left <=> n % D = 0
    <2>1. n - 1 \in I /\ n - 1 \in Nat /\ (n - 1) + 1 = n
      BY <1>2
    <2>2. n \in left <=> n \div D # (n - 1) \div D
      BY <1>2, <2>1
    <2> DEFINE m == n - 1
               q == m \div D
    <2>3. m \in Nat /\ m + 1 = n
      BY <2>1
    <2> HIDE DEF m
    <2>4. /\ (m + 1) % D = IF m % D = D - 1 THEN 0 ELSE (m % D) + 1
          /\ (m + 1) \div D = IF m % D = D - 1 THEN q + 1 ELSE q
      BY <2>3, NextNumber
    <2>5. q \in Int /\ m % D \in 0 .. D - 1
      BY <1>1, <2>3
    <2> HIDE DEF q
    <2>6. n \div D # q <=> m % D = D - 1
      BY <2>3, <2>4, <2>5
    <2>7. n % D = 0 <=> m % D = D - 1
      BY <2>3, <2>4, <2>5
    <2> QED BY <2>2, <2>6, <2>7 DEF m, q
  <1>3. first \subseteq I /\ 0 \in I /\ 0 \notin left
    OBVIOUS
  <1>4. \A n \in first : n \in Nat /\ n % D = 0
    <2>1. 0 % D = 0
      <3>1. 0 = D * 0 + 0 /\ 0 \in 0 .. D - 1 /\ 0 \in Int /\ 0 \in Nat
        OBVIOUS
      <3> QED BY <3>1, OneRemainder
    <2> QED BY <1>2, <1>3, <2>1
  <1>5. IsFiniteSet(I) /\ IsFiniteSet(left)
    <2>1. IsFiniteSet(I)
      <3>1. 0 \in Int /\ N - 1 \in Int
        OBVIOUS
      <3>2. IsFiniteSet(0 .. N - 1)
        BY <3>1, FS_Interval
      <3> QED BY <3>2
    <2>2. left \in SUBSET I
      OBVIOUS
    <2> HIDE DEF left, I
    <2> QED BY <2>1, <2>2, FS_Subset
  <1>6. G \in Bijection(first, values)
    <2>1. G \in [first -> values]
      BY <1>3
    <2>2. ASSUME NEW n \in first, NEW m \in first, G[n] = G[m] PROVE n = m
      <3>1. n \div D = m \div D
        BY <1>3, <2>2
      <3>2. n = D * (n \div D) + 0 /\ m = D * (m \div D) + 0
        BY <1>1, <1>4
      <3> QED BY <3>1, <3>2
    <2>3. ASSUME NEW v \in values PROVE \E n \in first : G[n] = v
      <3>1. PICK n \in I : v = F[n]
        OBVIOUS
      <3> DEFINE q == n \div D
                 m == D * q
      <3>2. n \in Nat /\ n = D * q + (n % D) /\ n % D \in 0 .. D - 1 /\ q \in Int
        BY <1>1, <3>1
      <3>3. q \in Nat
        <4>1. 1 \in Nat \ {0}
          OBVIOUS
        <4>2. n \div D \in Nat /\ n \div (D * 1) = (n \div D) \div 1
          BY <3>2, <4>1, DivisionTwice
        <4> QED BY <4>2
      <3> HIDE DEF q
      <3>4. m \in Nat /\ m <= n
        BY <3>2, <3>3
      <3>5. m \div D = q /\ m % D = 0
        <4>1. m = D * q + 0 /\ 0 \in 0 .. D - 1
          BY <3>2
        <4> HIDE DEF m
        <4> QED BY <3>2, <3>4, <4>1, OneRemainder
      <3> HIDE DEF m
      <3>6. m \in I
        BY <3>1, <3>4
      <3>7. F[m] = F[n]
        BY <3>1, <3>5, <3>6 DEF q
      <3>8. m \in first
        BY <1>2, <3>5, <3>6
      <3> QED BY <3>1, <3>7, <3>8
    <2> HIDE DEF first, values, G
    <2>4. G \in Injection(first, values)
      BY <2>1, <2>2 DEF Injection, IsInjective
    <2>5. G \in Surjection(first, values)
      BY <2>1, <2>3 DEF Surjection
    <2> QED BY <2>4, <2>5 DEF Bijection
  <1> HIDE DEF left, values, G, I
  <1>7. IsFiniteSet(first) /\ Cardinality(first) = Cardinality(left) + 1
    BY <1>3, <1>5, FS_AddElement
  <1> HIDE DEF first
  <1>8. Cardinality(values) = Cardinality(first)
    <2>1. ExistsBijection(first, values)
      BY <1>6 DEF ExistsBijection
    <2> QED BY <1>7, <2>1, FS_Bijection
  <1> QED BY <1>7, <1>8 DEF left, values, I

(* The loops that the streamers run *)
LEMMA OuterLoops ==
  ASSUME job \in Jobs, sched \in Doing(job)
  PROVE  LET N == LoopsOf(sched)
             b == Outer(sched)
         IN  /\ b \in Seq(Nat \ {0}) /\ Len(b) <= N
             /\ 1 .. Len(b) = 1 .. N - LoopsOf(job.acc)
             /\ \A i \in 1 .. Len(b) : b[i] = sched.bounds[i]
  <1> DEFINE N == LoopsOf(sched)
             L == LoopsOf(job.acc)
             s == sched.bounds
             k == N - L
             b == SubSeq(s, 1, k)
  <1>1. s \in Seq(Nat \ {0}) /\ N = Len(s)
    BY Shape DEF Doing, Does
  <1>2. L \in Nat
    <2>1. job.acc.bounds \in Seq(Nat)
      BY JobsAssumption DEF JobsAssumption
    <2> QED BY <2>1 DEF LoopsOf
  <1>3. Outer(sched) = b
    BY DEF Outer
  <1> HIDE DEF N, L, s
  <1>4. N \in Nat /\ k \in Int /\ k <= N
    BY <1>1, <1>2
  <1> HIDE DEF k
  <1>5. CASE k < 1
    <2>1. b = <<>>
      BY <1>1, <1>4, <1>5
    <2> HIDE DEF b
    <2>2. b \in Seq(Nat \ {0}) /\ Len(b) = 0
      BY <2>1
    <2>3. 1 .. Len(b) = 1 .. k /\ Len(b) <= N
      BY <1>4, <1>5, <2>2
    <2> QED BY <1>3, <2>2, <2>3 DEF N, L, k
  <1>6. CASE ~(k < 1)
    <2>1. 1 \in 1 .. Len(s) + 1 /\ k \in 1 - 1 .. Len(s) /\ k - 1 + 1 = k
      BY <1>1, <1>4, <1>6
    <2>2. b \in Seq(Nat \ {0}) /\ Len(b) = k /\ \A i \in 1 .. k : b[i] = s[1 + i - 1]
      BY <1>1, <2>1, Part
    <2>3. \A i \in 1 .. k : 1 + i - 1 = i
      BY <1>4
    <2> HIDE DEF b
    <2>4. \A i \in 1 .. k : b[i] = s[i]
      BY <2>2, <2>3
    <2> QED BY <1>3, <1>4, <2>2, <2>4 DEF N, L, k, s
  <1> QED BY <1>5, <1>6

(* The loops that move the output are the first p of those. *)
LEMMA MovingFirst ==
  ASSUME NEW s, NEW k \in Nat,
         \A i, l \in 1 .. k : MovesOutput(s, l) /\ ~MovesOutput(s, i) => l < i
  PROVE  \E p \in 0 .. k : \A i \in 1 .. k : MovesOutput(s, i) <=> i <= p
  <1> DEFINE T == {i \in 1 .. k : ~MovesOutput(s, i)}
  <1>1. CASE T = {}
    <2>1. k \in 0 .. k /\ \A i \in 1 .. k : MovesOutput(s, i) <=> i <= k
      BY <1>1
    <2> QED BY <2>1
  <1>2. CASE T # {}
    <2>1. T \in SUBSET Nat
      OBVIOUS
    <2>2. PICK l \in T : \A y \in T : ~(y < l)
      <3> HIDE DEF T
      <3> QED BY <1>2, <2>1, Least
    <2>3. l \in 1 .. k /\ ~MovesOutput(s, l)
      BY <2>2
    <2>4. ASSUME NEW i \in 1 .. k PROVE MovesOutput(s, i) <=> i <= l - 1
      <3>1. CASE i < l
        <4>1. MovesOutput(s, i)
          BY <2>2, <3>1
        <4> QED BY <2>3, <3>1, <4>1
      <3>2. CASE ~(i < l)
        <4>1. ~MovesOutput(s, i)
          BY <2>3, <3>2
        <4> QED BY <2>3, <3>2, <4>1
      <3> QED BY <3>1, <3>2
    <2>5. l - 1 \in 0 .. k
      BY <2>3
    <2> QED BY <2>4, <2>5
  <1> QED BY <1>1, <1>2

(* Iteration of the whole nest at step n *)
FullIteration(n) ==
  LET outer == Iteration(Outer(sched), n)
  IN outer \o Zeros(LoopsOf(sched) - Len(outer))

LEMMA WholeIteration ==
  ASSUME job \in Jobs, sched \in Doing(job), NEW n \in Nat
  PROVE  LET k == Len(Outer(sched)) IN
         /\ FullIteration(n) \in Box(sched.bounds)
         /\ \A i \in 1 .. k : FullIteration(n)[i] = Iteration(Outer(sched), n)[i]
         /\ \A i \in k + 1 .. LoopsOf(sched) : FullIteration(n)[i] = 0
         /\ OutputOf(n) = Index(Last(sched.maps), FullIteration(n))
  <1> DEFINE N == LoopsOf(sched)
             b == Outer(sched)
             k == Len(b)
             x == Iteration(b, n)
             z == Zeros(N - Len(x))
             y == x \o z
  <1>1. b \in Seq(Nat \ {0}) /\ k <= N /\ \A i \in 1 .. k : b[i] = sched.bounds[i]
    BY OuterLoops
  <1>2. sched.bounds \in Seq(Nat \ {0}) /\ DOMAIN sched.bounds = 1 .. N /\ N \in Nat
        /\ N = Len(sched.bounds)
    BY Shape DEF Doing, Does
  <1>3. k \in Nat /\ DOMAIN b = 1 .. k
    BY <1>1
  <1>4. x \in Box(b)
    BY <1>1, IterationDigits
  <1>5. OutputOf(n) = Index(Last(sched.maps), y) /\ FullIteration(n) = y
    BY DEF OutputOf, FullIteration
  <1> HIDE DEF N, k, x
  <1>6. x \in [1 .. k -> Nat] /\ \A i \in 1 .. k : x[i] \in Nat /\ x[i] < b[i]
    BY <1>3, <1>4 DEF Box
  <1>7. x \in Seq(Nat) /\ Len(x) = k
    BY <1>3, <1>6
  <1>8. N - Len(x) \in Nat
    BY <1>1, <1>2, <1>3, <1>7
  <1>9. z \in Seq(Nat) /\ Len(z) = N - Len(x) /\ \A i \in 1 .. N - Len(x) : z[i] = 0
    <2> DEFINE m == N - Len(x)
    <2>1. m \in Nat
      BY <1>8
    <2> HIDE DEF m
    <2>2. Zeros(m) \in [1 .. m -> Nat]
      BY DEF Zeros
    <2>3. Zeros(m) \in Seq(Nat) /\ Len(Zeros(m)) = m /\ \A i \in 1 .. m : Zeros(m)[i] = 0
      BY <2>1, <2>2 DEF Zeros
    <2> QED BY <2>3 DEF m
  <1> HIDE DEF b, z
  <1>10. y \in Seq(Nat) /\ Len(y) = Len(x) + Len(z)
         /\ \A i \in 1 .. Len(x) + Len(z) : y[i] = IF i <= Len(x) THEN x[i] ELSE z[i - Len(x)]
    BY <1>7, <1>9, ConcatProperties
  <1> HIDE DEF y
  <1>11. Len(x) + Len(z) = N
    BY <1>2, <1>3, <1>7, <1>9
  <1>12. \A i \in 1 .. k : y[i] = x[i]
    <2>1. \A i \in 1 .. k : i \in 1 .. N /\ i <= Len(x)
      BY <1>1, <1>2, <1>3, <1>7
    <2> QED BY <1>10, <1>11, <2>1
  <1>13. \A i \in k + 1 .. N : y[i] = 0
    <2>1. \A i \in k + 1 .. N : i \in 1 .. N /\ ~(i <= Len(x)) /\ i - Len(x) \in 1 .. N - Len(x)
      BY <1>1, <1>2, <1>3, <1>7
    <2> QED BY <1>9, <1>10, <1>11, <2>1
  <1>14. y \in [1 .. N -> Nat]
    BY <1>10, <1>11
  <1>15. ASSUME NEW i \in 1 .. N PROVE y[i] < sched.bounds[i]
    <2> DEFINE c == sched.bounds
    <2>1. c[i] \in Nat \ {0}
      <3>1. c \in Seq(Nat \ {0}) /\ N = Len(c)
        BY <1>2
      <3> HIDE DEF c
      <3> QED BY <3>1
    <2>2. i \in 1 .. k \/ i \in k + 1 .. N
      BY <1>2, <1>3
    <2>3. CASE i \in 1 .. k
      BY <1>1, <1>6, <1>12, <2>3 DEF k
    <2>4. CASE i \in k + 1 .. N
      BY <1>13, <2>1, <2>4
    <2> QED BY <2>2, <2>3, <2>4
  <1>16. y \in Box(sched.bounds)
    BY <1>2, <1>14, <1>15 DEF Box
  <1> QED BY <1>5, <1>12, <1>13, <1>16 DEF N, k, x, b

(* Two steps write the same vector when they are in the same run of the    *)
(* loops that do not move the output.                                      *)
LEMMA OutputGroups ==
  ASSUME job \in Jobs, sched \in Doing(job), Stationary(sched, job)
  PROVE  \E D \in Nat \ {0} : \A n, m \in 0 .. Prod(Outer(sched)) - 1 :
           OutputOf(n) = OutputOf(m) <=> n \div D = m \div D
  <1> DEFINE N == LoopsOf(sched)
             b == Outer(sched)
             k == Len(b)
             o == Last(sched.maps)
  <1>1. b \in Seq(Nat \ {0}) /\ k \in Nat /\ k <= N /\ 1 .. k = 1 .. N - LoopsOf(job.acc)
    BY OuterLoops
  <1>2. WellShaped(sched) /\ sched.maps # <<>> /\ Separate(sched) /\ N \in Nat
        /\ DOMAIN sched.bounds = 1 .. N
    BY Shape DEF Doing, Does
  <1>3. PICK p \in 0 .. k : \A i \in 1 .. k : MovesOutput(sched, i) <=> i <= p
    <2>1. \A i, l \in 1 .. k : MovesOutput(sched, l) /\ ~MovesOutput(sched, i) => l < i
      BY <1>1 DEF Stationary
    <2> HIDE DEF k
    <2> QED BY <1>1, <2>1, MovingFirst
  <1>4. Inside(b, p) \in Nat \ {0}
    BY <1>1, <1>3, InsideSteps
  <1>5. \A r \in DOMAIN o : o[r] \in [1 .. N -> Int]
    <2>1. \A q \in DOMAIN sched.maps : \A r \in DOMAIN sched.maps[q] : sched.maps[q][r] \in [1 .. N -> Int]
      BY <1>2, Shape
    <2>2. SameOperands(sched, sched)
      BY DEF SameOperands
    <2>3. \E q \in DOMAIN sched.maps : o = sched.maps[q]
      BY <1>2, <2>2, LastOperand
    <2> QED BY <2>1, <2>3
  <1> HIDE DEF N, o
  <1>6. ASSUME NEW n \in 0 .. Prod(b) - 1, NEW m \in 0 .. Prod(b) - 1
        PROVE  OutputOf(n) = OutputOf(m) <=> n \div Inside(b, p) = m \div Inside(b, p)
    <2> DEFINE x == FullIteration(n)
               y == FullIteration(m)
    <2>1. n \in Nat /\ m \in Nat
      OBVIOUS
    <2>2. /\ x \in Box(sched.bounds) /\ OutputOf(n) = Index(o, x)
          /\ \A i \in 1 .. k : x[i] = Iteration(b, n)[i]
          /\ \A i \in k + 1 .. N : x[i] = 0
      BY <2>1, WholeIteration DEF o, N
    <2>3. /\ y \in Box(sched.bounds) /\ OutputOf(m) = Index(o, y)
          /\ \A i \in 1 .. k : y[i] = Iteration(b, m)[i]
          /\ \A i \in k + 1 .. N : y[i] = 0
      BY <2>1, WholeIteration DEF o, N
    <2>4. (\A i \in 1 .. p : Iteration(b, n)[i] = Iteration(b, m)[i])
          <=> n \div Inside(b, p) = m \div Inside(b, p)
      BY <1>1, <1>3, SameDigits
    <2>5. \A i \in 1 .. p : i \in 1 .. k /\ i \in 1 .. N /\ i <= p
      BY <1>1, <1>2, <1>3
    <2> HIDE DEF x, y, b, k
    <2>6. ASSUME OutputOf(n) = OutputOf(m), NEW i \in 1 .. p
          PROVE  Iteration(b, n)[i] = Iteration(b, m)[i]
      <3>1. Index(o, x) = Index(o, y) /\ MovesOutput(sched, i)
        BY <1>3, <2>2, <2>3, <2>5, <2>6
      <3>2. x[i] = y[i]
        BY <1>2, <2>2, <2>3, <2>5, <3>1 DEF Separate, o, N
      <3> QED BY <2>2, <2>3, <2>5, <3>2
    <2>7. ASSUME \A i \in 1 .. p : Iteration(b, n)[i] = Iteration(b, m)[i]
          PROVE  OutputOf(n) = OutputOf(m)
      <3>1. x \in [1 .. N -> Nat] /\ y \in [1 .. N -> Nat]
        BY <1>2, <2>2, <2>3 DEF Box
      <3>2. ASSUME NEW r \in DOMAIN o PROVE Terms(o[r], x) = Terms(o[r], y)
        <4> DEFINE f == o[r]
        <4>1. f \in [1 .. N -> Int]
          BY <1>5
        <4>2. ASSUME NEW i \in 1 .. N PROVE f[i] * x[i] = f[i] * y[i]
          <5>1. CASE i \in 1 .. p
            <6>1. x[i] = y[i]
              BY <2>2, <2>3, <2>5, <2>7, <5>1
            <6> QED BY <6>1
          <5>2. CASE i \in p + 1 .. k
            <6>1. i \in 1 .. k /\ ~(i <= p)
              BY <1>3, <5>2
            <6>2. f[i] = 0
              BY <1>3, <6>1 DEF MovesOutput, o
            <6>3. x[i] \in Int /\ y[i] \in Int
              BY <3>1
            <6> HIDE DEF f
            <6> QED BY <6>2, <6>3
          <5>3. CASE i \in k + 1 .. N
            <6>1. x[i] = 0 /\ y[i] = 0
              BY <2>2, <2>3, <5>3
            <6> QED BY <6>1
          <5>4. i \in 1 .. p \/ i \in p + 1 .. k \/ i \in k + 1 .. N
            BY <1>1, <1>2, <1>3
          <5> QED BY <5>1, <5>2, <5>3, <5>4
        <4> HIDE DEF f
        <4>3. [i \in 1 .. N |-> f[i] * x[i]] = [i \in 1 .. N |-> f[i] * y[i]]
          BY <4>2
        <4>4. DOMAIN x = 1 .. N /\ DOMAIN y = 1 .. N
          BY <3>1
        <4> QED BY <4>3, <4>4 DEF Terms, f
      <3>3. [r \in DOMAIN o |-> Sum(Terms(o[r], x))] = [r \in DOMAIN o |-> Sum(Terms(o[r], y))]
        BY <3>2
      <3>4. Index(o, x) = Index(o, y)
        BY <3>3, IndexRows
      <3> QED BY <2>2, <2>3, <3>4
    <2> QED BY <2>4, <2>6, <2>7
  <1> QED BY <1>4, <1>6

(* The chosen schedule is done with a vector of the output before it takes *)
(* the next: the streamer that reads it back never reads ahead of the one  *)
(* that writes it.                                                         *)
THEOREM OutputFinishedOnce == Spec => []FinishedOnce
  <1>1. IInv => FinishedOnce
    <2> DEFINE M == Prod(Outer(sched))
               F == [n \in 0 .. M - 1 |-> OutputOf(n)]
               steps == 0 .. M - 1
    <2> SUFFICES ASSUME IInv, phase \notin {"schedule", "failed"}
                 PROVE  Cardinality({OutputOf(n) : n \in steps})
                        = Cardinality({n \in steps \ {0} : OutputOf(n) # OutputOf(n - 1)}) + 1
      BY DEF FinishedOnce
    <2>1. job \in Jobs /\ sched \in Doing(job) /\ Stationary(sched, job)
      BY DEF IInv
    <2>2. PICK D \in Nat \ {0} : \A n, m \in 0 .. M - 1 :
                 OutputOf(n) = OutputOf(m) <=> n \div D = m \div D
      BY <2>1, OutputGroups
    <2>3. M \in Nat \ {0}
      <3>1. Outer(sched) \in Seq(Nat \ {0})
        BY <2>1, OuterLoops
      <3>2. Inside(Outer(sched), 0) = M /\ 0 \in 0 .. Len(Outer(sched))
        BY <3>1, InsideSteps
      <3> HIDE DEF M
      <3> QED BY <3>1, <3>2, InsideSteps
    <2> HIDE DEF M
    <2>4. \A n \in 0 .. M - 1 : F[n] = OutputOf(n)
      OBVIOUS
    <2> HIDE DEF F
    <2>5. \A n, m \in 0 .. M - 1 : F[n] = F[m] <=> n \div D = m \div D
      BY <2>2, <2>4
    <2>6. Cardinality({F[n] : n \in 0 .. M - 1})
          = Cardinality({n \in (0 .. M - 1) \ {0} : F[n] # F[n - 1]}) + 1
      BY <2>3, <2>5, GroupsOnce
    <2>7. {F[n] : n \in 0 .. M - 1} = {OutputOf(n) : n \in 0 .. M - 1}
      BY <2>4
    <2>8. {n \in (0 .. M - 1) \ {0} : F[n] # F[n - 1]}
          = {n \in (0 .. M - 1) \ {0} : OutputOf(n) # OutputOf(n - 1)}
      <3>1. \A n \in (0 .. M - 1) \ {0} : n - 1 \in 0 .. M - 1
        BY <2>3
      <3> QED BY <2>4, <3>1
    <2> QED BY <2>6, <2>7, <2>8
  <1> QED BY <1>1, SpecInv, PTL
==============================================================================
