--------------------------- MODULE ComputorProofs ---------------------------
(***************************************************************************)
(* Theorems about Computor, for coefficients with any number of decimals,  *)
(* floats of any precision, every largest power and every number of terms. *)
(***************************************************************************)
EXTENDS Computor, DataLemmas, TLAPS

----------------------------------------------------------------------------
(* Floats. *)

\* Doubled gives the powers of two.
LEMMA DoubledIs ==
    /\ Doubled[0] = 1
    /\ \A k \in Nat : Doubled[k] \in Nat \ {0} /\ Doubled[k + 1] = 2 * Doubled[k]
<1> DEFINE Body(h, k) == IF k = 0 THEN 1 ELSE 2 * h[k - 1]
           step == [p \in Nat \X Nat |-> 2 * p[2]]
<1>1. \A k \in Nat : \A y \in Nat : step[<<k, y>>] = 2 * y /\ step[<<k, y>>] \in Nat
  OBVIOUS
<1>2. PICK g \in [Nat -> Nat] : Steps(g, Nat, 1, step)
  <2> HIDE DEF step
  <2>1. 1 \in Nat /\ 0 \in Nat /\ Nat \in SUBSET Nat /\ \A k \in Nat \ {0} : k - 1 \in Nat
    OBVIOUS
  <2>2. \A k \in Nat \ {0} : \A y \in Nat : step[<<k, y>>] \in Nat
    BY <1>1
  <2>3. QED
    BY <2>1, <2>2, StepsSolved
<1>3. g = [k \in Nat |-> Body(g, k)]
  <2>1. ASSUME NEW k \in Nat PROVE g[k] = Body(g, k)
    <3>1. k # 0 => g[k - 1] \in Nat
      OBVIOUS
    <3> HIDE DEF step
    <3>2. QED
      BY <1>1, <1>2, <3>1 DEF Steps
  <2> HIDE DEF Body
  <2>2. QED
    BY <2>1
<1>4. Doubled = CHOOSE f : f = [k \in Nat |-> Body(f, k)]
  BY DEF Doubled
<1>5. Doubled = [k \in Nat |-> Body(Doubled, k)]
  <2> HIDE DEF Body
  <2> QED
    BY <1>3, <1>4
<1>6. \A k \in Nat : Doubled[k] = IF k = 0 THEN 1 ELSE 2 * Doubled[k - 1]
  <2>1. \A k \in Nat : Doubled[k] = Body(Doubled, k)
    <3> HIDE DEF Body
    <3> QED
      BY <1>5
  <2>2. QED
    BY <2>1
<1>7. Doubled[0] = 1 /\ \A k \in Nat : Doubled[k + 1] = 2 * Doubled[k]
  BY <1>6
<1> DEFINE P == {k \in Nat : Doubled[k] \in Nat \ {0}}
<1>8. Nat = P
  <2>1. ASSUME NEW k \in Nat, \A l \in Nat : l < k => l \in P PROVE k \in P
    <3>1. CASE k = 0
      BY <1>7, <3>1
    <3>2. CASE k # 0
      <4>1. k - 1 \in P /\ Doubled[k] = 2 * Doubled[k - 1]
        BY <1>6, <2>1, <3>2
      <4>2. QED
        BY <4>1
    <3>3. QED
      BY <3>1, <3>2
  <2> HIDE DEF P
  <2>2. P \in SUBSET Nat
    BY DEF P
  <2>3. QED
    BY <2>1, <2>2, Induction
<1>9. ASSUME NEW k \in Nat PROVE Doubled[k] \in Nat \ {0}
  <2>1. k \in P
    BY <1>8
  <2>2. QED
    BY <2>1
<1> HIDE DEF P
<1>10. QED
  BY <1>7, <1>9

\* The steps between floats: positive, and no larger than the number.
LEMMA StepIs ==
    \A n \in Nat : /\ Step[n] \in Nat \ {0}
                   /\ n < Precision => Step[n] = 1
                   /\ n >= Precision => Step[n] = 2 * Step[n \div 2]
                   /\ n # 0 => Step[n] <= n
<1> USE FloatsAssumption
<1> DEFINE Body(h, n) == IF n < Precision THEN 1 ELSE 2 * h[n \div 2]
           Stop == 0..(Precision - 1)
           a == [n \in Nat |-> 1]
           next == [n \in Nat |-> n \div 2]
           step == [p \in Nat \X Nat |-> 2 * p[2]]
           m == [n \in Nat |-> n]
<1>0. \A n \in Nat : n \div 2 \in Nat /\ (n >= Precision => n \div 2 < n /\ 2 * (n \div 2) <= n
                                                             /\ n \div 2 # 0)
  OBVIOUS
<1>1. \A k \in Nat : \A y \in Nat : step[<<k, y>>] = 2 * y /\ step[<<k, y>>] \in Nat
  OBVIOUS
<1>2. Descent(Nat, Nat, Stop, a, next, step, m)
  <2>1. Stop \in SUBSET Nat /\ \A x \in Stop : a[x] \in Nat
    OBVIOUS
  <2>2. \A x \in Nat : m[x] \in Nat
    OBVIOUS
  <2>3. ASSUME NEW x \in Nat \ Stop PROVE next[x] \in Nat /\ m[next[x]] < m[x]
    BY <1>0
  <2>4. \A x \in Nat \ Stop : \A y \in Nat : step[<<x, y>>] \in Nat
    BY <1>1
  <2> HIDE DEF Stop, a, next, step, m
  <2>5. QED
    BY <2>1, <2>2, <2>3, <2>4 DEF Descent
<1>3. PICK g \in [Nat -> Nat] : Descends(g, Nat, Stop, a, next, step)
  <2> HIDE DEF Stop, a, next, step, m
  <2> QED
    BY <1>2, DescentSolved
<1>4. g = [n \in Nat |-> Body(g, n)]
  <2>1. ASSUME NEW n \in Nat PROVE g[n] = Body(g, n)
    <3>1. g[n \div 2] \in Nat /\ next[n] = n \div 2 /\ a[n] = 1
      BY <1>0
    <3>2. n \in Stop <=> n < Precision
      OBVIOUS
    <3>3. g[n] = IF n \in Stop THEN a[n] ELSE step[<<n, g[next[n]]>>]
      <4> HIDE DEF Stop, a, next, step
      <4> QED
        BY <1>3 DEF Descends
    <3> HIDE DEF step, Stop, a, next
    <3>4. QED
      BY <1>1, <3>1, <3>2, <3>3
  <2> HIDE DEF Body
  <2>2. QED
    BY <2>1
<1> HIDE DEF Stop, a, next, step, m
<1>5. Step = CHOOSE f : f = [n \in Nat |-> Body(f, n)]
  BY DEF Step
<1>6. Step = [n \in Nat |-> Body(Step, n)]
  <2> HIDE DEF Body
  <2> QED
    BY <1>4, <1>5
<1>7. \A n \in Nat : Step[n] = IF n < Precision THEN 1 ELSE 2 * Step[n \div 2]
  <2>1. \A n \in Nat : Step[n] = Body(Step, n)
    <3> HIDE DEF Body
    <3> QED
      BY <1>6
  <2>2. QED
    BY <2>1
<1> DEFINE P == {n \in Nat : Step[n] \in Nat \ {0} /\ (n # 0 => Step[n] <= n)}
<1>8. Nat = P
  <2>1. ASSUME NEW n \in Nat, \A l \in Nat : l < n => l \in P PROVE n \in P
    <3>1. CASE n < Precision
      BY <1>7, <3>1
    <3>2. CASE n >= Precision
      <4>1. n \div 2 \in P /\ Step[n] = 2 * Step[n \div 2]
        BY <1>0, <1>7, <2>1, <3>2
      <4>2. Step[n \div 2] \in Nat \ {0} /\ Step[n \div 2] <= n \div 2
        BY <1>0, <3>2, <4>1
      <4>3. QED
        BY <1>0, <3>2, <4>1, <4>2
    <3>3. QED
      BY <3>1, <3>2
  <2> HIDE DEF P
  <2>2. P \in SUBSET Nat
    BY DEF P
  <2>3. QED
    BY <2>1, <2>2, Induction
<1>9. ASSUME NEW n \in Nat
      PROVE  /\ Step[n] \in Nat \ {0}
             /\ n < Precision => Step[n] = 1
             /\ n >= Precision => Step[n] = 2 * Step[n \div 2]
             /\ n # 0 => Step[n] <= n
  <2>1. n \in P
    BY <1>8
  <2>2. QED
    BY <1>7, <2>1
<1>10. QED
  BY <1>9

\* A few multiples of a power of two are multiples of the step at their size.
LEMMA StepDivides ==
    ASSUME NEW n \in Nat, n < Precision
    PROVE  \A k \in Nat : \E j \in Nat : Doubled[k] = j * Step[n * Doubled[k]]
<1> USE FloatsAssumption
<1> DEFINE P == {k \in Nat : \E j \in Nat : Doubled[k] = j * Step[n * Doubled[k]]}
<1>1. ASSUME NEW k \in Nat, \A l \in Nat : l < k => l \in P PROVE k \in P
  <2>1. Doubled[k] \in Nat \ {0} /\ n * Doubled[k] \in Nat
    BY DoubledIs
  <2>2. CASE n * Doubled[k] < Precision
    <3>1. Step[n * Doubled[k]] = 1
      BY <2>1, <2>2, StepIs
    <3>2. Doubled[k] = Doubled[k] * Step[n * Doubled[k]] /\ Doubled[k] \in Nat
      BY <2>1, <3>1
    <3>3. QED
      BY <3>2
  <2>3. CASE n * Doubled[k] >= Precision
    <3>1. k # 0
      <4> SUFFICES ASSUME k = 0 PROVE FALSE
        OBVIOUS
      <4>1. n * Doubled[k] = n
        BY DoubledIs
      <4>2. QED
        BY <2>3, <4>1
    <3> DEFINE l == k - 1
               u == Doubled[l]
    <3>2. l \in Nat /\ l < k /\ k = l + 1
      BY <3>1
    <3>3. Doubled[k] = 2 * u /\ u \in Nat \ {0}
      <4> HIDE DEF l
      <4> QED
        BY <3>2, DoubledIs
    <3>4. PICK j \in Nat : u = j * Step[n * u]
      BY <1>1, <3>2
    <3> HIDE DEF l, u
    <3>5. n * u \in Nat /\ n * Doubled[k] = 2 * (n * u)
      BY <3>3
    <3>6. (2 * (n * u)) \div 2 = n * u
      <4> DEFINE w == n * u
      <4>1. w \in Nat
        BY <3>5
      <4> HIDE DEF w
      <4>2. (2 * w) \div 2 = w
        BY <4>1
      <4>3. QED
        BY <4>2 DEF w
    <3>7. Step[n * Doubled[k]] = 2 * Step[n * u] /\ Step[n * u] \in Nat
      <4>1. Step[n * Doubled[k]] = 2 * Step[(n * Doubled[k]) \div 2]
        BY <2>1, <2>3, StepIs
      <4>2. (n * Doubled[k]) \div 2 = n * u
        BY <3>5, <3>6
      <4>3. QED
        BY <3>5, <4>1, <4>2, StepIs
    <3>8. Doubled[k] = j * Step[n * Doubled[k]]
      <4> DEFINE s == Step[n * u]
      <4>1. s \in Nat /\ u = j * s /\ Doubled[k] = 2 * u
        BY <3>3, <3>4, <3>7
      <4> HIDE DEF s
      <4>2. 2 * u = j * (2 * s)
        BY <4>1
      <4>3. QED
        BY <3>7, <4>1, <4>2 DEF s
    <3>9. QED
      BY <3>8
  <2>4. QED
    BY <2>1, <2>2, <2>3
<1>2. Nat = P
  <2> HIDE DEF P
  <2>1. P \in SUBSET Nat
    BY DEF P
  <2>2. QED
    BY <1>1, <2>1, Induction
<1>3. QED
  BY <1>2

\* The nearest whole number is within 1 of the quotient, is it when it is whole, and lies on
\* the same side of zero when the quotient is not small.
LEMMA NearestIs ==
    ASSUME NEW num \in Int, NEW den \in Nat \ {0}
    PROVE  /\ Nearest(num, den) \in Int
           /\ den * Nearest(num, den) - num \in -den..den
           /\ \A j \in Int : num = den * j => Nearest(num, den) = j
           /\ num >= den => Nearest(num, den) >= 1
           /\ num <= -den => Nearest(num, den) <= -1
<1> DEFINE q == num \div den
           r == num % den
<1>1. q \in Int /\ r \in 0..(den - 1) /\ num = den * q + r
  BY DivModInt
<1>2. \/ Nearest(num, den) = q
      \/ Nearest(num, den) = q + 1 /\ r # 0
  <2> HIDE DEF q
  <2>1. Nearest(num, den) = IF 2 * r > den \/ (2 * r = den /\ q % 2 = 1) THEN q + 1 ELSE q
    BY DEF Nearest, q
  <2>2. r = 0 => ~(2 * r > den) /\ 2 * r # den
    BY <1>1
  <2> HIDE DEF r
  <2>3. QED
    BY <2>1, <2>2
<1> HIDE DEF q, r
<1>3. den * (q + 1) = den * q + den
  BY <1>1
<1>4. Nearest(num, den) \in Int /\ den * Nearest(num, den) - num \in -den..den
  <2>1. CASE Nearest(num, den) = q
    <3>1. den * q - num = -r /\ -r \in -den..den
      BY <1>1
    <3>2. QED
      BY <1>1, <2>1, <3>1
  <2>2. CASE Nearest(num, den) = q + 1
    <3>1. den * (q + 1) - num = den - r /\ den - r \in -den..den
      BY <1>1, <1>3
    <3>2. QED
      BY <1>1, <2>2, <3>1
  <2>3. QED
    BY <1>2, <2>1, <2>2
<1>5. ASSUME NEW j \in Int, num = den * j PROVE Nearest(num, den) = j
  <2>1. num = den * j + 0 /\ 0 \in 0..(den - 1)
    BY <1>5
  <2>2. num \div den = j /\ num % den = 0
    BY <2>1, QuotientIs
  <2>3. QED
    BY <1>2, <2>2 DEF q, r
<1>6. num >= den => Nearest(num, den) >= 1
  <2>1. SUFFICES ASSUME num >= den, q <= 0 PROVE FALSE
    BY <1>1, <1>2
  <2>2. den * q <= 0
    BY <1>1, <2>1
  <2>3. QED
    BY <1>1, <2>1, <2>2
<1>7. num <= -den => Nearest(num, den) <= -1
  <2>1. SUFFICES ASSUME num <= -den, q >= -1, q = -1 => r # 0 PROVE FALSE
    BY <1>1, <1>2
  <2>2. CASE q >= 0
    <3>1. den * q >= 0
      BY <1>1, <2>2
    <3>2. QED
      BY <1>1, <2>1, <3>1
  <2>3. CASE q = -1
    <3>1. den * q = -den
      BY <2>3
    <3>2. QED
      BY <1>1, <2>1, <2>3, <3>1
  <2>4. QED
    BY <1>1, <2>1, <2>2, <2>3
<1>8. QED
  BY <1>4, <1>5, <1>6, <1>7

\* The absolute value.
LEMMA AbsIs ==
    ASSUME NEW n \in Int
    PROVE  Abs(n) \in Nat /\ (Abs(n) = n \/ Abs(n) = -n) /\ (n # 0 => Abs(n) # 0)
           /\ n <= Abs(n) /\ -n <= Abs(n)
BY DEF Abs

\* The distance of floats is a positive whole number.
LEMMA SpacingIs ==
    ASSUME NEW num \in Int, NEW den \in Nat \ {0}
    PROVE  Spacing(num, den) \in Nat \ {0} /\ den * Spacing(num, den) \in Nat \ {0}
<1>1. Abs(num) \in Nat
  BY AbsIs
<1>2. Abs(num) \div den \in Nat
  BY <1>1, DivMod
<1>3. Spacing(num, den) \in Nat \ {0}
  BY <1>2, StepIs DEF Spacing
<1> DEFINE s == Spacing(num, den)
<1>4. s \in Nat \ {0}
  BY <1>3
<1> HIDE DEF s
<1>5. den * s \in Nat \ {0}
  BY <1>4
<1>6. QED
  BY <1>4, <1>5 DEF s

\* A rounded quotient is off by one distance of floats at most.
LEMMA RoundIs ==
    ASSUME NEW num \in Int, NEW den \in Nat \ {0}
    PROVE  LET w == den * Spacing(num, den)
           IN  Round(num, den) \in Int /\ den * Round(num, den) - num \in -w..w
<1> DEFINE s == Spacing(num, den)
           w == den * s
           k == Nearest(num, w)
<1>1. s \in Nat \ {0} /\ w \in Nat \ {0}
  BY SpacingIs
<1>2. Round(num, den) = s * k
  BY DEF Round
<1>3. k \in Int /\ w * k - num \in -w..w
  <2> HIDE DEF w
  <2> QED
    BY <1>1, NearestIs
<1> HIDE DEF s, k
<1>4. s * k \in Int /\ den * (s * k) = w * k
  BY <1>1, <1>3
<1>5. QED
  BY <1>2, <1>3, <1>4 DEF s

\* Rounding keeps the sign of a whole number.
LEMMA RoundSign ==
    ASSUME NEW n \in Int
    PROVE  /\ Round(n, 1) \in Int
           /\ n > 0 => Round(n, 1) > 0
           /\ n = 0 => Round(n, 1) = 0
           /\ n < 0 => Round(n, 1) < 0
<1> DEFINE s == Spacing(n, 1)
           k == Nearest(n, 1 * s)
<1>1. Abs(n) \in Nat /\ Abs(n) \div 1 = Abs(n)
  BY AbsIs
<1>2. s = Step[Abs(n)]
  BY <1>1 DEF Spacing
<1>3. s \in Nat \ {0} /\ (n # 0 => s <= Abs(n))
  BY <1>1, <1>2, StepIs, AbsIs
<1>4. Round(n, 1) = s * k
  BY DEF Round
<1> HIDE DEF s
<1>5. 1 * s = s
  BY <1>3
<1>6. /\ k \in Int
      /\ \A j \in Int : n = s * j => k = j
      /\ n >= s => k >= 1
      /\ n <= -s => k <= -1
  BY <1>3, <1>5, NearestIs
<1> HIDE DEF k
<1>7. n > 0 => n >= s
  BY <1>3 DEF Abs
<1>8. n < 0 => n <= -s
  BY <1>3 DEF Abs
<1>9. n = 0 => k = 0
  <2>1. s * 0 = 0
    BY <1>3
  <2>2. QED
    BY <1>6, <2>1
<1>10. (k >= 1 => s * k > 0) /\ (k <= -1 => s * k < 0) /\ (k = 0 => s * k = 0) /\ s * k \in Int
  BY <1>3, <1>6
<1>11. QED
  BY <1>4, <1>6, <1>7, <1>8, <1>9, <1>10

\* What is a multiple of the step at its size is a float: rounding gives it back.
LEMMA RoundExact ==
    ASSUME NEW k \in Int, NEW den \in Nat \ {0}, NEW j \in Int, k = Step[Abs(k)] * j
    PROVE  Round(k * den, den) = k /\ Around(k * den, den) = {k}
<1> DEFINE s == Step[Abs(k)]
           w == den * s
<1>1. Abs(k) \in Nat /\ Abs(k * den) = den * Abs(k) /\ k * den \in Int
  <2>1. k * den \in Int /\ (k < 0 <=> k * den < 0) /\ -(k * den) = den * (-k) /\ k * den = den * k
    OBVIOUS
  <2>2. QED
    BY <2>1, AbsIs DEF Abs
<1>2. Abs(k * den) \div den = Abs(k)
  <2>1. 0 \in 0..(den - 1) /\ Abs(k * den) = den * Abs(k) + 0 /\ Abs(k * den) \in Int
    <3> DEFINE a == Abs(k)
    <3>1. a \in Nat
      BY <1>1
    <3> HIDE DEF a
    <3>2. den * a \in Int /\ den * a = den * a + 0
      BY <3>1
    <3>3. QED
      BY <1>1, <3>2 DEF a
  <2> DEFINE num == Abs(k * den)
             v == Abs(k)
  <2>2. num \in Int /\ v \in Int /\ num = den * v + 0 /\ 0 \in 0..(den - 1)
    BY <1>1, <2>1
  <2> HIDE DEF num, v
  <2>3. num \div den = v
    BY <2>2, QuotientIs
  <2>4. QED
    BY <2>3 DEF num, v
<1>3. Spacing(k * den, den) = s
  BY <1>2 DEF Spacing
<1>4. s \in Nat \ {0} /\ w \in Nat \ {0} /\ k = s * j
  <2>1. s \in Nat \ {0}
    BY <1>1, StepIs
  <2> HIDE DEF s
  <2>2. w \in Nat \ {0}
    BY <2>1
  <2>3. QED
    BY <2>1, <2>2 DEF s
<1> HIDE DEF s
<1>5. k * den = w * j
  BY <1>4
<1>6. Round(k * den, den) = s * Nearest(k * den, w)
  BY <1>3 DEF Round
<1>7. w * j = w * j + 0 /\ 0 \in 0..(w - 1)
  BY <1>4
<1>8. Nearest(k * den, w) = j /\ (k * den) \div w = j
  <2> HIDE DEF w
  <2>1. Nearest(k * den, w) = j
    BY <1>1, <1>4, <1>5, NearestIs
  <2> DEFINE num == k * den
  <2>2. num \in Int /\ num = w * j + 0 /\ 0 \in 0..(w - 1)
    BY <1>1, <1>5, <1>7
  <2> HIDE DEF num
  <2>3. num \div w = j
    BY <1>4, <2>2, QuotientIs
  <2>4. QED
    BY <2>1, <2>3 DEF num
<1>9. Around(k * den, den) = {x \in {s * j, s * (j + 1)} : Abs(den * x - k * den) < w}
  BY <1>3, <1>8 DEF Around
<1>10. s * (j + 1) = k + s /\ s * j = k
  BY <1>4
<1>11. den * k - k * den = 0 /\ den * (k + s) - k * den = w
  BY <1>4
<1>12. Abs(0) = 0 /\ Abs(w) = w
  BY <1>4 DEF Abs
<1>13. k + s # k
  BY <1>4
<1> HIDE DEF w
<1>14. QED
  BY <1>4, <1>6, <1>8, <1>9, <1>10, <1>11, <1>12, <1>13

\* Whole numbers below Precision are floats.
LEMMA WholeIsFloat ==
    ASSUME NEW m \in Int, Abs(m) < Precision, NEW den \in Nat \ {0}
    PROVE  /\ Unit \in Nat \ {0}
           /\ Round((m * Unit) * den, den) = m * Unit
           /\ Around((m * Unit) * den, den) = {m * Unit}
<1>1. Unit \in Nat \ {0}
  BY FloatsAssumption, DoubledIs DEF Unit
<1>2. Abs(m) \in Nat
  BY AbsIs
<1>3. PICK j \in Nat : Unit = j * Step[Abs(m) * Unit]
  BY <1>2, StepDivides, FloatsAssumption DEF Unit
<1>4. Abs(m * Unit) = Abs(m) * Unit /\ m * Unit \in Int /\ Abs(m * Unit) \in Nat
  <2>1. m * Unit \in Int /\ (m < 0 <=> m * Unit < 0) /\ -(m * Unit) = (-m) * Unit
    BY <1>1
  <2>2. QED
    BY <2>1, AbsIs DEF Abs
<1> DEFINE s == Step[Abs(m * Unit)]
<1>5. s \in Nat /\ Unit = j * s
  BY <1>3, <1>4, StepIs
<1> HIDE DEF s
<1>6. m * Unit = s * (j * m) /\ j * m \in Int
  BY <1>5
<1>7. QED
  BY <1>1, <1>4, <1>6, RoundExact DEF s

----------------------------------------------------------------------------
(* Adding up the terms. *)

\* The sum of a sequence is its first number and the sum of the rest.
LEMMA SumFunctionHead ==
    ASSUME NEW n \in Nat, NEW f, NEW h, DOMAIN f = 1..(n + 1), DOMAIN h = 1..n,
           \A i \in 1..(n + 1) : f[i] \in Int, \A i \in 1..n : h[i] = f[i + 1]
    PROVE  SumFunction(h) \in Int /\ SumFunction(f) = f[1] + SumFunction(h)
<1> DEFINE S == 1..n
           T == {i + 1 : i \in S}
<1>1. S \in SUBSET Int /\ IsFiniteSet(S)
  BY FS_Interval
<1>2. \A i \in S : f[i + 1] \in Int /\ h[i] = f[i + 1]
  OBVIOUS
<1>3. T \cup {1} = 1..(n + 1) /\ 1 \notin T
  <2>1. \A i \in 2..(n + 1) : i - 1 \in S /\ i = (i - 1) + 1
    OBVIOUS
  <2>2. \A i \in 2..(n + 1) : i \in T
    BY <2>1
  <2>3. \A i \in 1..(n + 1) : i = 1 \/ i \in 2..(n + 1)
    OBVIOUS
  <2>4. 1..(n + 1) \subseteq T \cup {1}
    BY <2>2, <2>3
  <2>5. T \cup {1} \subseteq 1..(n + 1) /\ 1 \notin T
    OBVIOUS
  <2>6. QED
    BY <2>4, <2>5
<1>4. IsFiniteSet(T)
  <2> DEFINE up == [i \in S |-> i + 1]
  <2>1. up \in Surjection(S, T)
    BY DEF Surjection
  <2>2. QED
    BY <1>1, <2>1, FS_Surjection
<1>5. \A y \in T \cup {1} : f[y] \in Int
  BY <1>3
<1>6. SumFunctionOnSet(f, T) = SumFunctionOnSet(h, S)
  <2> HIDE DEF S
  <2> QED
    BY <1>1, <1>2, SumShifted
<1>7. SumFunctionOnSet(h, S) \in Int
  <2> HIDE DEF S
  <2> QED
    BY <1>1, <1>2, SumSame
<1> HIDE DEF T
<1>8. SumFunctionOnSet(f, T \cup {1}) = SumFunctionOnSet(f, T) + f[1]
  BY <1>3, <1>4, <1>5, SumAdd
<1>9. SumFunctionOnSet(f, T \cup {1}) = SumFunctionOnSet(f, 1..(n + 1))
  BY <1>3, Zenon
<1>10. SumFunction(f) = SumFunctionOnSet(f, 1..(n + 1)) /\ SumFunction(h) = SumFunctionOnSet(h, S)
  BY DEF SumFunction
<1>11. f[1] \in Int
  OBVIOUS
<1> HIDE DEF S
<1>12. QED
  BY <1>6, <1>7, <1>8, <1>9, <1>10, <1>11

\* Terms with any coefficient.
AnyTerms == [coeff : Int, power : Powers]

\* Terms without a negative one.
SizeTerms == [coeff : Nat, power : Powers]

LEMMA MoreSequences == ASSUME NEW A, NEW B, A \subseteq B PROVE Seq(A) \subseteq Seq(B)
  OBVIOUS

LEMMA SameSequence ==
    ASSUME NEW A, NEW s \in Seq(A), NEW t \in Seq(A), Len(s) = Len(t),
           \A i \in 1..Len(s) : s[i] = t[i]
    PROVE  s = t
  OBVIOUS

LEMMA SizeTermsAreAny == Seq(SizeTerms) \subseteq Seq(AnyTerms)
<1>1. SizeTerms \subseteq AnyTerms
  BY DEF SizeTerms, AnyTerms
<1>2. QED
  BY <1>1, MoreSequences

LEMMA RestOfTerms ==
    ASSUME NEW A, NEW side \in Seq(A), side # <<>>
    PROVE  /\ Head(side) \in A /\ Tail(side) \in Seq(A) /\ Len(side) \in Nat \ {0}
           /\ Len(Tail(side)) = Len(side) - 1 /\ Head(side) = side[1]
           /\ \A i \in 1..(Len(side) - 1) : Tail(side)[i] = side[i + 1]
  OBVIOUS

LEMMA TermsAreAny == Seq(Terms) \subseteq Seq(AnyTerms)
<1>1. Terms \subseteq AnyTerms
  BY TermsAssumption DEF Terms, AnyTerms
<1>2. QED
  BY <1>1

\* Reading a term takes its coefficient out of the total of what is left.
LEMMA TotalStep ==
    ASSUME NEW side \in Seq(AnyTerms), side # <<>>, NEW p \in Powers
    PROVE  /\ Total(Tail(side), p) \in Int
           /\ Total(side, p) = Total(Tail(side), p)
                  + (IF Head(side).power = p THEN Head(side).coeff ELSE 0)
<1> DEFINE n == Len(side) - 1
           f == [i \in 1..Len(side) |-> IF side[i].power = p THEN side[i].coeff ELSE 0]
           t == Tail(side)
           h == [i \in 1..Len(t) |-> IF t[i].power = p THEN t[i].coeff ELSE 0]
<1>1. /\ n \in Nat /\ Len(side) = n + 1 /\ Len(t) = n /\ Head(side) = side[1]
      /\ \A i \in 1..n : t[i] = side[i + 1]
  OBVIOUS
<1>2. \A i \in 1..(n + 1) : f[i] \in Int
  <2>1. \A i \in 1..(n + 1) : side[i] \in AnyTerms
    BY <1>1
  <2>2. \A i \in 1..(n + 1) : side[i].coeff \in Int
    BY <2>1 DEF AnyTerms
  <2>4. \A i \in 1..(n + 1) : f[i] = IF side[i].power = p THEN side[i].coeff ELSE 0
    BY <1>1
  <2>5. QED
    BY <2>2, <2>4
<1>3. DOMAIN f = 1..(n + 1) /\ DOMAIN h = 1..n /\ \A i \in 1..n : h[i] = f[i + 1]
  BY <1>1
<1>4. f[1] = IF Head(side).power = p THEN Head(side).coeff ELSE 0
  BY <1>1
<1>5. Total(side, p) = SumFunction(f) /\ Total(t, p) = SumFunction(h)
  BY DEF Total
<1>6. f[1] \in Int
  BY <1>1, <1>2
<1> HIDE DEF n, f, h, t
<1>7. SumFunction(h) \in Int /\ SumFunction(f) = f[1] + SumFunction(h)
  BY <1>1, <1>2, <1>3, SumFunctionHead, SMTT(30)
<1>8. QED
  BY <1>4, <1>5, <1>6, <1>7 DEF t

\* A side without terms adds up to nothing.
LEMMA TotalEmpty == ASSUME NEW p PROVE Total(<<>>, p) = 0
<1> DEFINE f == [i \in 1..Len(<<>>) |-> IF <<>>[i].power = p THEN <<>>[i].coeff ELSE 0]
<1>1. DOMAIN f = {}
  OBVIOUS
<1>2. Total(<<>>, p) = SumFunction(f)
  BY DEF Total
<1> HIDE DEF f
<1>3. QED
  BY <1>1, <1>2, SumEmpty DEF SumFunction

\* The total of a side is an integer.
LEMMA TotalTyped ==
    ASSUME NEW side \in Seq(AnyTerms), NEW p \in Powers PROVE Total(side, p) \in Int
<1>1. CASE side = <<>>
  BY <1>1, TotalEmpty
<1>2. CASE side # <<>>
  <2>1. Head(side) \in AnyTerms
    BY <1>2
  <2>2. Head(side).coeff \in Int
    BY <2>1 DEF AnyTerms
  <2> DEFINE c == IF Head(side).power = p THEN Head(side).coeff ELSE 0
  <2>3. c \in Int
    BY <2>2
  <2>4. Total(Tail(side), p) \in Int /\ Total(side, p) = Total(Tail(side), p) + c
    BY <1>2, TotalStep
  <2> HIDE DEF c
  <2>5. QED
    BY <2>3, <2>4
<1>3. QED
  BY <1>1, <1>2

\* Without negative coefficients no total is negative.
LEMMA TotalNotNegative ==
    ASSUME NEW p \in Powers
    PROVE  \A side \in Seq(SizeTerms) : Total(side, p) \in Nat
<1> DEFINE P == {n \in Nat : \A side \in Seq(SizeTerms) : Len(side) = n => Total(side, p) \in Nat}
<1>1. Seq(SizeTerms) \subseteq Seq(AnyTerms)
  BY SizeTermsAreAny
<1>2. ASSUME NEW n \in Nat, \A l \in Nat : l < n => l \in P PROVE n \in P
  <2> SUFFICES ASSUME NEW side \in Seq(SizeTerms), Len(side) = n PROVE Total(side, p) \in Nat
    OBVIOUS
  <2>1. CASE side = <<>>
    BY <2>1, TotalEmpty
  <2>2. CASE side # <<>>
    <3>1. /\ Head(side) \in SizeTerms /\ Tail(side) \in Seq(SizeTerms)
          /\ Len(Tail(side)) = n - 1 /\ n - 1 \in Nat
      BY <2>2, RestOfTerms
    <3>2. Total(Tail(side), p) \in Nat
      <4>1. n - 1 \in P
        BY <1>2, <3>1
      <4>2. QED
        BY <3>1, <4>1
    <3> DEFINE c == IF Head(side).power = p THEN Head(side).coeff ELSE 0
    <3>3. c \in Nat
      BY <3>1 DEF SizeTerms
    <3>4. Total(side, p) = Total(Tail(side), p) + c
      BY <1>1, <2>2, TotalStep
    <3> HIDE DEF c
    <3>5. QED
      BY <3>2, <3>3, <3>4
  <2>3. QED
    BY <2>1, <2>2
<1>3. Nat = P
  <2> HIDE DEF P
  <2>1. P \in SUBSET Nat
    BY DEF P
  <2>2. QED
    BY <1>2, <2>1, Induction
<1>4. ASSUME NEW side \in Seq(SizeTerms) PROVE Total(side, p) \in Nat
  <2>1. Len(side) \in Nat
    OBVIOUS
  <2> HIDE DEF P
  <2>2. Len(side) \in P
    BY <1>3, <2>1
  <2>3. QED
    BY <2>2 DEF P
<1>5. QED
  BY <1>4

\* Reading a term takes its size out of the total of sizes.
LEMMA SizesStep ==
    ASSUME NEW side \in Seq(AnyTerms), NEW p \in Powers
    PROVE  /\ Total(Sizes(side), p) \in Nat
           /\ side # <<>> =>
                /\ Total(Sizes(Tail(side)), p) \in Nat
                /\ Total(Sizes(side), p) = Total(Sizes(Tail(side)), p)
                      + (IF Head(side).power = p THEN Abs(Head(side).coeff) ELSE 0)
<1>1. \A u \in AnyTerms : [u EXCEPT !.coeff = Abs(@)] = [coeff |-> Abs(u.coeff), power |-> u.power]
  BY DEF AnyTerms
<1>2. \A u \in AnyTerms : Abs(u.coeff) \in Nat /\ u.power \in Powers
  BY DEF AnyTerms, Abs
<1>3. \A s \in Seq(AnyTerms) :
          Sizes(s) = [i \in 1..Len(s) |-> [coeff |-> Abs(s[i].coeff), power |-> s[i].power]]
  BY <1>1 DEF Sizes
<1>4. \A s \in Seq(AnyTerms) : Sizes(s) \in Seq(SizeTerms) /\ Len(Sizes(s)) = Len(s)
  <2> SUFFICES ASSUME NEW s \in Seq(AnyTerms) PROVE Sizes(s) \in Seq(SizeTerms) /\ Len(Sizes(s)) = Len(s)
    OBVIOUS
  <2>1. \A i \in 1..Len(s) : [coeff |-> Abs(s[i].coeff), power |-> s[i].power] \in SizeTerms
    BY <1>2 DEF SizeTerms
  <2> DEFINE e == [i \in 1..Len(s) |-> [coeff |-> Abs(s[i].coeff), power |-> s[i].power]]
  <2>2. \A i \in 1..Len(s) : e[i] \in SizeTerms
    BY <2>1
  <2>3. Sizes(s) = e /\ e = [i \in 1..Len(s) |-> e[i]] /\ Len(s) \in Nat
    BY <1>3
  <2> HIDE DEF e
  <2>4. e \in [1..Len(s) -> SizeTerms]
    BY <2>2, <2>3
  <2>5. QED
    BY <2>3, <2>4
<1>5. Total(Sizes(side), p) \in Nat
  BY <1>4, TotalNotNegative
<1>6. ASSUME side # <<>>
      PROVE  /\ Total(Sizes(Tail(side)), p) \in Nat
             /\ Total(Sizes(side), p) = Total(Sizes(Tail(side)), p)
                      + (IF Head(side).power = p THEN Abs(Head(side).coeff) ELSE 0)
  <2>1. Tail(side) \in Seq(AnyTerms) /\ Len(side) \in Nat \ {0} /\ Head(side) = side[1]
    BY <1>6
  <2>2. Total(Sizes(Tail(side)), p) \in Nat
    BY <1>4, <2>1, TotalNotNegative
  <2>3. Sizes(side) # <<>> /\ Sizes(side) \in Seq(AnyTerms)
    <3>1. Len(Sizes(side)) # 0
      BY <1>4, <2>1
    <3>2. QED
      BY <1>4, <3>1, SizeTermsAreAny
  <2>4. Head(Sizes(side)) = [coeff |-> Abs(Head(side).coeff), power |-> Head(side).power]
    <3>1. Head(Sizes(side)) = Sizes(side)[1]
      BY <2>3
    <3>2. QED
      BY <1>3, <2>1, <3>1
  <2>5. Tail(Sizes(side)) = Sizes(Tail(side))
    <3>1. Len(Tail(side)) = Len(side) - 1 /\ \A i \in 1..(Len(side) - 1) : Tail(side)[i] = side[i + 1]
      BY <1>6
    <3> DEFINE t == Tail(side)
               y == Sizes(t)
               z == Tail(Sizes(side))
               e(i) == [coeff |-> Abs(side[i + 1].coeff), power |-> side[i + 1].power]
    <3>2. /\ z \in Seq(AnyTerms) /\ Len(z) = Len(side) - 1
          /\ \A i \in 1..(Len(side) - 1) : z[i] = Sizes(side)[i + 1]
      BY <1>4, <2>3, RestOfTerms
    <3>3. y \in Seq(AnyTerms) /\ Len(y) = Len(side) - 1
      BY <1>4, <2>1, <3>1, SizeTermsAreAny
    <3>4. \A i \in 1..(Len(side) - 1) : Sizes(side)[i + 1] = e(i)
      BY <1>3, <2>1
    <3>5. \A i \in 1..Len(t) : y[i] = [coeff |-> Abs(t[i].coeff), power |-> t[i].power]
      BY <1>3, <2>1
    <3>6. \A i \in 1..(Len(side) - 1) : y[i] = e(i)
      BY <3>1, <3>5
    <3> HIDE DEF y, z, e
    <3>7. y = z
      BY <3>2, <3>3, <3>4, <3>6, SameSequence
    <3>8. QED
      BY <3>7 DEF y, z
  <2>6. Total(Sizes(side), p) = Total(Tail(Sizes(side)), p)
            + (IF Head(Sizes(side)).power = p THEN Head(Sizes(side)).coeff ELSE 0)
    BY <2>3, TotalStep
  <2>7. /\ Head(Sizes(side)).power = Head(side).power
        /\ Head(Sizes(side)).coeff = Abs(Head(side).coeff)
    BY <2>4
  <2> DEFINE x == Total(Sizes(Tail(side)), p)
             y == Total(Sizes(side), p)
  <2>8. x \in Nat /\ y = x + (IF Head(side).power = p THEN Abs(Head(side).coeff) ELSE 0)
    BY <2>2, <2>5, <2>6, <2>7
  <2>9. QED
    BY <2>8
<1>7. QED
  BY <1>5, <1>6

\* A whole coefficient is converted and added without rounding, on either side.
LEMMA WholeTermRead ==
    ASSUME NEW w \in Int, NEW c \in Int, c % Scale = 0, NEW r \in Nat,
           Abs(w) * Scale + (r + Abs(c)) < Precision * Scale
    PROVE  \E d \in Int : /\ c = d * Scale /\ Float(c) = d * Unit
                          /\ Round(w * Unit + Float(c), 1) = (w + d) * Unit
                          /\ Round(w * Unit + (-Float(c)), 1) = (w - d) * Unit
                          /\ Abs(w + d) * Scale + r < Precision * Scale
                          /\ Abs(w - d) * Scale + r < Precision * Scale
<1> USE FloatsAssumption
<1> DEFINE d == c \div Scale
<1>1. d \in Int /\ c = d * Scale
  BY DivModInt
<1> HIDE DEF d
<1>2. Unit \in Nat \ {0}
  BY DoubledIs DEF Unit
<1>3. Abs(c) = Abs(d) * Scale
  <2>1. (c < 0 <=> d < 0) /\ -c = (-d) * Scale
    BY <1>1
  <2>2. QED
    BY <1>1, <2>1 DEF Abs
<1>4. Abs(w) \in Nat /\ Abs(d) \in Nat
  BY <1>1, AbsIs
<1>5. /\ Abs(w + d) <= Abs(w) + Abs(d) /\ Abs(w - d) <= Abs(w) + Abs(d)
      /\ w + d \in Int /\ w - d \in Int /\ Abs(w + d) \in Nat /\ Abs(w - d) \in Nat
  BY <1>1 DEF Abs
<1>6. \A k \in Nat : k <= Abs(w) + Abs(d) => k * Scale + r < Precision * Scale /\ k < Precision
  <2> SUFFICES ASSUME NEW k \in Nat, k <= Abs(w) + Abs(d)
               PROVE  k * Scale + r < Precision * Scale /\ k < Precision
    OBVIOUS
  <2>1. k * Scale <= (Abs(w) + Abs(d)) * Scale
    BY <1>4
  <2>2. (Abs(w) + Abs(d)) * Scale = Abs(w) * Scale + Abs(c)
    BY <1>3, <1>4
  <2>3. k * Scale + r < Precision * Scale
    <3> DEFINE x == k * Scale
               y == Abs(w) * Scale
               z == Precision * Scale
    <3>1. x \in Int /\ y \in Int /\ z \in Int /\ Abs(c) \in Int
      BY <1>4, AbsIs
    <3>2. x <= y + Abs(c) /\ y + (r + Abs(c)) < z
      BY <2>1, <2>2
    <3> HIDE DEF x, y, z
    <3>3. x + r < z
      BY <3>1, <3>2
    <3>4. QED
      BY <3>3 DEF x, z
  <2>4. k < Precision
    <3>1. SUFFICES ASSUME k >= Precision PROVE FALSE
      OBVIOUS
    <3>2. k * Scale >= Precision * Scale
      BY <3>1
    <3>3. QED
      BY <2>3, <3>2
  <2>5. QED
    BY <2>3, <2>4
<1>7. Float(c) = d * Unit
  <2>1. c * Unit = (d * Unit) * Scale
    BY <1>1, <1>2
  <2>2. Abs(d) < Precision
    BY <1>4, <1>6
  <2>3. Round((d * Unit) * Scale, Scale) = d * Unit
    BY <1>1, <2>2, WholeIsFloat
  <2>4. QED
    BY <2>1, <2>3 DEF Float
<1>8. \A m \in Int : Abs(m) < Precision => Round(m * Unit, 1) = m * Unit
  <2> SUFFICES ASSUME NEW m \in Int, Abs(m) < Precision PROVE Round(m * Unit, 1) = m * Unit
    OBVIOUS
  <2>1. (m * Unit) * 1 = m * Unit
    BY <1>2
  <2>2. Round((m * Unit) * 1, 1) = m * Unit
    BY WholeIsFloat
  <2>3. QED
    BY <2>1, <2>2
<1>9. w * Unit + d * Unit = (w + d) * Unit /\ w * Unit + (-(d * Unit)) = (w - d) * Unit
  BY <1>1, <1>2
<1>10. Abs(w + d) < Precision /\ Abs(w - d) < Precision
  BY <1>5, <1>6
<1>11. /\ Round(w * Unit + Float(c), 1) = (w + d) * Unit
       /\ Round(w * Unit + (-Float(c)), 1) = (w - d) * Unit
  BY <1>5, <1>7, <1>8, <1>9, <1>10
<1>12. QED
  BY <1>1, <1>5, <1>6, <1>7, <1>11

\* Adding a term changes the coefficient of its power and of no other.
LEMMA TermAdded ==
    ASSUME NEW poly, DOMAIN poly \subseteq Powers, \A p \in DOMAIN poly : poly[p] \in Int,
           NEW p \in Powers, NEW c \in Int
    PROVE  LET new == AddTerm(poly, p, c)
           IN  /\ DOMAIN new \subseteq Powers
               /\ \A q \in DOMAIN new : new[q] \in Int
               /\ Get(new, p, 0) = Round(Get(poly, p, 0) + c, 1)
               /\ \A q \in Powers \ {p} : Get(new, q, 0) = Get(poly, q, 0)
<1> DEFINE v == Round(Get(poly, p, 0) + c, 1)
<1>1. Get(poly, p, 0) \in Int
  BY DEF Get
<1>2. v \in Int
  BY <1>1, RoundSign
<1>3. AddTerm(poly, p, c) = [q \in DOMAIN poly \cup {p} |-> IF q = p THEN v ELSE poly[q]]
  BY DEF AddTerm
<1> HIDE DEF v
<1>4. LET new == AddTerm(poly, p, c)
      IN  /\ DOMAIN new \subseteq Powers
          /\ \A q \in DOMAIN new : new[q] \in Int
          /\ Get(new, p, 0) = v
          /\ \A q \in Powers \ {p} : Get(new, q, 0) = Get(poly, q, 0)
  BY <1>2, <1>3 DEF Get
<1>5. QED
  BY <1>4 DEF v

\* Conversion gives a whole number of units.
LEMMA FloatTyped == ASSUME NEW c \in Int PROVE Float(c) \in Int
<1>1. Unit \in Nat \ {0} /\ Scale \in Nat \ {0}
  BY FloatsAssumption, DoubledIs DEF Unit
<1>2. c * Unit \in Int
  BY <1>1
<1>3. QED
  BY <1>1, <1>2, RoundIs DEF Float

\* The rest of a side of whole terms is a side of whole terms.
LEMMA WholeRest ==
    ASSUME NEW side \in Seq(AnyTerms), side # <<>>, NEW p, Whole(side, p)
    PROVE  Whole(Tail(side), p) /\ (Head(side).power = p => Head(side).coeff % Scale = 0)
<1>1. /\ Len(side) \in Nat \ {0} /\ Len(Tail(side)) = Len(side) - 1 /\ Head(side) = side[1]
      /\ \A i \in 1..(Len(side) - 1) : Tail(side)[i] = side[i + 1] /\ i + 1 \in 1..Len(side)
  OBVIOUS
<1>2. QED
  BY <1>1 DEF Whole

\* After a term that adds d at power p, on the left or on the right.
TermIsRead(poly, side, p, w, o, d) ==
    /\ Total(Tail(side), p) \in Int
    /\ Total(side, p) = Total(Tail(side), p) + d * Scale
    /\ Whole(Tail(side), p)
    /\ Get(AddTerm(poly, Head(side).power, Float(Head(side).coeff)), p, 0) = (w + d) * Unit
    /\ Get(AddTerm(poly, Head(side).power, -Float(Head(side).coeff)), p, 0) = (w - d) * Unit
    /\ Abs(w + d) * Scale + Total(Sizes(Tail(side)), p) + o < Precision * Scale
    /\ Abs(w - d) * Scale + Total(Sizes(Tail(side)), p) + o < Precision * Scale

\* Reading a term of whole numbers, on either side: what is held and what is left still
\* make up the same, and the sizes of both do not grow.
LEMMA TermRead ==
    ASSUME NEW poly, DOMAIN poly \subseteq Powers, \A q \in DOMAIN poly : poly[q] \in Int,
           NEW side \in Seq(AnyTerms), side # <<>>, NEW p \in Powers, NEW w \in Int, NEW o \in Nat,
           Get(poly, p, 0) = w * Unit, Whole(side, p),
           Abs(w) * Scale + Total(Sizes(side), p) + o < Precision * Scale
    PROVE  \E d \in Int : TermIsRead(poly, side, p, w, o, d)
<1> DEFINE h == Head(side).power
           c == Head(side).coeff
           t == Tail(side)
           m == Total(Sizes(t), p)
           x == Float(c)
<1>1. h \in Powers /\ c \in Int
  <2>1. Head(side) \in AnyTerms
    BY RestOfTerms
  <2>2. QED
    BY <2>1 DEF AnyTerms
<1>2. x \in Int /\ -x \in Int
  <2> HIDE DEF c
  <2>1. Float(c) \in Int
    BY <1>1, FloatTyped
  <2>2. QED
    BY <2>1
<1>3. Total(t, p) \in Int /\ Total(side, p) = Total(t, p) + (IF h = p THEN c ELSE 0)
  BY TotalStep
<1>4. m \in Nat /\ Total(Sizes(side), p) = m + (IF h = p THEN Abs(c) ELSE 0)
  BY SizesStep
<1>5. Whole(t, p) /\ (h = p => c % Scale = 0)
  BY WholeRest
<1>6. \A y \in Int : Get(AddTerm(poly, h, y), h, 0) = Round(Get(poly, h, 0) + y, 1)
  <2> HIDE DEF h
  <2> SUFFICES ASSUME NEW y \in Int
               PROVE  Get(AddTerm(poly, h, y), h, 0) = Round(Get(poly, h, 0) + y, 1)
    OBVIOUS
  <2>1. QED
    BY <1>1, TermAdded
<1>7. \A y \in Int : h # p => Get(AddTerm(poly, h, y), p, 0) = Get(poly, p, 0)
  <2> HIDE DEF h
  <2> SUFFICES ASSUME NEW y \in Int, h # p PROVE Get(AddTerm(poly, h, y), p, 0) = Get(poly, p, 0)
    OBVIOUS
  <2>1. \A q \in Powers \ {h} : Get(AddTerm(poly, h, y), q, 0) = Get(poly, q, 0)
    BY <1>1, TermAdded
  <2>2. QED
    BY <2>1
<1>8. Abs(w) \in Nat /\ Scale \in Nat /\ Precision \in Nat /\ Unit \in Nat
  BY AbsIs, FloatsAssumption, DoubledIs DEF Unit
<1> HIDE DEF h, c, t, m, x
<1>9. CASE h = p
  <2>1. Abs(c) \in Nat
    BY <1>1, AbsIs
  <2>2. Abs(w) * Scale + ((m + o) + Abs(c)) < Precision * Scale /\ m + o \in Nat
    <3> DEFINE k == Abs(w) * Scale
               l == Precision * Scale
    <3>1. k \in Nat /\ l \in Nat /\ k + (m + Abs(c)) + o < l
      BY <1>4, <1>8, <1>9
    <3> HIDE DEF k, l
    <3>2. k + ((m + o) + Abs(c)) < l
      BY <1>4, <2>1, <3>1
    <3>3. QED
      BY <1>4, <3>2 DEF k, l
  <2> DEFINE r == m + o
  <2>3. r \in Nat /\ c % Scale = 0 /\ Abs(w) * Scale + (r + Abs(c)) < Precision * Scale
    BY <1>5, <1>9, <2>2
  <2> HIDE DEF r
  <2>4. PICK d \in Int : /\ c = d * Scale /\ Float(c) = d * Unit
                         /\ Round(w * Unit + Float(c), 1) = (w + d) * Unit
                         /\ Round(w * Unit + (-Float(c)), 1) = (w - d) * Unit
                         /\ Abs(w + d) * Scale + r < Precision * Scale
                         /\ Abs(w - d) * Scale + r < Precision * Scale
    BY <1>1, <2>3, WholeTermRead
  <2>5. /\ Get(AddTerm(poly, h, x), p, 0) = (w + d) * Unit
        /\ Get(AddTerm(poly, h, -x), p, 0) = (w - d) * Unit
    <3>1. /\ Get(AddTerm(poly, h, x), p, 0) = Round(w * Unit + x, 1)
          /\ Get(AddTerm(poly, h, -x), p, 0) = Round(w * Unit + (-x), 1)
      BY <1>2, <1>6, <1>9
    <3>2. QED
      BY <2>4, <3>1 DEF x
  <2>6. /\ Abs(w + d) * Scale + m + o < Precision * Scale
        /\ Abs(w - d) * Scale + m + o < Precision * Scale
    <3> DEFINE k1 == Abs(w + d) * Scale
               k2 == Abs(w - d) * Scale
               l == Precision * Scale
    <3>1. k1 \in Nat /\ k2 \in Nat /\ l \in Nat
      <4>1. Abs(w + d) \in Nat /\ Abs(w - d) \in Nat
        BY DEF Abs
      <4>2. \A e \in Nat : e * Scale \in Nat
        BY <1>8
      <4>3. QED
        BY <1>8, <4>1, <4>2
    <3>2. k1 + r < l /\ k2 + r < l
      BY <2>4
    <3> HIDE DEF k1, k2, l
    <3>3. k1 + m + o < l /\ k2 + m + o < l
      BY <1>4, <3>1, <3>2 DEF r
    <3>4. QED
      BY <3>3 DEF k1, k2, l
  <2>7. Total(side, p) = Total(t, p) + d * Scale
    BY <1>3, <1>9, <2>4
  <2>8. QED
    BY <1>3, <1>5, <2>5, <2>6, <2>7 DEF TermIsRead, h, c, t, m, x
<1>10. CASE h # p
  <2>1. 0 * Scale = 0 /\ w + 0 = w /\ w - 0 = w
    BY <1>8
  <2>2. Total(side, p) = Total(t, p) + 0 * Scale
    BY <1>3, <1>10, <2>1
  <2>3. /\ Get(AddTerm(poly, h, x), p, 0) = (w + 0) * Unit
        /\ Get(AddTerm(poly, h, -x), p, 0) = (w - 0) * Unit
    BY <1>2, <1>7, <1>10, <2>1
  <2>4. /\ Abs(w + 0) * Scale + m + o < Precision * Scale
        /\ Abs(w - 0) * Scale + m + o < Precision * Scale
    <3>1. Total(Sizes(side), p) = m
      BY <1>4, <1>10
    <3>2. QED
      BY <2>1, <3>1
  <2>5. QED
    <3>1. TermIsRead(poly, side, p, w, o, 0)
      BY <1>3, <1>5, <2>2, <2>3, <2>4 DEF TermIsRead, h, c, t, m, x
    <3>2. QED
      BY <3>1
<1>11. QED
  BY <1>9, <1>10

(* The strengthening: at a power with whole terms, what the dictionary holds is a *)
(* whole number, it and the terms not yet read make up the equation that was      *)
(* written, and none of the sums to come leaves the numbers that are floats.      *)
Typed ==
    /\ ls_terms \in Seq(Terms) /\ rs_terms \in Seq(Terms)
    /\ DOMAIN polynomial \subseteq Powers
    /\ \A p \in DOMAIN polynomial : polynomial[p] \in Int
    /\ written \in [Powers -> Int] /\ exact \subseteq Powers /\ degree \in Int

Balance(p, w) ==
    /\ Get(polynomial, p, 0) = w * Unit
    /\ written[p] = w * Scale + Total(ls_terms, p) - Total(rs_terms, p)
    /\ Whole(ls_terms, p) /\ Whole(rs_terms, p)
    /\ Abs(w) * Scale + Total(Sizes(ls_terms), p) + Total(Sizes(rs_terms), p)
            < Precision * Scale

Balanced == \A p \in exact : \E w \in Int : Balance(p, w)

Answered ==
    /\ degree # -1 => /\ ls_terms = <<>> /\ rs_terms = <<>>
                      /\ degree = Max(DOMAIN polynomial \cup {0})
    /\ answer # "none" => /\ degree # -1
                          /\ degree = 2 => answer \in SolveDegree2
                          /\ degree = 1 => answer = SolveDegree1
                          /\ degree = 0 => answer = SolveDegree0
                          /\ degree > 2 => answer = "too high"

EquationInv == Typed /\ Balanced /\ Answered

\* The largest of a finite set of integers with 0, and that it is in the set.
LEMMA LargestKnown ==
    ASSUME NEW S, S \subseteq Powers
    PROVE  /\ Max(S \cup {0}) \in S \cup {0} /\ Max(S \cup {0}) \in Int
           /\ \A p \in S \cup {0} : p \in Int /\ Max(S \cup {0}) >= p
<1> DEFINE T == S \cup {0}
<1>1. IsFiniteSet(Powers) /\ Powers \subseteq Int
  BY FS_Interval, TermsAssumption DEF Powers
<1>2. IsFiniteSet(S)
  BY <1>1, FS_Subset
<1>3. IsFiniteSet(T)
  BY <1>2, FS_AddElement
<1>4. T \in SUBSET Int /\ T # {}
  BY <1>1
<1> HIDE DEF T
<1>5. \E m \in T : \A p \in T : m >= p
  BY <1>3, <1>4, BoundsExist
<1>6. Max(T) \in T /\ \A p \in T : Max(T) >= p
  BY <1>5 DEF Max
<1>7. QED
  BY <1>4, <1>6 DEF T

\* Reading the terms keeps the balance.
LEMMA EquationInvariant == Spec => []EquationInv
<1> USE FloatsAssumption
<1>0. Unit \in Nat \ {0}
  BY DoubledIs DEF Unit
<1>1. Init => EquationInv
  <2> SUFFICES ASSUME Init PROVE EquationInv
    OBVIOUS
  <2>1. ls_terms \in Seq(Terms) /\ rs_terms \in Seq(Terms)
    <3>1. \A n : TermLists(n) \subseteq Seq(Terms)
      BY DEF TermLists
    <3>2. QED
      BY <3>1 DEF Init
  <2>2. \A p \in Powers : Total(ls_terms, p) \in Int /\ Total(rs_terms, p) \in Int
    BY <2>1, TermsAreAny, TotalTyped
  <2>3. /\ polynomial = [p \in {} |-> 0] /\ degree = -1 /\ answer = "none"
        /\ written = [p \in Powers |-> Total(ls_terms, p) - Total(rs_terms, p)]
        /\ exact = Exact(ls_terms, rs_terms)
    BY DEF Init, Meant
  <2>4. exact \subseteq Powers
    BY <2>3 DEF Exact
  <2>5. ASSUME NEW p \in exact PROVE Balance(p, 0)
    <3>1. /\ p \in Powers /\ Whole(ls_terms, p) /\ Whole(rs_terms, p)
          /\ Total(Sizes(ls_terms), p) + Total(Sizes(rs_terms), p) < Precision * Scale
      BY <2>3 DEF Exact
    <3>2. Total(Sizes(ls_terms), p) \in Nat /\ Total(Sizes(rs_terms), p) \in Nat
      BY <2>1, <3>1, TermsAreAny, SizesStep
    <3>3. Get(polynomial, p, 0) = 0 * Unit
      BY <1>0, <2>3 DEF Get
    <3>4. written[p] = 0 * Scale + Total(ls_terms, p) - Total(rs_terms, p)
      BY <2>2, <2>3, <3>1
    <3>5. Abs(0) * Scale + Total(Sizes(ls_terms), p) + Total(Sizes(rs_terms), p)
              < Precision * Scale
      <4>1. Abs(0) * Scale = 0
        BY DEF Abs
      <4>2. QED
        BY <3>1, <3>2, <4>1
    <3>6. QED
      BY <3>1, <3>3, <3>4, <3>5 DEF Balance
  <2>6. Balanced
    BY <2>5 DEF Balanced
  <2>7. Typed
    <3>1. written \in [Powers -> Int]
      BY <2>2, <2>3
    <3>2. QED
      BY <2>1, <2>3, <2>4, <3>1 DEF Typed
  <2>8. QED
    BY <2>3, <2>6, <2>7 DEF EquationInv, Answered
<1>2. ASSUME EquationInv, [Next]_vars PROVE EquationInv'
  <2>0. Typed /\ Balanced /\ Answered
    BY <1>2 DEF EquationInv
  <2>a. /\ ls_terms \in Seq(AnyTerms) /\ rs_terms \in Seq(AnyTerms)
        /\ DOMAIN polynomial \subseteq Powers
        /\ \A p \in DOMAIN polynomial : polynomial[p] \in Int
        /\ exact \subseteq Powers
    BY <2>0, TermsAreAny DEF Typed
  <2>b. \A p \in exact : /\ Total(Sizes(ls_terms), p) \in Nat /\ Total(Sizes(rs_terms), p) \in Nat
                         /\ Total(ls_terms, p) \in Int /\ Total(rs_terms, p) \in Int
    BY <2>a, SizesStep, TotalTyped
  <2>1. CASE ParseLeft
    <3> DEFINE h == Head(ls_terms)
               x == Float(h.coeff)
    <3>1. /\ ls_terms # <<>> /\ polynomial' = AddTerm(polynomial, h.power, x)
          /\ ls_terms' = Tail(ls_terms)
          /\ UNCHANGED <<rs_terms, degree, answer, written, exact>>
      BY <2>1 DEF ParseLeft
    <3>2. h \in AnyTerms /\ Tail(ls_terms) \in Seq(Terms)
      BY <2>0, <2>a, <3>1, RestOfTerms DEF Typed
    <3>3. h.power \in Powers /\ x \in Int
      BY <3>2, FloatTyped DEF AnyTerms
    <3>4. degree = -1 /\ answer = "none"
      BY <2>0, <3>1 DEF Answered
    <3>5. Typed'
      <4> HIDE DEF h, x
      <4>1. DOMAIN polynomial' \subseteq Powers /\ \A q \in DOMAIN polynomial' : polynomial'[q] \in Int
        BY <2>a, <3>1, <3>3, TermAdded
      <4>2. QED
        BY <2>0, <3>1, <3>2, <4>1 DEF Typed
    <3>6. Balanced'
      <4> SUFFICES ASSUME NEW p \in exact PROVE \E w \in Int : Balance(p, w)'
        BY <3>1 DEF Balanced
      <4>1. PICK w \in Int : Balance(p, w)
        BY <2>0 DEF Balanced
      <4> DEFINE o == Total(Sizes(rs_terms), p)
      <4>2. /\ Get(polynomial, p, 0) = w * Unit /\ Whole(ls_terms, p) /\ Whole(rs_terms, p)
            /\ Abs(w) * Scale + Total(Sizes(ls_terms), p) + o < Precision * Scale
            /\ written[p] = w * Scale + Total(ls_terms, p) - Total(rs_terms, p)
        BY <4>1 DEF Balance
      <4>3. o \in Nat /\ p \in Powers /\ Total(rs_terms, p) \in Int
        BY <2>a, <2>b
      <4> HIDE DEF o
      <4>4. PICK d \in Int : TermIsRead(polynomial, ls_terms, p, w, o, d)
        BY <2>a, <3>1, <4>2, <4>3, TermRead
      <4>5. w * Scale + d * Scale = (w + d) * Scale /\ w + d \in Int
            /\ w * Scale \in Int /\ d * Scale \in Int
        OBVIOUS
      <4>6. written[p] = (w + d) * Scale + Total(Tail(ls_terms), p) - Total(rs_terms, p)
        BY <4>2, <4>3, <4>4, <4>5 DEF TermIsRead
      <4> HIDE DEF h, x
      <4>7. Balance(p, w + d)'
        BY <3>1, <4>2, <4>4, <4>6 DEF TermIsRead, Balance, o, h, x
      <4>8. QED
        BY <4>5, <4>7
    <3>7. QED
      BY <3>1, <3>4, <3>5, <3>6 DEF EquationInv, Answered
  <2>2. CASE ParseRight
    <3> DEFINE h == Head(rs_terms)
               x == -Float(h.coeff)
    <3>1. /\ ls_terms = <<>> /\ rs_terms # <<>>
          /\ polynomial' = AddTerm(polynomial, h.power, x)
          /\ rs_terms' = Tail(rs_terms)
          /\ UNCHANGED <<ls_terms, degree, answer, written, exact>>
      BY <2>2 DEF ParseRight
    <3>2. h \in AnyTerms /\ Tail(rs_terms) \in Seq(Terms)
      BY <2>0, <2>a, <3>1, RestOfTerms DEF Typed
    <3>3. h.power \in Powers /\ x \in Int
      <4>1. h.power \in Powers /\ h.coeff \in Int
        BY <3>2 DEF AnyTerms
      <4>2. Float(h.coeff) \in Int
        BY <4>1, FloatTyped
      <4>3. QED
        BY <4>1, <4>2
    <3>4. degree = -1 /\ answer = "none"
      BY <2>0, <3>1 DEF Answered
    <3>5. Typed'
      <4> HIDE DEF h, x
      <4>1. DOMAIN polynomial' \subseteq Powers /\ \A q \in DOMAIN polynomial' : polynomial'[q] \in Int
        BY <2>a, <3>1, <3>3, TermAdded
      <4>2. QED
        BY <2>0, <3>1, <3>2, <4>1 DEF Typed
    <3>6. Balanced'
      <4> SUFFICES ASSUME NEW p \in exact PROVE \E w \in Int : Balance(p, w)'
        BY <3>1 DEF Balanced
      <4>1. PICK w \in Int : Balance(p, w)
        BY <2>0 DEF Balanced
      <4> DEFINE o == Total(Sizes(ls_terms), p)
                 m == Total(Sizes(Tail(rs_terms)), p)
      <4>2. /\ Get(polynomial, p, 0) = w * Unit /\ Whole(ls_terms, p) /\ Whole(rs_terms, p)
            /\ Abs(w) * Scale + o + Total(Sizes(rs_terms), p) < Precision * Scale
            /\ written[p] = w * Scale + Total(ls_terms, p) - Total(rs_terms, p)
        BY <4>1 DEF Balance
      <4>3. /\ o \in Nat /\ p \in Powers /\ Total(ls_terms, p) \in Int
            /\ Total(Sizes(rs_terms), p) \in Nat /\ m \in Nat
        BY <2>a, <2>b, <3>1, SizesStep
      <4> HIDE DEF o, m
      <4>4. Abs(w) * Scale + Total(Sizes(rs_terms), p) + o < Precision * Scale
        <5> DEFINE k == Abs(w) * Scale
                   l == Precision * Scale
                   n == Total(Sizes(rs_terms), p)
        <5>1. k \in Int /\ l \in Int
          BY AbsIs
        <5>2. k + o + n < l /\ n \in Nat
          BY <4>2, <4>3
        <5> HIDE DEF k, l, n
        <5>3. k + n + o < l
          BY <4>3, <5>1, <5>2
        <5>4. QED
          BY <5>3 DEF k, l, n
      <4>5. PICK d \in Int : TermIsRead(polynomial, rs_terms, p, w, o, d)
        BY <2>a, <3>1, <4>2, <4>3, <4>4, TermRead
      <4>6. w * Scale - d * Scale = (w - d) * Scale /\ w - d \in Int
            /\ w * Scale \in Int /\ d * Scale \in Int
        OBVIOUS
      <4>7. written[p] = (w - d) * Scale + Total(ls_terms, p) - Total(Tail(rs_terms), p)
        BY <4>2, <4>3, <4>5, <4>6 DEF TermIsRead
      <4>8. Abs(w - d) * Scale + o + m < Precision * Scale
        <5> DEFINE k == Abs(w - d) * Scale
                   l == Precision * Scale
        <5>1. k \in Int /\ l \in Int
          BY AbsIs
        <5>2. k + m + o < l
          BY <4>5 DEF TermIsRead, m
        <5> HIDE DEF k, l
        <5>3. k + o + m < l
          BY <4>3, <5>1, <5>2
        <5>4. QED
          BY <5>3 DEF k, l
      <4> HIDE DEF h, x
      <4>9. Balance(p, w - d)'
        BY <3>1, <4>2, <4>5, <4>7, <4>8 DEF TermIsRead, Balance, o, m, h, x
      <4>10. QED
        BY <4>6, <4>9
    <3>7. QED
      BY <3>1, <3>4, <3>5, <3>6 DEF EquationInv, Answered
  <2>3. CASE CalculateDegree
    <3>1. Max(DOMAIN polynomial \cup {0}) \in Int
      BY <2>a, LargestKnown
    <3>2. UNCHANGED <<ls_terms, rs_terms, polynomial, answer, written, exact>>
          /\ ls_terms = <<>> /\ rs_terms = <<>> /\ degree = -1
          /\ degree' = Max(DOMAIN polynomial \cup {0})
      BY <2>3 DEF CalculateDegree
    <3>3. Typed'
      BY <2>0, <3>1, <3>2 DEF Typed
    <3>4. Balanced'
      BY <2>0, <3>2 DEF Balanced, Balance
    <3>5. QED
      BY <2>0, <3>2, <3>3, <3>4 DEF EquationInv, Answered
  <2>4. CASE Solve
    <3>1. UNCHANGED <<ls_terms, rs_terms, polynomial, degree, written, exact>>
      BY <2>4 DEF Solve
    <3>2. degree \in Int /\ degree >= 0
      BY <2>0, <2>4 DEF Typed, Solve
    <3>3. Typed' /\ Balanced'
      BY <2>0, <3>1 DEF Typed, Balanced, Balance
    <3>4. /\ degree = 2 => answer' \in SolveDegree2
          /\ degree = 1 => answer' = SolveDegree1
          /\ degree = 0 => answer' = SolveDegree0
          /\ degree > 2 => answer' = "too high"
      <4>1. \/ degree > 2 /\ answer' = "too high"
            \/ degree = 2 /\ answer' \in SolveDegree2
            \/ degree = 1 /\ answer' = SolveDegree1
            \/ degree = 0 /\ answer' = SolveDegree0
        BY <2>4, Zenon DEF Solve
      <4>2. degree > 2 => degree # 2 /\ degree # 1 /\ degree # 0
        BY <3>2
      <4>3. 2 # 1 /\ 2 # 0 /\ 1 # 0
        OBVIOUS
      <4>4. QED
        BY <4>1, <4>2, <4>3, Zenon
    <3>5. UNCHANGED <<SolveDegree2, SolveDegree1, SolveDegree0>>
      BY <3>1 DEF SolveDegree2, SolveDegree1, SolveDegree0
    <3>6. /\ degree' # -1 /\ ls_terms' = <<>> /\ rs_terms' = <<>>
          /\ degree' = Max(DOMAIN polynomial' \cup {0})
      <4>1. degree # -1
        BY <3>2
      <4>2. QED
        BY <2>0, <3>1, <4>1 DEF Answered
    <3>7. /\ degree' = 2 => answer' \in SolveDegree2'
          /\ degree' = 1 => answer' = SolveDegree1'
          /\ degree' = 0 => answer' = SolveDegree0'
          /\ degree' > 2 => answer' = "too high"
      BY <3>1, <3>4, <3>5
    <3>8. QED
      BY <3>3, <3>6, <3>7 DEF EquationInv, Answered
  <2>5. CASE UNCHANGED vars
    <3>1. UNCHANGED <<ls_terms, rs_terms, polynomial, degree, answer, written, exact>>
      BY <2>5 DEF vars
    <3>2. Typed' /\ Balanced'
      BY <2>0, <3>1 DEF Typed, Balanced, Balance
    <3>3. UNCHANGED <<SolveDegree2, SolveDegree1, SolveDegree0>>
      BY <3>1 DEF SolveDegree2, SolveDegree1, SolveDegree0
    <3>4. Answered'
      BY <2>0, <3>1, <3>3 DEF Answered
    <3>5. QED
      BY <3>2, <3>4 DEF EquationInv
  <2>6. QED
    BY <1>2, <2>1, <2>2, <2>3, <2>4, <2>5 DEF Next
<1>3. QED
  BY <1>1, <1>2, PTL DEF Spec

\* Every term of the text is in the polynomial once, with the sign of its side, for texts of
\* any length, powers of any size and any order of the terms: exactly where the terms of a
\* power are whole numbers whose sizes add up to less than Precision.
THEOREM PolynomialStaysMeant == Spec => []PolynomialIsMeant
<1>1. EquationInv => PolynomialIsMeant
  <2> SUFFICES ASSUME EquationInv, degree # -1, NEW p \in exact
               PROVE  Scale * Get(polynomial, p, 0) = Unit * written[p]
    BY DEF PolynomialIsMeant
  <2>1. PICK w \in Int : Balance(p, w)
    BY DEF EquationInv, Balanced
  <2>2. ls_terms = <<>> /\ rs_terms = <<>>
    BY DEF EquationInv, Answered
  <2>3. Get(polynomial, p, 0) = w * Unit /\ written[p] = w * Scale
    <3>1. written[p] = w * Scale + Total(<<>>, p) - Total(<<>>, p)
      BY <2>1, <2>2 DEF Balance
    <3>2. w * Scale + 0 - 0 = w * Scale
      BY FloatsAssumption
    <3>3. QED
      BY <2>1, <3>1, <3>2, TotalEmpty DEF Balance
  <2>4. Unit \in Nat /\ Scale \in Nat
    BY FloatsAssumption, DoubledIs DEF Unit
  <2>5. Scale * (w * Unit) = Unit * (w * Scale)
    BY <2>4
  <2>6. QED
    BY <2>3, <2>5
<1>2. QED
  BY <1>1, EquationInvariant, PTL

----------------------------------------------------------------------------
(* The solutions. At x = n / 2|a| the quadratic has the sign of its first coefficient *)
(* times that of (n +- b)^2 - delta, so the vertex decides.                           *)

\* The square of an integer is not negative.
LEMMA SquareNotNegative == ASSUME NEW e \in Int PROVE e * e \in Int /\ e * e >= 0
<1>1. CASE e >= 0
  BY <1>1
<1>2. CASE e < 0
  BY <1>2
<1>3. QED
  BY <1>1, <1>2

\* A positive factor keeps the sign, a factor of 1 or -1 can be taken inside.
LEMMA SignOfProduct ==
    ASSUME NEW m \in Int, m > 0, NEW k \in Int PROVE Sign(m * k) = Sign(k)
<1>1. m * k \in Int /\ (k > 0 => m * k > 0) /\ (k < 0 => m * k < 0) /\ (k = 0 => m * k = 0)
  OBVIOUS
<1>2. QED
  BY <1>1 DEF Sign

\* Completing the square.
LEMMA CompletedSquare ==
    ASSUME NEW a \in Int, NEW b \in Int, NEW c \in Int, NEW n \in Int, a # 0
    PROVE  LET d == 2 * a * Sign(a)
               value == a * n * n + b * n * d + c * d * d
               e == n + b * Sign(a)
           IN  Sign(a) * Sign(value) = Sign(e * e - (b * b - 4 * a * c))
<1>1. CASE a > 0
  <2> DEFINE value == a * n * n + b * n * (2 * a) + c * (2 * a) * (2 * a)
             k == (n + b) * (n + b) - (b * b - 4 * a * c)
  <2>1. Sign(a) = 1 /\ 2 * a * 1 = 2 * a /\ n + b * 1 = n + b
    BY <1>1 DEF Sign
  <2>2. k \in Int /\ value \in Int
    OBVIOUS
  <2>3. k = n * n + 2 * (b * n) + 4 * (a * c)
    OBVIOUS
  <2>4. value = a * k
    BY <2>3
  <2> HIDE DEF value, k
  <2>5. Sign(value) = Sign(k) /\ Sign(value) \in Int
    BY <1>1, <2>2, <2>4, SignOfProduct DEF Sign
  <2>6. 1 * Sign(value) = Sign(k)
    BY <2>5
  <2>7. QED
    BY <2>1, <2>6 DEF value, k
<1>2. CASE a < 0
  <2> DEFINE value == a * n * n + b * n * (-(2 * a)) + c * (-(2 * a)) * (-(2 * a))
             k == (n - b) * (n - b) - (b * b - 4 * a * c)
             m == -a
  <2>1. Sign(a) = -1 /\ 2 * a * (-1) = -(2 * a) /\ n + b * (-1) = n - b
    BY <1>2 DEF Sign
  <2>2. k \in Int /\ value \in Int /\ m \in Int /\ m > 0
    BY <1>2
  <2>3. k = n * n - 2 * (b * n) + 4 * (a * c)
    OBVIOUS
  <2>4. -value = m * k
    BY <2>3
  <2> HIDE DEF value, k, m
  <2>5. Sign(-value) = Sign(k)
    BY <2>2, <2>4, SignOfProduct
  <2>6. (-1) * Sign(value) = Sign(-value)
    BY <2>2 DEF Sign
  <2>7. QED
    BY <2>1, <2>5, <2>6 DEF value, k
<1>3. QED
  BY <1>1, <1>2

\* The discriminant tells what the signs of the quadratic tell.
LEMMA DiscriminantTells ==
    ASSUME written[0] \in Int, written[1] \in Int, written[2] \in Int, written[2] # 0
    PROVE  LET a == written[2]
               b == written[1]
               delta == b * b - 4 * a * written[0]
           IN  /\ delta > 0 => -1 \in Signs
               /\ delta = 0 => -1 \notin Signs /\ 0 \in Signs
               /\ delta < 0 => -1 \notin Signs /\ 0 \notin Signs
<1> DEFINE a == written[2]
           b == written[1]
           c == written[0]
           d == 2 * a * Sign(a)
           Value(n) == a * n * n + b * n * d + c * d * d
           delta == b * b - 4 * a * c
           e(n) == n + b * Sign(a)
           vertex == -(b * Sign(a))
<1>1. /\ a \in Int /\ b \in Int /\ c \in Int /\ a # 0 /\ delta \in Int
      /\ Reach = 1 + (IF b < 0 THEN -b ELSE b)
      /\ Signs = {Sign(a) * Sign(Value(n)) : n \in -Reach..Reach}
  BY DEF Reach, Signs
<1>2. Sign(a) \in {-1, 1}
  BY <1>1 DEF Sign
<1>3. Reach \in Int /\ b * Sign(a) \in Int /\ vertex \in -Reach..Reach /\ e(vertex) = 0
  <2>1. CASE Sign(a) = 1
    <3>1. b * 1 = b
      BY <1>1
    <3>2. QED
      BY <1>1, <2>1, <3>1
  <2>2. CASE Sign(a) = -1
    <3>1. b * (-1) = -b
      BY <1>1
    <3>2. QED
      BY <1>1, <2>2, <3>1
  <2>3. QED
    BY <1>2, <2>1, <2>2
<1>4. \A n \in Int : e(n) \in Int /\ e(n) * e(n) \in Int /\ e(n) * e(n) >= 0
  BY <1>3, SquareNotNegative
<1>5. \A n \in Int : Sign(a) * Sign(Value(n)) = Sign(e(n) * e(n) - delta)
  BY <1>1, CompletedSquare
<1>6. \A n \in -Reach..Reach : n \in Int
  BY <1>3
<1> HIDE DEF a, b, c, d, delta, e, vertex, Value
<1>7. \A v : v \in Signs <=> \E n \in -Reach..Reach : v = Sign(e(n) * e(n) - delta)
  BY <1>1, <1>5, <1>6
<1>8. e(vertex) * e(vertex) - delta = -delta
  BY <1>1, <1>3
<1>9. Sign(-delta) \in Signs
  BY <1>3, <1>7, <1>8
<1>10. delta > 0 => Sign(-delta) = -1
  BY <1>1 DEF Sign
<1>11. delta = 0 => Sign(-delta) = 0 /\ \A n \in Int : Sign(e(n) * e(n) - delta) \in {0, 1}
  BY <1>1, <1>4 DEF Sign
<1>12. delta < 0 => \A n \in Int : Sign(e(n) * e(n) - delta) = 1
  BY <1>1, <1>4 DEF Sign
<1>13. /\ delta > 0 => -1 \in Signs
       /\ delta = 0 => -1 \notin Signs /\ 0 \in Signs
       /\ delta < 0 => -1 \notin Signs /\ 0 \notin Signs
  BY <1>6, <1>7, <1>9, <1>10, <1>11, <1>12
<1>14. QED
  BY <1>13 DEF a, b, c, delta

\* A discriminant is a whole number of units.
LEMMA DiscriminantTyped ==
    ASSUME NEW a \in Int, NEW b \in Int, NEW c \in Int, NEW r \in Discriminants(a, b, c)
    PROVE  r \in Int
<1> DEFINE u == Unit
           x == b * b
           y == 4 * a * c
           q == Round(y, u)
           d == Spacing(x, u)
           k == x \div (u * d)
<1>1. u \in Nat \ {0} /\ x \in Int /\ y \in Int
  BY FloatsAssumption, DoubledIs DEF Unit
<1>2. PICK s \in Around(x, u) : r = Round(s - q, 1)
  BY DEF Discriminants, Squares
<1> HIDE DEF u, x, y
<1>3. q \in Int
  BY <1>1, RoundIs
<1>4. d \in Nat \ {0} /\ u * d \in Nat \ {0}
  BY <1>1, SpacingIs
<1>5. k \in Int
  <2> DEFINE t == u * d
  <2>1. t \in Nat \ {0}
    BY <1>4
  <2> HIDE DEF t
  <2>2. x \div t \in Int
    BY <1>1, <2>1, DivModInt
  <2>3. QED
    BY <2>2 DEF t
<1>6. s \in {d * k, d * (k + 1)}
  BY <1>2 DEF Around
<1> HIDE DEF d, k, q
<1>7. s \in Int
  BY <1>4, <1>5, <1>6
<1>8. s - q \in Int
  BY <1>3, <1>7
<1>9. QED
  BY <1>2, <1>8, RoundSign

\* Whole coefficients with small products: the discriminant is rounded nowhere.
LEMMA DiscriminantOfWholes ==
    ASSUME NEW a \in Int, NEW b \in Int, NEW c \in Int, b * b < Precision,
           Abs(4 * a * c) < Precision,
           NEW r \in Discriminants(a * Unit, b * Unit, c * Unit)
    PROVE  LET delta == b * b - 4 * a * c
           IN  (delta > 0 => r > 0) /\ (delta = 0 => r = 0) /\ (delta < 0 => r < 0)
<1> DEFINE u == Unit
           x == b * b
           y == 4 * a * c
<1>1. u \in Nat \ {0}
  BY FloatsAssumption, DoubledIs DEF Unit
<1>2. x \in Int /\ y \in Int /\ Abs(x) < Precision /\ Abs(y) < Precision
  <2>1. b * b \in Int /\ b * b >= 0
    BY SquareNotNegative
  <2>2. QED
    BY <2>1 DEF Abs
<1>3. (b * u) * (b * u) = (x * u) * u /\ 4 * (a * u) * (c * u) = (y * u) * u
  <2> HIDE DEF u
  <2>1. \A i, j \in Int : (i * u) * (j * u) = ((i * j) * u) * u
    BY <1>1
  <2>2. 4 * (a * u) = (4 * a) * u /\ 4 * a \in Int
    BY <1>1
  <2>3. ((4 * a) * u) * (c * u) = ((4 * a * c) * u) * u
    BY <2>1, <2>2
  <2>4. QED
    BY <2>1, <2>2, <2>3
<1> HIDE DEF x, y
<1>4. Around((x * Unit) * Unit, Unit) = {x * Unit} /\ Round((y * Unit) * Unit, Unit) = y * Unit
  BY <1>1, <1>2, WholeIsFloat
<1>5. Squares(b * u) = {x * u} /\ Round(4 * (a * u) * (c * u), u) = y * u
  BY <1>3, <1>4 DEF Squares
<1>6. r = Round(x * u - y * u, 1)
  BY <1>5 DEF Discriminants
<1> DEFINE n == x * u - y * u
<1> HIDE DEF u
<1>7. n \in Int /\ (x - y > 0 => n > 0) /\ (x - y = 0 => n = 0) /\ (x - y < 0 => n < 0)
  <2>1. n = (x - y) * u /\ x - y \in Int
    BY <1>1, <1>2
  <2> DEFINE d == x - y
  <2>2. d * u \in Int /\ (d > 0 => d * u > 0) /\ (d = 0 => d * u = 0) /\ (d < 0 => d * u < 0)
    <3> HIDE DEF d
    <3>1. d \in Int
      BY <2>1 DEF d
    <3>2. QED
      BY <1>1, <3>1
  <2>3. QED
    BY <2>1, <2>2
<1> HIDE DEF n
<1>8. (n > 0 => r > 0) /\ (n = 0 => r = 0) /\ (n < 0 => r < 0)
  BY <1>6, <1>7, RoundSign DEF n
<1>9. QED
  BY <1>7, <1>8 DEF x, y

\* Rounding two products and a difference keeps the sign of a discriminant that is not
\* nearer to zero than the distances of the floats around the products.
LEMMA DiscriminantBeyondRounding ==
    ASSUME NEW a \in Int, NEW b \in Int, NEW c \in Int, NEW r \in Discriminants(a, b, c)
    PROVE  LET delta == b * b - 4 * a * c
               margin == Unit * (Spacing(b * b, Unit) + Spacing(4 * a * c, Unit))
           IN  /\ delta >= margin => r > 0
               /\ delta <= -margin => r < 0
<1> DEFINE u == Unit
           x == b * b
           y == 4 * a * c
           q == Round(y, u)
           v == u * Spacing(x, u)
           w == u * Spacing(y, u)
<1>1. u \in Nat \ {0} /\ x \in Int /\ y \in Int
  BY FloatsAssumption, DoubledIs DEF Unit
<1>2. PICK s \in Around(x, u) : r = Round(s - q, 1)
  BY DEF Discriminants, Squares
<1> HIDE DEF u, x, y
<1>3. q \in Int /\ u * q - y \in -w..w /\ w \in Nat \ {0}
  BY <1>1, RoundIs, SpacingIs
<1>4. s \in Int /\ Abs(u * s - x) < v
  <2> DEFINE d == Spacing(x, u)
             k == x \div (u * d)
  <2>1. d \in Nat \ {0} /\ u * d \in Nat \ {0}
    BY <1>1, SpacingIs
  <2>2. k \in Int
    <3> DEFINE t == u * d
    <3>1. t \in Nat \ {0}
      BY <2>1
    <3> HIDE DEF t
    <3>2. x \div t \in Int
      BY <1>1, <3>1, DivModInt
    <3>3. QED
      BY <3>2 DEF t
  <2>3. s \in {d * k, d * (k + 1)} /\ Abs(u * s - x) < u * d
    BY <1>2 DEF Around
  <2> HIDE DEF d, k
  <2>4. d * k \in Int /\ d * (k + 1) \in Int
    BY <2>1, <2>2
  <2>5. QED
    BY <2>3, <2>4 DEF d
<1>5. u * (Spacing(x, u) + Spacing(y, u)) = v + w /\ v \in Nat
  <2> DEFINE d == Spacing(x, u)
             e == Spacing(y, u)
  <2>1. d \in Nat /\ e \in Nat
    BY <1>1, SpacingIs
  <2> HIDE DEF d, e
  <2>2. u * (d + e) = u * d + u * e /\ u * d \in Nat
    BY <1>1, <2>1
  <2>3. QED
    BY <2>2 DEF d, e
<1> HIDE DEF q, v, w
<1>6. u * s \in Int /\ u * q \in Int /\ u * (s - q) = u * s - u * q /\ s - q \in Int
  BY <1>1, <1>3, <1>4
<1>7. u * s - x < v /\ x - u * s < v
  <2> DEFINE e == u * s - x
  <2>1. e \in Int /\ Abs(e) < v
    BY <1>1, <1>4, <1>6
  <2> HIDE DEF e
  <2>2. e < v /\ -e < v
    BY <1>5, <2>1 DEF Abs
  <2>3. QED
    BY <1>1, <1>6, <2>2 DEF e
<1> DEFINE z == u * (s - q)
<1>8. (x - y >= v + w => z > 0) /\ (x - y <= -(v + w) => z < 0) /\ z \in Int
  <2> DEFINE i == u * s
             j == u * q
  <2>1. i \in Int /\ j \in Int /\ z = i - j /\ i - x < v /\ x - i < v /\ j - y \in -w..w
    BY <1>3, <1>6, <1>7
  <2> HIDE DEF i, j, z
  <2>2. QED
    BY <1>1, <1>3, <1>5, <2>1
<1>9. (z > 0 => s - q > 0) /\ (z < 0 => s - q < 0)
  <2> DEFINE e == s - q
  <2>1. e \in Int
    BY <1>6
  <2> HIDE DEF e
  <2>2. (e <= 0 => u * e <= 0) /\ (e >= 0 => u * e >= 0)
    BY <1>1, <2>1
  <2>3. QED
    BY <2>1, <2>2, <1>8 DEF e
<1> HIDE DEF z
<1>10. (s - q > 0 => r > 0) /\ (s - q < 0 => r < 0)
  BY <1>2, <1>6, RoundSign
<1>11. /\ x - y >= u * (Spacing(x, u) + Spacing(y, u)) => r > 0
       /\ x - y <= -(u * (Spacing(x, u) + Spacing(y, u))) => r < 0
  BY <1>5, <1>8, <1>9, <1>10
<1>12. QED
  BY <1>11 DEF u, x, y

\* The answer to a quadratic is that of one of the discriminants it may compute.
AnswerFor(r) == IF r > 0 THEN "two" ELSE IF r = 0 THEN "one" ELSE "two complex"

\* The answer of a quadratic equation is that of its stored coefficients, unless their
\* discriminant is nearer to zero than the rounding of its products.
LEMMA BeyondRounding == EquationInv => RightBeyondRounding
<1> SUFFICES ASSUME EquationInv, answer # "none", degree = 2, Get(polynomial, 2, 0) # 0
             PROVE  RightBeyondRounding
  BY DEF RightBeyondRounding
<1> DEFINE a == Get(polynomial, 2, 0)
           b == Get(polynomial, 1, 0)
           c == Get(polynomial, 0, 0)
           delta == b * b - 4 * a * c
           margin == Unit * (Spacing(b * b, Unit) + Spacing(4 * a * c, Unit))
<1>1. a \in Int /\ b \in Int /\ c \in Int
  BY DEF EquationInv, Typed, Get
<1>2. answer \in SolveDegree2
  BY DEF EquationInv, Answered
<1>3. SolveDegree2 = {AnswerFor(r) : r \in Discriminants(a, b, c)}
  BY DEF SolveDegree2, AnswerFor
<1>4. PICK r \in Discriminants(a, b, c) : answer = AnswerFor(r)
  BY <1>2, <1>3
<1> HIDE DEF a, b, c
<1>5. (delta >= margin => r > 0) /\ (delta <= -margin => r < 0)
  BY <1>1, DiscriminantBeyondRounding
<1> HIDE DEF delta, margin
<1>6. r \in Int
  BY <1>1, DiscriminantTyped
<1>7. (delta >= margin => answer = "two") /\ (delta <= -margin => answer = "two complex")
  <2>1. (r > 0 => AnswerFor(r) = "two") /\ (r < 0 => AnswerFor(r) = "two complex")
    BY <1>6 DEF AnswerFor
  <2>2. QED
    BY <1>4, <1>5, <2>1, Zenon
<1>8. QED
  BY <1>7 DEF RightBeyondRounding, delta, margin, a, b, c

\* When the largest power of the text does not cancel, the answer tells how many solutions
\* the equation has and of which kind: for every text, of any length, with whole coefficients
\* small enough for the discriminant to be a float. For other coefficients, whatever rounding
\* they went through, the answer to a quadratic is that of the coefficients as they are stored
\* unless their discriminant is nearer to zero than the roundings of its two products.
THEOREM AnswersAreRight == Spec => []RightUnlessCancelled
<1>1. EquationInv => RightForWholes
  <2> SUFFICES ASSUME EquationInv, answer # "none", DOMAIN polynomial # {}, degree = Degree, Small
               PROVE  answer = Kind
    BY DEF RightForWholes
  <2>1. /\ degree = Max(DOMAIN polynomial \cup {0}) /\ ls_terms = <<>> /\ rs_terms = <<>>
        /\ DOMAIN polynomial \subseteq Powers /\ exact = Powers
    BY DEF EquationInv, Answered, Typed, Small
  <2>2. Unit \in Nat \ {0} /\ Scale \in Nat \ {0}
    BY FloatsAssumption, DoubledIs DEF Unit
  <2> DEFINE W(p) == written[p] \div Scale
  <2>3. \A p \in Powers : /\ Get(polynomial, p, 0) = W(p) * Unit
                          /\ W(p) \in Int /\ written[p] = W(p) * Scale
                          /\ (written[p] = 0 <=> Get(polynomial, p, 0) = 0)
    <3> SUFFICES ASSUME NEW p \in Powers
                 PROVE  /\ Get(polynomial, p, 0) = W(p) * Unit
                        /\ W(p) \in Int /\ written[p] = W(p) * Scale
                        /\ (written[p] = 0 <=> Get(polynomial, p, 0) = 0)
      OBVIOUS
    <3>1. PICK w \in Int : Balance(p, w)
      BY <2>1 DEF EquationInv, Balanced
    <3>2. written[p] = w * Scale /\ Get(polynomial, p, 0) = w * Unit
      <4>1. written[p] = w * Scale + Total(<<>>, p) - Total(<<>>, p)
        BY <2>1, <3>1 DEF Balance
      <4>2. w * Scale + 0 - 0 = w * Scale
        BY <2>2
      <4>3. QED
        BY <3>1, <4>1, <4>2, TotalEmpty DEF Balance
    <3>3. (w * Scale) \div Scale = w
      <4> DEFINE num == w * Scale
      <4>1. num \in Int /\ num = Scale * w + 0 /\ 0 \in 0..(Scale - 1)
        BY <2>2
      <4> HIDE DEF num
      <4>2. num \div Scale = w
        BY <2>2, <4>1, QuotientIs
      <4>3. QED
        BY <4>2 DEF num
    <3>4. (w * Scale = 0 <=> w = 0) /\ (w * Unit = 0 <=> w = 0)
      BY <2>2
    <3>5. QED
      BY <3>2, <3>3, <3>4
  <2> HIDE DEF W
  <2>4. /\ degree \in DOMAIN polynomial \cup {0} /\ degree \in Int
        /\ \A p \in DOMAIN polynomial : p \in Int /\ degree >= p
        /\ degree >= 0
    BY <2>1, LargestKnown
  <2>5. degree # 0 => written[degree] # 0
    <3> DEFINE S == {p \in Powers : written[p] # 0}
    <3>1. S \subseteq Powers /\ Degree = Max(S \cup {0})
      BY DEF Degree
    <3> HIDE DEF S
    <3>2. Degree \in S \cup {0}
      BY <3>1, LargestKnown
    <3>3. QED
      BY <3>2 DEF S
  <2>6. degree \in Powers /\ 0 \in Powers /\ (degree = 2 => 1 \in Powers)
    BY <2>1, <2>4, TermsAssumption DEF Powers
  <2>7. /\ degree = 2 => answer \in SolveDegree2
        /\ degree = 1 => answer = SolveDegree1
        /\ degree = 0 => answer = SolveDegree0
        /\ degree > 2 => answer = "too high"
    BY DEF EquationInv, Answered
  <2>8. CASE degree = 2
    <3> DEFINE a == W(2)
               b == W(1)
               c == W(0)
               small == b * b - 4 * a * c
               delta == written[1] * written[1] - 4 * written[2] * written[0]
    <3>1. /\ Get(polynomial, 2, 0) = a * Unit /\ Get(polynomial, 1, 0) = b * Unit
          /\ Get(polynomial, 0, 0) = c * Unit /\ Get(polynomial, 2, 0) # 0
          /\ a \in Int /\ b \in Int /\ c \in Int
          /\ written[2] = a * Scale /\ written[1] = b * Scale /\ written[0] = c * Scale
          /\ written[2] # 0
      BY <2>3, <2>5, <2>6, <2>8
    <3>2. b * b < Precision /\ Abs(4 * a * c) < Precision
      BY <2>8 DEF Small, W
    <3>3. written[2] \in Int /\ written[1] \in Int /\ written[0] \in Int
      BY <2>2, <3>1
    <3> HIDE DEF a, b, c
    <3>4. SolveDegree2 = {AnswerFor(r) : r \in Discriminants(a * Unit, b * Unit, c * Unit)}
      BY <3>1 DEF SolveDegree2, AnswerFor
    <3>5. PICK r \in Discriminants(a * Unit, b * Unit, c * Unit) : answer = AnswerFor(r)
      BY <2>7, <2>8, <3>4
    <3>6. (small > 0 => r > 0) /\ (small = 0 => r = 0) /\ (small < 0 => r < 0)
      BY <3>1, <3>2, DiscriminantOfWholes
    <3>7. /\ delta > 0 => -1 \in Signs
          /\ delta = 0 => -1 \notin Signs /\ 0 \in Signs
          /\ delta < 0 => -1 \notin Signs /\ 0 \notin Signs
      BY <3>1, <3>3, DiscriminantTells
    <3>8. /\ small \in Int /\ (small > 0 => delta > 0) /\ (small = 0 => delta = 0)
          /\ (small < 0 => delta < 0)
      <4> DEFINE k == Scale * Scale
      <4>1. k \in Nat \ {0}
        BY <2>2
      <4>2. \A i, j \in Int : (i * Scale) * (j * Scale) = k * (i * j)
        BY <2>2
      <4>3. 4 * (a * Scale) = (4 * a) * Scale /\ 4 * a \in Int
        BY <2>2, <3>1
      <4>4. delta = k * (b * b) - k * (4 * a * c)
        BY <3>1, <4>2, <4>3
      <4> HIDE DEF k, delta
      <4>5. b * b \in Int /\ 4 * a * c \in Int
        BY <3>1
      <4>6. k * (b * b) - k * (4 * a * c) = k * small /\ small \in Int
        BY <4>1, <4>5
      <4> HIDE DEF small
      <4>7. (small > 0 => k * small > 0) /\ (small = 0 => k * small = 0)
            /\ (small < 0 => k * small < 0)
        BY <4>1, <4>6
      <4>8. QED
        BY <4>4, <4>6, <4>7
    <3> HIDE DEF small, delta
    <3>9. Kind = IF -1 \in Signs THEN "two" ELSE IF 0 \in Signs THEN "one" ELSE "two complex"
      BY <2>8 DEF Kind
    <3>10. CASE small > 0
      BY <3>5, <3>6, <3>7, <3>8, <3>9, <3>10 DEF AnswerFor
    <3>11. CASE small = 0
      BY <3>5, <3>6, <3>7, <3>8, <3>9, <3>11 DEF AnswerFor
    <3>12. CASE small < 0
      <4>1. ~ (r > 0) /\ r # 0
        <5> DEFINE x == a * Unit
                   y == b * Unit
                   z == c * Unit
        <5>1. x \in Int /\ y \in Int /\ z \in Int
          BY <2>2, <3>1
        <5> HIDE DEF x, y, z
        <5>2. r \in Discriminants(x, y, z)
          BY DEF x, y, z
        <5>3. r \in Int
          BY <5>1, <5>2, DiscriminantTyped
        <5>4. QED
          BY <3>6, <3>12, <5>3
      <4>2. QED
        BY <3>5, <3>7, <3>8, <3>9, <3>12, <4>1 DEF AnswerFor
    <3>13. QED
      BY <3>8, <3>10, <3>11, <3>12
  <2>9. CASE degree = 1
    <3>1. Get(polynomial, 1, 0) # 0
      BY <2>3, <2>5, <2>6, <2>9
    <3>2. SolveDegree1 = "one"
      BY <3>1 DEF SolveDegree1
    <3>3. Kind = "one"
      BY <2>9 DEF Kind
    <3>4. QED
      BY <2>7, <2>9, <3>2, <3>3, Zenon
  <2>10. CASE degree = 0
    <3>1. 0 \in DOMAIN polynomial
      <4>1. \A p \in DOMAIN polynomial : p \in Nat /\ p <= 0
        <5> SUFFICES ASSUME NEW p \in DOMAIN polynomial PROVE p \in Nat /\ p <= 0
          OBVIOUS
        <5>1. p \in Powers /\ degree >= p
          BY <2>1, <2>4
        <5>2. p \in Nat
          BY <5>1, TermsAssumption DEF Powers
        <5>3. QED
          BY <2>10, <5>1, <5>2
      <4>2. QED
        BY <4>1
    <3>2. Get(polynomial, 0, 1) = Get(polynomial, 0, 0)
      BY <3>1 DEF Get
    <3>3. written[0] = 0 <=> Get(polynomial, 0, 1) = 0
      BY <2>3, <2>6, <3>2
    <3>4. Kind = IF written[0] = 0 THEN "all reals" ELSE "no solution"
      BY <2>10 DEF Kind
    <3>5. SolveDegree0 = IF written[0] = 0 THEN "all reals" ELSE "no solution"
      BY <3>3 DEF SolveDegree0
    <3>6. QED
      BY <2>7, <2>10, <3>4, <3>5, Zenon
  <2>11. CASE degree > 2
    <3>1. Kind = "too high"
      BY <2>4, <2>11 DEF Kind
    <3>2. QED
      BY <2>7, <2>11, <3>1, Zenon
  <2>12. QED
    BY <2>4, <2>8, <2>9, <2>10, <2>11
<1>2. EquationInv => RightUnlessCancelled
  BY <1>1, BeyondRounding DEF RightUnlessCancelled
<1>3. QED
  BY <1>2, EquationInvariant, PTL
=============================================================================
