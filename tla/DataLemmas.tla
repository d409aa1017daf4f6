----------------------------- MODULE DataLemmas -----------------------------
(***************************************************************************)
(* What the proofs need to know of numbers, finite sets and recursive      *)
(* functions: quotients and remainders for an arbitrary positive modulus,  *)
(* the fold SumFunctionOnSet of the Functions module, Min and Max of       *)
(* FiniteSetsExt, and that a function defined by recursion over a          *)
(* well-founded set obeys its definition.                                  *)
(*                                                                         *)
(* Induction is used in its first-order form: a set of counterexamples     *)
(* has a minimal member.                                                   *)
(***************************************************************************)
EXTENDS Integers, Functions, FiniteSetsExt, FiniteSetTheorems, TLAPS

\* Division by a positive w: quotient and remainder, and that they are unique.
LEMMA DivMod ==
    ASSUME NEW w \in Nat \ {0}, NEW n \in Nat
    PROVE  /\ n \div w \in Nat /\ n % w \in 0..(w - 1)
           /\ n = w * (n \div w) + (n % w)
OBVIOUS

\* A positive factor does not make a positive number smaller.
LEMMA TimesAtLeast == ASSUME NEW w \in Nat \ {0}, NEW k \in Int, k >= 1 PROVE w * k >= w
OBVIOUS

\* A negative multiple of w is at most -w.
LEMMA TimesAtMost == ASSUME NEW w \in Nat \ {0}, NEW k \in Int, k <= -1 PROVE w * k <= -w
OBVIOUS

\* Quotient and remainder are determined by the sum they make up.
LEMMA RemainderUnique ==
    ASSUME NEW w \in Nat \ {0}, NEW a \in Int, NEW b \in Int,
           NEW r \in 0..(w - 1), NEW s \in 0..(w - 1), w * a + r = w * b + s
    PROVE  r = s
<1>1. w * (a - b) = s - r /\ a - b \in Int
  OBVIOUS
<1>2. CASE a - b >= 1
  BY <1>1, <1>2, TimesAtLeast
<1>3. CASE a - b <= -1
  BY <1>1, <1>3, TimesAtMost
<1>4. CASE a - b = 0
  BY <1>4
<1>5. QED
  BY <1>1, <1>2, <1>3, <1>4

\* A number written as a multiple of w and a rest below w has that rest as remainder.
LEMMA ModOfSum ==
    ASSUME NEW w \in Nat \ {0}, NEW q \in Nat, NEW r \in 0..(w - 1)
    PROVE  (w * q + r) % w = r
<1> DEFINE d == (w * q + r) \div w
           e == (w * q + r) % w
<1>1. w * q + r \in Nat
  OBVIOUS
<1>2. d \in Nat /\ e \in 0..(w - 1) /\ w * q + r = w * d + e
  BY <1>1, DivMod
<1> HIDE DEF d, e
<1>3. r = e
  BY <1>2, RemainderUnique
<1>4. QED
  BY <1>3 DEF e

----------------------------------------------------------------------------

\* Induction over the subsets of a finite set: if any of them is bad, some bad one has no bad
\* proper subset.
LEMMA MinimalSubset ==
    ASSUME NEW S, IsFiniteSet(S), NEW Bad \in SUBSET SUBSET S, Bad # {}
    PROVE  \E T \in Bad : \A U \in SUBSET T : U # T => U \notin Bad
<1>1. IsWellFoundedOn(StrictSubsetOrdering(S), FiniteSubsetsOf(S))
  BY FS_StrictSubsetOrderingWellFounded
<1>2. FiniteSubsetsOf(S) = SUBSET S
  BY FS_FiniteSubsetsOfFinite
<1>3. PICK T \in Bad : \A U \in Bad : <<U, T>> \notin StrictSubsetOrdering(S)
  BY <1>1, <1>2, WFMin
<1>4. QED
  BY <1>3 DEF StrictSubsetOrdering

(* g maps every subset of S to the sum of f over it. *)
Additive(g, f, S) ==
    /\ g \in [SUBSET S -> Int] /\ g[{}] = 0
    /\ \A s \in SUBSET S, x \in S : x \notin s => g[s \cup {x}] = g[s] + f[x]

\* Sums exist, whatever order they are taken in.
LEMMA AdditiveExists ==
    ASSUME NEW S, IsFiniteSet(S), NEW f, \A x \in S : f[x] \in Int
    PROVE  \E g : Additive(g, f, S)
<1> DEFINE Bad == {T \in SUBSET S : ~ \E g : Additive(g, f, T)}
<1>1. SUFFICES ASSUME S \in Bad PROVE FALSE
  OBVIOUS
<1>2. PICK T \in Bad : \A U \in SUBSET T : U # T => U \notin Bad
  <2>1. Bad \in SUBSET SUBSET S /\ Bad # {}
    BY <1>1
  <2> HIDE DEF Bad
  <2>2. QED
    BY <2>1, MinimalSubset
<1>3. T \in SUBSET S /\ ~ \E g : Additive(g, f, T)
  OBVIOUS
<1>4. \A U \in SUBSET T : U # T => \E g : Additive(g, f, U)
  BY <1>2, <1>3
<1>5. CASE T = {}
  <2> DEFINE g == [s \in SUBSET T |-> 0]
  <2>1. Additive(g, f, T)
    BY <1>5 DEF Additive
  <2>2. QED
    BY <1>3, <2>1
<1>6. CASE T # {}
  <2>1. PICK y : y \in T
    BY <1>6
  <2> DEFINE U == T \ {y}
  <2>2. PICK h : Additive(h, f, U)
    BY <1>4, <2>1
  <2> DEFINE g == [s \in SUBSET T |-> IF y \in s THEN h[s \ {y}] + f[y] ELSE h[s]]
  <2>3. f[y] \in Int
    BY <1>3, <2>1
  <2>4. \A s \in SUBSET T : s \ {y} \in SUBSET U /\ (y \notin s => s \in SUBSET U)
    OBVIOUS
  <2>5. g \in [SUBSET T -> Int] /\ g[{}] = 0
    BY <2>2, <2>3, <2>4 DEF Additive
  <2>6. ASSUME NEW s \in SUBSET T, NEW x \in T, x \notin s
        PROVE  g[s \cup {x}] = g[s] + f[x]
    <3>0. s \cup {x} \in SUBSET T
      OBVIOUS
    <3>1. CASE x = y
      <4>1. (s \cup {x}) \ {y} = s /\ y \notin s
        BY <2>6, <3>1
      <4>2. QED
        BY <3>0, <3>1, <4>1
    <3>2. CASE x # y /\ y \in s
      <4>1. (s \cup {x}) \ {y} = (s \ {y}) \cup {x} /\ x \in U /\ x \notin s \ {y}
        BY <2>6, <3>2
      <4>2. h[(s \ {y}) \cup {x}] = h[s \ {y}] + f[x]
        BY <2>2, <2>4, <4>1 DEF Additive
      <4>3. h[s \ {y}] \in Int /\ f[x] \in Int
        BY <1>3, <2>2, <2>4 DEF Additive
      <4>4. g[s \cup {x}] = h[(s \ {y}) \cup {x}] + f[y] /\ g[s] = h[s \ {y}] + f[y]
        BY <3>0, <3>2, <4>1
      <4>5. QED
        BY <2>3, <4>2, <4>3, <4>4
    <3>3. CASE x # y /\ y \notin s
      <4>1. s \in SUBSET U /\ x \in U /\ y \notin s \cup {x}
        BY <3>3
      <4>2. h[s \cup {x}] = h[s] + f[x]
        BY <2>2, <2>6, <4>1 DEF Additive
      <4>3. QED
        BY <3>0, <3>3, <4>1, <4>2
    <3>4. QED
      BY <3>1, <3>2, <3>3
  <2>7. Additive(g, f, T)
    BY <2>5, <2>6 DEF Additive
  <2>8. QED
    BY <1>3, <2>7
<1>7. QED
  BY <1>5, <1>6

\* The fold over a set is the value there of any additive function.
LEMMA SumIsAdditive ==
    ASSUME NEW S, IsFiniteSet(S), NEW f, \A x \in S : f[x] \in Int, NEW g, Additive(g, f, S)
    PROVE  SumFunctionOnSet(f, S) = g[S]
<1> DEFINE c(s) == CHOOSE x \in s : TRUE
           it == CHOOSE it : it = [s \in SUBSET S |->
                     IF s = {} THEN 0 ELSE f[c(s)] + it[s \ {c(s)}]]
<1>1. \A s \in SUBSET S : s # {} => c(s) \in s
  OBVIOUS
<1>2. SumFunctionOnSet(f, S) = it[S]
  BY DEF SumFunctionOnSet, FoldFunctionOnSet, MapThenFoldSet
<1>3. g = [s \in SUBSET S |-> IF s = {} THEN 0 ELSE f[c(s)] + g[s \ {c(s)}]]
  <2>1. ASSUME NEW s \in SUBSET S, s # {} PROVE g[s] = f[c(s)] + g[s \ {c(s)}]
    <3>1. c(s) \in s
      BY <1>1, <2>1
    <3> DEFINE x == c(s)
               t == s \ {x}
    <3>2. t \in SUBSET S /\ x \in S /\ x \notin t /\ t \cup {x} = s
      BY <3>1
    <3> HIDE DEF x, t
    <3>3. g[t \cup {x}] = g[t] + f[x] /\ g[t] \in Int /\ f[x] \in Int
      BY <3>2 DEF Additive
    <3>4. g[t \cup {x}] = g[s]
      BY <3>2, Zenon
    <3>5. g[s] = f[x] + g[t]
      BY <3>3, <3>4
    <3>6. QED
      BY <3>5 DEF x, t
  <2>2. g \in [SUBSET S -> Int] /\ g[{}] = 0
    BY DEF Additive
  <2> HIDE DEF c
  <2>3. QED
    BY <2>1, <2>2
<1> HIDE DEF c
<1>4. it = [s \in SUBSET S |-> IF s = {} THEN 0 ELSE f[c(s)] + it[s \ {c(s)}]]
  BY <1>3
<1> HIDE DEF it
<1>5. \A s \in SUBSET S : it[s] = g[s]
  <2> DEFINE Bad == {s \in SUBSET S : it[s] # g[s]}
  <2>1. SUFFICES ASSUME Bad # {} PROVE FALSE
    OBVIOUS
  <2>2. PICK T \in Bad : \A U \in SUBSET T : U # T => U \notin Bad
    <3>1. Bad \in SUBSET SUBSET S
      OBVIOUS
    <3> HIDE DEF Bad
    <3>2. QED
      BY <2>1, <3>1, MinimalSubset
  <2>3. CASE T = {}
    BY <1>3, <1>4, <2>3
  <2>4. CASE T # {}
    <3>1. c(T) \in T /\ T \in SUBSET S
      BY <1>1, <2>4
    <3>2. it[T \ {c(T)}] = g[T \ {c(T)}]
      BY <2>2, <3>1
    <3>3. it[T] = f[c(T)] + it[T \ {c(T)}]
      BY <1>4, <2>4, <3>1
    <3>4. g[T] = f[c(T)] + g[T \ {c(T)}]
      BY <1>3, <2>4, <3>1
    <3>5. QED
      BY <3>2, <3>3, <3>4
  <2>5. QED
    BY <2>3, <2>4
<1>6. QED
  BY <1>2, <1>5 DEF it

\* Adding an element adds its value.
LEMMA SumAdd ==
    ASSUME NEW S, IsFiniteSet(S), NEW x, x \notin S, NEW f, \A y \in S \cup {x} : f[y] \in Int
    PROVE  /\ SumFunctionOnSet(f, S) \in Int
           /\ SumFunctionOnSet(f, S \cup {x}) = SumFunctionOnSet(f, S) + f[x]
<1> DEFINE T == S \cup {x}
<1>1. IsFiniteSet(T)
  BY FS_AddElement
<1>2. PICK g : Additive(g, f, T)
  BY <1>1, AdditiveExists
<1> DEFINE h == [s \in SUBSET S |-> g[s]]
<1>3. Additive(h, f, S)
  BY <1>2 DEF Additive
<1>4. SumFunctionOnSet(f, S) = h[S] /\ SumFunctionOnSet(f, T) = g[T]
  BY <1>1, <1>2, <1>3, SumIsAdditive
<1>5. h[S] = g[S] /\ g[S] \in Int /\ g[T] = g[S] + f[x]
  BY <1>2 DEF Additive
<1>6. QED
  BY <1>4, <1>5

\* The sum over no element.
LEMMA SumEmpty == ASSUME NEW f PROVE SumFunctionOnSet(f, {}) = 0
<1> DEFINE g == [s \in SUBSET {} |-> 0]
<1>1. Additive(g, f, {})
  BY DEF Additive
<1>2. QED
  BY <1>1, SumIsAdditive, FS_EmptySet

\* Sums of integers are integers, and functions that agree on a set have the same sum over it.
LEMMA SumSame ==
    ASSUME NEW S, IsFiniteSet(S), NEW f, NEW h, \A x \in S : f[x] \in Int /\ h[x] = f[x]
    PROVE  SumFunctionOnSet(f, S) \in Int /\ SumFunctionOnSet(h, S) = SumFunctionOnSet(f, S)
<1>1. PICK g : Additive(g, f, S)
  BY AdditiveExists
<1>2. Additive(g, h, S)
  BY <1>1 DEF Additive
<1>3. SumFunctionOnSet(f, S) = g[S] /\ SumFunctionOnSet(h, S) = g[S]
  BY <1>1, <1>2, SumIsAdditive
<1>4. QED
  BY <1>1, <1>3 DEF Additive

\* Renumbering the elements does not change the sum.
LEMMA SumShifted ==
    ASSUME NEW S \in SUBSET Int, IsFiniteSet(S), NEW f, NEW h,
           \A i \in S : f[i + 1] \in Int /\ h[i] = f[i + 1]
    PROVE  SumFunctionOnSet(f, {i + 1 : i \in S}) = SumFunctionOnSet(h, S)
<1> DEFINE T == {i + 1 : i \in S}
           Down(t) == {j - 1 : j \in t}
<1>1. PICK g : Additive(g, h, S)
  BY AdditiveExists
<1> DEFINE k == [t \in SUBSET T |-> g[Down(t)]]
<1>2. \A t \in SUBSET T : Down(t) \in SUBSET S
  OBVIOUS
<1>3. Down(T) = S /\ Down({}) = {}
  <2>1. \A i \in S : i + 1 \in T /\ (i + 1) - 1 = i
    OBVIOUS
  <2>2. S \subseteq Down(T)
    BY <2>1
  <2>3. Down(T) \subseteq S /\ Down({}) = {}
    OBVIOUS
  <2>4. QED
    BY <2>2, <2>3
<1>4. ASSUME NEW t \in SUBSET T, NEW x \in T, x \notin t
      PROVE  k[t \cup {x}] = k[t] + f[x]
  <2>1. Down(t \cup {x}) = Down(t) \cup {x - 1} /\ x - 1 \in S /\ x - 1 \notin Down(t)
    BY <1>4
  <2>2. h[x - 1] = f[x]
    BY <2>1
  <2>3. QED
    BY <1>1, <1>2, <2>1, <2>2 DEF Additive
<1>5. k \in [SUBSET T -> Int] /\ k[{}] = 0
  BY <1>1, <1>2, <1>3 DEF Additive
<1>6. Additive(k, f, T)
  BY <1>4, <1>5 DEF Additive
<1>7. IsFiniteSet(T)
  <2> DEFINE up == [i \in S |-> i + 1]
  <2>1. up \in Surjection(S, T)
    BY DEF Surjection
  <2>2. QED
    BY <2>1, FS_Surjection
<1>8. \A j \in T : f[j] \in Int
  OBVIOUS
<1>9. \A i \in S : h[i] \in Int
  OBVIOUS
<1>10. SumFunctionOnSet(f, T) = k[T] /\ SumFunctionOnSet(h, S) = g[S]
  <2> HIDE DEF T, k
  <2> QED
    BY <1>1, <1>6, <1>7, <1>8, <1>9, SumIsAdditive
<1>11. k[T] = g[S]
  BY <1>3
<1>12. QED
  BY <1>10, <1>11

\* The sum over the first n + 1 positions.
LEMMA SumNext ==
    ASSUME NEW n \in Nat, NEW f, \A i \in 1..(n + 1) : f[i] \in Int
    PROVE  /\ SumFunctionOnSet(f, 1..n) \in Int
           /\ SumFunctionOnSet(f, 1..(n + 1)) = SumFunctionOnSet(f, 1..n) + f[n + 1]
<1> DEFINE S == 1..n
<1>1. S \cup {n + 1} = 1..(n + 1) /\ n + 1 \notin S
  OBVIOUS
<1>2. IsFiniteSet(S)
  BY FS_Interval
<1> HIDE DEF S
<1>3. /\ SumFunctionOnSet(f, S) \in Int
      /\ SumFunctionOnSet(f, S \cup {n + 1}) = SumFunctionOnSet(f, S) + f[n + 1]
  BY <1>1, <1>2, SumAdd, SMTT(30)
<1>4. SumFunctionOnSet(f, S \cup {n + 1}) = SumFunctionOnSet(f, 1..(n + 1))
  BY <1>1, Zenon
<1>5. QED
  BY <1>3, <1>4 DEF S

\* Changing the value of one element changes the sum by as much.
LEMMA SumChanged ==
    ASSUME NEW S, IsFiniteSet(S), NEW x \in S, NEW f, NEW h, f[x] \in Int, h[x] \in Int,
           \A y \in S : y # x => f[y] \in Int /\ h[y] = f[y]
    PROVE  SumFunctionOnSet(h, S) = SumFunctionOnSet(f, S) - f[x] + h[x]
<1> DEFINE T == S \ {x}
<1>1. T \cup {x} = S /\ x \notin T /\ IsFiniteSet(T)
  BY FS_RemoveElement
<1>2. \A y \in T : f[y] \in Int /\ h[y] = f[y]
  OBVIOUS
<1> HIDE DEF T
<1>3. SumFunctionOnSet(f, T) \in Int /\ SumFunctionOnSet(h, T) = SumFunctionOnSet(f, T)
  BY <1>1, <1>2, SumSame
<1>4. /\ SumFunctionOnSet(f, T \cup {x}) = SumFunctionOnSet(f, T) + f[x]
      /\ SumFunctionOnSet(h, T \cup {x}) = SumFunctionOnSet(h, T) + h[x]
  <2>1. /\ \A y \in T \cup {x} : f[y] \in Int
        /\ \A y \in T \cup {x} : h[y] \in Int
    BY <1>2
  <2>2. SumFunctionOnSet(f, T \cup {x}) = SumFunctionOnSet(f, T) + f[x]
    BY <1>1, <2>1, SumAdd, ZenonT(30)
  <2>3. SumFunctionOnSet(h, T \cup {x}) = SumFunctionOnSet(h, T) + h[x]
    BY <1>1, <2>1, SumAdd, ZenonT(30)
  <2>4. QED
    BY <2>2, <2>3
<1>5. /\ SumFunctionOnSet(f, T \cup {x}) = SumFunctionOnSet(f, S)
      /\ SumFunctionOnSet(h, T \cup {x}) = SumFunctionOnSet(h, S)
  BY <1>1, Zenon
<1>6. QED
  BY <1>3, <1>4, <1>5

\* The sum of a sequence of integers that is one longer.
LEMMA SumFunctionNext ==
    ASSUME NEW n \in Nat, NEW f, NEW h, DOMAIN f = 1..n, DOMAIN h = 1..(n + 1),
           \A i \in 1..n : h[i] = f[i], \A i \in 1..(n + 1) : h[i] \in Int
    PROVE  SumFunction(f) \in Int /\ SumFunction(h) = SumFunction(f) + h[n + 1]
<1> DEFINE S == 1..n
<1>1. SumFunctionOnSet(h, 1..(n + 1)) = SumFunctionOnSet(h, S) + h[n + 1]
  BY SumNext
<1>2. IsFiniteSet(S) /\ \A x \in S : h[x] \in Int /\ f[x] = h[x]
  BY FS_Interval, SMTT(30)
<1> HIDE DEF S
<1>3. SumFunctionOnSet(h, S) \in Int /\ SumFunctionOnSet(f, S) = SumFunctionOnSet(h, S)
  BY <1>2, SumSame
<1>4. SumFunction(f) = SumFunctionOnSet(f, S) /\ SumFunction(h) = SumFunctionOnSet(h, 1..(n + 1))
  BY DEF SumFunction, S
<1>5. QED
  BY <1>1, <1>3, <1>4

----------------------------------------------------------------------------

\* A finite set of integers that is not empty has a smallest and a largest member.
LEMMA BoundsExist ==
    ASSUME NEW S \in SUBSET Int, IsFiniteSet(S), S # {}
    PROVE  /\ \E m \in S : \A x \in S : m <= x
           /\ \E m \in S : \A x \in S : m >= x
<1> DEFINE Least(T) == \E m \in T : \A x \in T : m <= x
           Most(T) == \E m \in T : \A x \in T : m >= x
           Bad == {T \in SUBSET S : T # {} /\ ~ (Least(T) /\ Most(T))}
<1>1. SUFFICES ASSUME S \in Bad PROVE FALSE
  OBVIOUS
<1>2. PICK T \in Bad : \A U \in SUBSET T : U # T => U \notin Bad
  <2>1. Bad \in SUBSET SUBSET S /\ Bad # {}
    BY <1>1
  <2> HIDE DEF Bad
  <2>2. QED
    BY <2>1, MinimalSubset
<1>3. PICK y : y \in T
  OBVIOUS
<1> DEFINE U == T \ {y}
<1>4. T \in SUBSET S /\ y \in Int /\ ~ (Least(T) /\ Most(T))
  BY <1>3
<1>5. U # {}
  BY <1>3, <1>4
<1>6. Least(U) /\ Most(U)
  <2>1. U \notin Bad
    BY <1>2, <1>3
  <2>2. U \in SUBSET S
    BY <1>4
  <2>3. QED
    BY <1>5, <2>1, <2>2
<1>7. Least(T)
  <2>1. PICK m \in U : \A x \in U : m <= x
    BY <1>6
  <2>2. m \in Int /\ \A x \in T : x \in Int /\ (x = y \/ x \in U)
    BY <1>4
  <2>3. CASE y <= m
    BY <1>3, <1>4, <2>1, <2>2, <2>3
  <2>4. CASE m <= y
    BY <2>1, <2>2, <2>4
  <2>5. QED
    BY <1>4, <2>2, <2>3, <2>4
<1>8. Most(T)
  <2>1. PICK m \in U : \A x \in U : m >= x
    BY <1>6
  <2>2. m \in Int /\ \A x \in T : x \in Int /\ (x = y \/ x \in U)
    BY <1>4
  <2>3. CASE y >= m
    BY <1>3, <1>4, <2>1, <2>2, <2>3
  <2>4. CASE m >= y
    BY <2>1, <2>2, <2>4
  <2>5. QED
    BY <1>4, <2>2, <2>3, <2>4
<1>9. QED
  BY <1>4, <1>7, <1>8

\* Min and Max of such a set, and of the set with one more member.
LEMMA BoundsAdd ==
    ASSUME NEW S \in SUBSET Int, IsFiniteSet(S), S # {}, NEW n \in Int
    PROVE  /\ Min(S) \in Int /\ Min(S \cup {n}) = IF n < Min(S) THEN n ELSE Min(S)
           /\ Max(S) \in Int /\ Max(S \cup {n}) = IF n > Max(S) THEN n ELSE Max(S)
<1> DEFINE T == S \cup {n}
<1>1. Min(S) \in S /\ \A x \in S : Min(S) <= x
  BY BoundsExist DEF Min
<1>2. Max(S) \in S /\ \A x \in S : Max(S) >= x
  BY BoundsExist DEF Max
<1>3. T \in SUBSET Int /\ IsFiniteSet(T) /\ T # {}
  BY FS_AddElement
<1>4. \A x : x \in T <=> x = n \/ x \in S
  OBVIOUS
<1> HIDE DEF T
<1>5. Min(T) \in T /\ \A x \in T : Min(T) <= x
  BY <1>3, BoundsExist DEF Min
<1>6. Max(T) \in T /\ \A x \in T : Max(T) >= x
  BY <1>3, BoundsExist DEF Max
<1> DEFINE a == Min(S)
           b == Max(S)
           c == Min(T)
           d == Max(T)
<1>7. /\ a \in S /\ a \in Int /\ \A x \in S : a <= x
      /\ b \in S /\ b \in Int /\ \A x \in S : b >= x
      /\ c \in T /\ c \in Int /\ \A x \in T : c <= x
      /\ d \in T /\ d \in Int /\ \A x \in T : d >= x
  BY <1>1, <1>2, <1>3, <1>5, <1>6
<1> HIDE DEF a, b, c, d
<1>8. c = IF n < a THEN n ELSE a
  BY <1>4, <1>7
<1>9. d = IF n > b THEN n ELSE b
  BY <1>4, <1>7
<1>10. QED
  BY <1>7, <1>8, <1>9 DEF a, b, c, d, T

\* A set of natural numbers that is not empty has a least one.
LEMMA LeastNat ==
    ASSUME NEW S \in SUBSET Nat, S # {} PROVE \E m \in S : \A x \in S : m <= x
<1>1. PICK n \in S : TRUE
  OBVIOUS
<1> DEFINE T == {x \in S : x <= n}
<1>2. T \in SUBSET Int /\ T # {} /\ T \subseteq 0..n
  <2>1. n \in Nat /\ n <= n
    BY <1>1
  <2>2. n \in T
    BY <1>1, <2>1
  <2>3. \A x \in T : x \in Int /\ x \in 0..n
    BY <2>1
  <2>4. QED
    BY <2>1, <2>2, <2>3
<1>3. IsFiniteSet(T)
  <2>1. IsFiniteSet(0..n)
    BY <1>1, FS_Interval
  <2> HIDE DEF T
  <2>2. QED
    BY <1>2, <2>1, FS_Subset
<1>4. PICK m \in T : \A x \in T : m <= x
  <2> HIDE DEF T
  <2> QED
    BY <1>2, <1>3, BoundsExist
<1>5. m \in S /\ m \in Int /\ m <= n /\ n \in Int
  OBVIOUS
<1>6. \A x \in S : m <= x
  <2> SUFFICES ASSUME NEW x \in S PROVE m <= x
    OBVIOUS
  <2>1. CASE x <= n
    BY <1>4, <2>1
  <2>2. CASE ~ (x <= n)
    BY <1>5, <2>2
  <2>3. QED
    BY <2>1, <2>2
<1>7. QED
  BY <1>5, <1>6

----------------------------------------------------------------------------

(* pre[x] are the arguments that the value at x depends on; there is no infinite chain. *)
WellFoundedBy(pre, D) ==
    /\ pre \in [D -> SUBSET D]
    /\ \A S \in SUBSET D : S # {} => \E x \in S : pre[x] \cap S = {}

(* The functions on parts of D, and those that step determines on a part T that holds all *)
(* that its members depend on.                                                             *)
Partial(D, Y) == UNION {[T -> Y] : T \in SUBSET D}

Solves(g, T, pre, step, D, Y) ==
    /\ T \in SUBSET D /\ g \in [T -> Y]
    /\ \A x \in T : pre[x] \subseteq T /\ g[x] = step[<<x, [y \in pre[x] |-> g[y]]>>]

\* Arguments with a smaller measure.
LEMMA MeasureDecreases ==
    ASSUME NEW D, NEW m, \A x \in D : m[x] \in Nat, NEW pre \in [D -> SUBSET D],
           \A x \in D : \A y \in pre[x] : m[y] < m[x]
    PROVE  WellFoundedBy(pre, D)
<1>1. SUFFICES ASSUME NEW S \in SUBSET D, S # {} PROVE \E x \in S : pre[x] \cap S = {}
  BY DEF WellFoundedBy
<1> DEFINE M == {m[x] : x \in S}
<1>2. M \in SUBSET Nat /\ M # {}
  BY <1>1
<1> HIDE DEF M
<1>3. PICK n \in M : \A k \in M : n <= k
  BY <1>2, LeastNat
<1>4. PICK x \in S : m[x] = n
  BY <1>3 DEF M
<1>5. \A y \in S : n <= m[y]
  BY <1>3 DEF M
<1>6. \A y \in pre[x] : m[y] < n /\ m[y] \in Nat
  BY <1>4
<1>7. n \in Nat
  BY <1>4
<1>8. QED
  BY <1>5, <1>6, <1>7

\* Two solutions agree where both are defined.
LEMMA SolutionsAgree ==
    ASSUME NEW D, NEW Y, NEW pre, WellFoundedBy(pre, D), NEW step,
           NEW g, NEW T, Solves(g, T, pre, step, D, Y),
           NEW h, NEW U, Solves(h, U, pre, step, D, Y)
    PROVE  \A x \in T \cap U : g[x] = h[x]
<1> DEFINE S == {x \in T \cap U : g[x] # h[x]}
<1>1. SUFFICES ASSUME S # {} PROVE FALSE
  OBVIOUS
<1>2. S \in SUBSET D
  BY DEF Solves
<1>3. PICK x \in S : pre[x] \cap S = {}
  <2> HIDE DEF S
  <2> QED
    BY <1>1, <1>2 DEF WellFoundedBy
<1>4. pre[x] \subseteq T \cap U
  BY DEF Solves
<1>5. \A y \in pre[x] : g[y] = h[y]
  BY <1>3, <1>4
<1>6. [y \in pre[x] |-> g[y]] = [y \in pre[x] |-> h[y]]
  BY <1>5
<1>7. /\ g[x] = step[<<x, [y \in pre[x] |-> g[y]]>>]
      /\ h[x] = step[<<x, [y \in pre[x] |-> h[y]]>>]
  BY DEF Solves
<1>8. g[x] = h[x]
  BY <1>6, <1>7, Zenon
<1>9. QED
  BY <1>3, <1>8

\* A function can be defined by recursion over a well-founded set.
LEMMA RecursiveFunction ==
    ASSUME NEW D, NEW Y, NEW pre, WellFoundedBy(pre, D),
           NEW step \in [D \X Partial(D, Y) -> Y]
    PROVE  \E g : Solves(g, D, pre, step, D, Y)
<1> DEFINE Known(x) == \E g, T : x \in T /\ Solves(g, T, pre, step, D, Y)
           Sol(x) == CHOOSE g : \E T : x \in T /\ Solves(g, T, pre, step, D, Y)
           G == [x \in D |-> Sol(x)[x]]
           K == {x \in D : Known(x)}
<1>1. \A x \in K : \E T : x \in T /\ Solves(Sol(x), T, pre, step, D, Y)
  OBVIOUS
<1>2. ASSUME NEW g, NEW T, Solves(g, T, pre, step, D, Y)
      PROVE  T \subseteq K /\ \A x \in T : G[x] = g[x]
  <2>1. T \subseteq K
    BY <1>2 DEF Solves
  <2>2. ASSUME NEW x \in T PROVE G[x] = g[x]
    <3>1. PICK U : x \in U /\ Solves(Sol(x), U, pre, step, D, Y)
      BY <1>1, <2>1
    <3> DEFINE h == Sol(x)
    <3>2. Solves(h, U, pre, step, D, Y) /\ x \in T \cap U
      BY <3>1
    <3>3. G[x] = h[x]
      BY <2>1
    <3> HIDE DEF h, G
    <3>4. g[x] = h[x]
      BY <1>2, <3>2, SolutionsAgree
    <3>5. QED
      BY <3>3, <3>4
  <2>3. QED
    BY <2>1, <2>2
<1> HIDE DEF G
<1>3. ASSUME NEW x \in K
      PROVE  /\ pre[x] \subseteq K /\ G[x] \in Y
             /\ G[x] = step[<<x, [y \in pre[x] |-> G[y]]>>]
  <2>1. PICK g, T : x \in T /\ Solves(g, T, pre, step, D, Y)
    OBVIOUS
  <2>2. T \subseteq K /\ \A y \in T : G[y] = g[y]
    BY <1>2, <2>1
  <2>3. pre[x] \subseteq T /\ g[x] \in Y /\ g[x] = step[<<x, [y \in pre[x] |-> g[y]]>>]
    BY <2>1 DEF Solves
  <2>4. \A y \in pre[x] : G[y] = g[y]
    BY <2>2, <2>3
  <2>5. [y \in pre[x] |-> G[y]] = [y \in pre[x] |-> g[y]]
    BY <2>4
  <2>6. G[x] = step[<<x, [y \in pre[x] |-> G[y]]>>]
    BY <2>1, <2>2, <2>3, <2>5, Zenon
  <2>7. QED
    BY <2>1, <2>2, <2>3, <2>6
<1>4. K = D
  <2>1. SUFFICES ASSUME D \ K # {} PROVE FALSE
    OBVIOUS
  <2>2. PICK x \in D \ K : pre[x] \cap (D \ K) = {}
    <3> DEFINE S == D \ K
    <3>1. S \in SUBSET D /\ S # {}
      BY <2>1
    <3> HIDE DEF S
    <3>2. \E x \in S : pre[x] \cap S = {}
      BY <3>1 DEF WellFoundedBy
    <3>3. QED
      BY <3>2 DEF S
  <2> HIDE DEF K
  <2>3. pre[x] \subseteq K /\ pre[x] \in SUBSET D /\ K \subseteq D
    <3>1. pre[x] \in SUBSET D
      BY DEF WellFoundedBy
    <3>2. QED
      BY <2>2, <3>1 DEF K
  <2> DEFINE r == [y \in pre[x] |-> G[y]]
             T == K \cup {x}
             g == [z \in T |-> IF z = x THEN step[<<x, r>>] ELSE G[z]]
  <2>4. r \in Partial(D, Y)
    <3>1. r \in [pre[x] -> Y]
      BY <1>3, <2>3
    <3> HIDE DEF r
    <3>2. QED
      BY <2>3, <3>1 DEF Partial
  <2>5. step[<<x, r>>] \in Y
    BY <2>2, <2>4
  <2>6. x \notin K /\ g \in [T -> Y]
    BY <1>3, <2>2, <2>5
  <2>7. ASSUME NEW z \in T
        PROVE  pre[z] \subseteq T /\ g[z] = step[<<z, [y \in pre[z] |-> g[y]]>>]
    <3>1. pre[z] \subseteq K /\ x \notin pre[z]
      BY <1>3, <2>3, <2>6
    <3>2. \A y \in pre[z] : g[y] = G[y]
      BY <3>1
    <3>3. [y \in pre[z] |-> g[y]] = [y \in pre[z] |-> G[y]]
      BY <3>2
    <3>4. g[z] = step[<<z, [y \in pre[z] |-> G[y]]>>]
      <4>1. CASE z = x
        BY <4>1
      <4>2. CASE z # x
        BY <1>3, <4>2
      <4>3. QED
        BY <4>1, <4>2
    <3> HIDE DEF g
    <3>5. QED
      BY <3>1, <3>3, <3>4
  <2> HIDE DEF g
  <2>8. Solves(g, T, pre, step, D, Y)
    <3>1. T \in SUBSET D
      BY <2>2, <2>3
    <3>2. QED
      BY <2>6, <2>7, <3>1 DEF Solves
  <2>9. Known(x)
    BY <2>8
  <2>10. QED
    BY <2>2, <2>9 DEF K
<1>5. G \in [D -> Y]
  <2>1. G = [x \in D |-> G[x]]
    BY DEF G
  <2>2. \A x \in D : G[x] \in Y
    BY <1>3, <1>4
  <2>3. QED
    BY <2>1, <2>2
<1>6. Solves(G, D, pre, step, D, Y)
  <2>1. \A x \in D : pre[x] \subseteq D /\ G[x] = step[<<x, [y \in pre[x] |-> G[y]]>>]
    BY <1>3, <1>4
  <2>2. QED
    BY <1>5, <2>1 DEF Solves
<1>7. QED
  BY <1>6

(* F makes a function of a function; the value of F[g] at x depends on g at pre[x] only. *)
Recursion(F, pre, D, Y) ==
    /\ WellFoundedBy(pre, D)
    /\ F \in [[D -> Y] -> [D -> Y]]
    /\ \A g, h \in [D -> Y] : \A x \in D :
            (\A y \in pre[x] : g[y] = h[y]) => F[g][x] = F[h][x]

\* The equation g = F[g] has a solution.
LEMMA RecursionSolved ==
    ASSUME NEW D, NEW Y, Y # {}, NEW pre, NEW F, Recursion(F, pre, D, Y)
    PROVE  \E g \in [D -> Y] : g = F[g]
<1>1. PICK y0 \in Y : TRUE
  OBVIOUS
<1> DEFINE Ext(h) == [y \in D |-> IF y \in DOMAIN h THEN h[y] ELSE y0]
           step == [p \in D \X Partial(D, Y) |-> F[Ext(p[2])][p[1]]]
<1>2. \A h \in Partial(D, Y) : Ext(h) \in [D -> Y]
  BY <1>1 DEF Partial
<1>3. step \in [D \X Partial(D, Y) -> Y]
  <2>1. \A x \in D, h \in Partial(D, Y) : F[Ext(h)][x] \in Y
    <3> HIDE DEF Ext
    <3> QED
      BY <1>2 DEF Recursion
  <2> HIDE DEF Ext
  <2>2. QED
    BY <2>1
<1>4. PICK g : Solves(g, D, pre, step, D, Y)
  <2> HIDE DEF step
  <2> QED
    BY <1>3, RecursiveFunction DEF Recursion
<1>5. g \in [D -> Y]
  BY <1>4 DEF Solves
<1>6. ASSUME NEW x \in D PROVE g[x] = F[g][x]
  <2> DEFINE h == [y \in pre[x] |-> g[y]]
  <2>1. pre[x] \in SUBSET D /\ g[x] = step[<<x, h>>]
    BY <1>4 DEF Solves
  <2>2. h \in Partial(D, Y)
    <3>1. h \in [pre[x] -> Y]
      BY <1>5, <2>1
    <3> HIDE DEF h
    <3>2. QED
      BY <2>1, <3>1 DEF Partial
  <2>3. step[<<x, h>>] = F[Ext(h)][x]
    <3> HIDE DEF h, Ext
    <3> QED
      BY <2>2
  <2>4. \A y \in pre[x] : Ext(h)[y] = g[y]
    BY <2>1
  <2> HIDE DEF h, Ext, step
  <2>5. QED
    BY <1>2, <1>5, <2>1, <2>2, <2>3, <2>4 DEF Recursion
<1>7. F[g] \in [D -> Y]
  BY <1>5 DEF Recursion
<1>8. QED
  BY <1>5, <1>6, <1>7

\* Two functions that agree wherever they agree on what a value depends on are the same.
LEMMA SameRecursion ==
    ASSUME NEW D, NEW pre, WellFoundedBy(pre, D), NEW f, NEW g,
           \A x \in D : (\A y \in pre[x] : f[y] = g[y]) => f[x] = g[x]
    PROVE  \A x \in D : f[x] = g[x]
<1> DEFINE S == {x \in D : f[x] # g[x]}
<1>1. SUFFICES ASSUME S # {} PROVE FALSE
  OBVIOUS
<1>2. PICK x \in S : pre[x] \cap S = {}
  <2>1. S \in SUBSET D
    OBVIOUS
  <2> HIDE DEF S
  <2>2. QED
    BY <1>1, <2>1 DEF WellFoundedBy
<1>3. pre[x] \in SUBSET D
  BY DEF WellFoundedBy
<1>4. QED
  BY <1>2, <1>3

----------------------------------------------------------------------------
(* A function that goes down step by step. *)

(* f goes down from x to next[x] until it reaches a member of Stop. *)
Descends(f, D, Stop, a, next, step) ==
    \A x \in D : f[x] = IF x \in Stop THEN a[x] ELSE step[<<x, f[next[x]]>>]

(* The way down ends, and each step of it gives a member of Y. *)
Descent(D, Y, Stop, a, next, step, m) ==
    /\ Stop \in SUBSET D
    /\ \A x \in D : m[x] \in Nat
    /\ \A x \in Stop : a[x] \in Y
    /\ \A x \in D \ Stop : next[x] \in D /\ m[next[x]] < m[x]
    /\ \A x \in D \ Stop : \A y \in Y : step[<<x, y>>] \in Y

\* The way down is well-founded.
LEMMA DescentWellFounded ==
    ASSUME NEW D, NEW Y, NEW Stop, NEW a, NEW next, NEW step, NEW m,
           Descent(D, Y, Stop, a, next, step, m)
    PROVE  WellFoundedBy([x \in D |-> IF x \in Stop THEN {} ELSE {next[x]}], D)
<1> DEFINE Below(x) == IF x \in Stop THEN {} ELSE {next[x]}
           pre == [x \in D |-> Below(x)]
<1>1. pre \in [D -> SUBSET D]
  BY DEF Descent
<1>2. \A x \in D : \A y \in pre[x] : m[y] < m[x]
  BY DEF Descent
<1>3. \A x \in D : m[x] \in Nat
  BY DEF Descent
<1>4. WellFoundedBy(pre, D)
  <2> HIDE DEF pre
  <2> QED
    BY <1>1, <1>2, <1>3, MeasureDecreases
<1>5. QED
  BY <1>4

\* There is such a function.
LEMMA DescentSolved ==
    ASSUME NEW D, NEW Y, Y # {}, NEW Stop, NEW a, NEW next, NEW step, NEW m,
           Descent(D, Y, Stop, a, next, step, m)
    PROVE  \E g \in [D -> Y] : Descends(g, D, Stop, a, next, step)
<1> DEFINE Below(x) == IF x \in Stop THEN {} ELSE {next[x]}
           pre == [x \in D |-> Below(x)]
           Body(h, x) == IF x \in Stop THEN a[x] ELSE step[<<x, h[next[x]]>>]
           F == [h \in [D -> Y] |-> [x \in D |-> Body(h, x)]]
<1>1. WellFoundedBy(pre, D)
  BY DescentWellFounded
<1>2. ASSUME NEW h \in [D -> Y], NEW x \in D PROVE Body(h, x) \in Y
  BY DEF Descent
<1>3. ASSUME NEW g, NEW h, NEW x \in D, \A y \in pre[x] : g[y] = h[y]
      PROVE  Body(g, x) = Body(h, x)
  BY <1>3
<1>4. Recursion(F, pre, D, Y)
  <2> HIDE DEF pre, Body
  <2> QED
    BY <1>1, <1>2, <1>3 DEF Recursion
<1>5. PICK g \in [D -> Y] : g = F[g]
  <2> HIDE DEF pre, F
  <2> QED
    BY <1>4, RecursionSolved
<1>6. \A x \in D : g[x] = Body(g, x)
  <2> HIDE DEF Body
  <2> QED
    BY <1>5
<1>7. QED
  BY <1>6 DEF Descends

\* Functions that agree where the way down ends, and wherever they agree one step below, are
\* the same.
LEMMA DescentSame ==
    ASSUME NEW D, NEW Y, NEW Stop, NEW a, NEW next, NEW step, NEW m,
           Descent(D, Y, Stop, a, next, step, m), NEW f, NEW g,
           \A x \in D : (x \in Stop \/ f[next[x]] = g[next[x]]) => f[x] = g[x]
    PROVE  \A x \in D : f[x] = g[x]
<1> DEFINE Below(x) == IF x \in Stop THEN {} ELSE {next[x]}
           pre == [x \in D |-> Below(x)]
<1>1. WellFoundedBy(pre, D)
  BY DescentWellFounded
<1>2. ASSUME NEW x \in D, \A y \in pre[x] : f[y] = g[y] PROVE f[x] = g[x]
  <2>1. x \in Stop \/ f[next[x]] = g[next[x]]
    BY <1>2
  <2>2. QED
    BY <2>1
<1> HIDE DEF pre
<1>3. QED
  BY <1>1, <1>2, SameRecursion

\* A property of every natural number, or of those up to a bound, by induction.
LEMMA Induction ==
    ASSUME NEW D \in SUBSET Nat, NEW P \in SUBSET D,
           \A k \in D : (\A l \in D : l < k => l \in P) => k \in P
    PROVE  D = P
<1>1. SUFFICES ASSUME D \ P # {} PROVE FALSE
  OBVIOUS
<1>2. PICK k \in D \ P : \A l \in D \ P : k <= l
  <2> DEFINE S == D \ P
  <2>1. S \in SUBSET Nat /\ S # {}
    BY <1>1
  <2> HIDE DEF S
  <2>2. \E k \in S : \A l \in S : k <= l
    BY <2>1, LeastNat
  <2>3. QED
    BY <2>2 DEF S
<1>3. \A l \in D : l < k => l \in P
  BY <1>2
<1>4. QED
  BY <1>2, <1>3

(* g begins with a, and each member follows from the one before. *)
Steps(g, D, a, step) == \A k \in D : g[k] = IF k = 0 THEN a ELSE step[<<k, g[k - 1]>>]

\* A function can be defined by recursion on a number, or on the numbers up to a bound.
LEMMA StepsSolved ==
    ASSUME NEW D \in SUBSET Nat, 0 \in D, \A k \in D \ {0} : k - 1 \in D,
           NEW Y, NEW a \in Y, NEW step,
           \A k \in D \ {0} : \A y \in Y : step[<<k, y>>] \in Y
    PROVE  \E g \in [D -> Y] : Steps(g, D, a, step)
<1> DEFINE Stop == {0}
           base == [k \in Stop |-> a]
           next == [k \in D |-> k - 1]
           m == [k \in D |-> k]
<1>1. Descent(D, Y, Stop, base, next, step, m)
  <2>1. Stop \in SUBSET D /\ \A x \in Stop : base[x] \in Y
    OBVIOUS
  <2>2. \A x \in D : m[x] \in Nat
    OBVIOUS
  <2>3. ASSUME NEW x \in D \ Stop PROVE next[x] \in D /\ m[next[x]] < m[x]
    <3>1. x - 1 \in D /\ next[x] = x - 1 /\ m[x] = x /\ x \in Nat
      OBVIOUS
    <3>2. m[x - 1] = x - 1
      BY <3>1
    <3>3. QED
      BY <3>1, <3>2
  <2>4. \A x \in D \ Stop : \A y \in Y : step[<<x, y>>] \in Y
    OBVIOUS
  <2> HIDE DEF Stop, base, next, m
  <2>5. QED
    BY <2>1, <2>2, <2>3, <2>4 DEF Descent
<1>2. Y # {}
  OBVIOUS
<1>3. PICK g \in [D -> Y] : Descends(g, D, Stop, base, next, step)
  <2> HIDE DEF Stop, base, next, m
  <2> QED
    BY <1>1, <1>2, DescentSolved
<1>4. Steps(g, D, a, step)
  BY <1>3 DEF Descends, Steps
<1>5. QED
  BY <1>4

(* f and g agree wherever they agree one step below. *)
SameBelow(f, g, D, Stop, next) ==
    \A x \in D : (x \in Stop \/ f[next[x]] = g[next[x]]) => f[x] = g[x]

\* DescentSame, for functions that are said to agree by name.
LEMMA DescentAgrees ==
    ASSUME NEW D, NEW Y, NEW Stop, NEW a, NEW next, NEW step, NEW m,
           Descent(D, Y, Stop, a, next, step, m), NEW f, NEW g, SameBelow(f, g, D, Stop, next)
    PROVE  \A x \in D : f[x] = g[x]
<1>1. \A x \in D : (x \in Stop \/ f[next[x]] = g[next[x]]) => f[x] = g[x]
  BY DEF SameBelow
<1>2. QED
  BY <1>1, DescentSame

----------------------------------------------------------------------------
(* More about quotients, Min and Max. *)

\* Quotient and remainder are told by any sum of a multiple and a small number.
LEMMA QuotientIs ==
    ASSUME NEW w \in Nat \ {0}, NEW q \in Int, NEW r \in 0..(w - 1), NEW k \in Int, k = w * q + r
    PROVE  k \div w = q /\ k % w = r
<1> DEFINE a == k \div w
           s == k % w
<1>1. a \in Int /\ s \in 0..(w - 1) /\ k = w * a + s
  OBVIOUS
<1> HIDE DEF a, s
<1>2. s = r
  BY <1>1, RemainderUnique
<1>3. w * a = w * q
  BY <1>1, <1>2
<1>4. a = q
  <2>1. w * (a - q) = 0 /\ a - q \in Int
    BY <1>1, <1>3
  <2>2. CASE a - q >= 1
    <3>1. w * (a - q) >= w
      BY <2>1, <2>2, TimesAtLeast
    <3>2. QED
      BY <2>1, <3>1
  <2>3. CASE a - q <= -1
    <3>1. w * (a - q) <= -w
      BY <2>1, <2>3, TimesAtMost
    <3>2. QED
      BY <2>1, <3>1
  <2>4. QED
    BY <1>1, <2>1, <2>2, <2>3
<1>5. QED
  BY <1>2, <1>4 DEF a, s

\* Dividing twice divides by the product.
LEMMA DividedTwice ==
    ASSUME NEW k \in Nat, NEW b \in Nat \ {0}, NEW p \in Nat \ {0}
    PROVE  (k \div b) \div p = k \div (b * p)
<1> DEFINE q == k \div b
           r == k % b
           t == q \div p
           s == q % p
<1>1. q \in Nat /\ r \in 0..(b - 1) /\ k = b * q + r
  BY DivMod
<1> HIDE DEF q, r
<1>2. t \in Nat /\ s \in 0..(p - 1) /\ q = p * t + s
  BY <1>1, DivMod
<1> HIDE DEF t, s
<1>3. b * q = b * (p * t) + b * s
  BY <1>1, <1>2
<1>4. b * (p * t) = (b * p) * t
  BY <1>2
<1>5. b * s + r \in 0..(b * p - 1)
  <2>1. s <= p - 1 /\ b * s \in Nat
    BY <1>2
  <2>2. b * s <= b * (p - 1)
    BY <1>2, <2>1
  <2>3. b * (p - 1) = b * p - b
    OBVIOUS
  <2>4. QED
    BY <1>1, <2>1, <2>2, <2>3
<1>6. b * p \in Nat \ {0}
  OBVIOUS
<1>7. k = (b * p) * t + (b * s + r)
  BY <1>1, <1>2, <1>3, <1>4
<1>8. k \div (b * p) = t
  BY <1>2, <1>5, <1>6, <1>7, QuotientIs
<1>9. QED
  BY <1>8 DEF t, q

\* Dividing keeps the order, and a number is below a multiple when its quotient is below the factor.
LEMMA QuotientBelow ==
    ASSUME NEW k \in Nat, NEW b \in Nat \ {0}, NEW p \in Nat
    PROVE  (k \div b < p) <=> (k < b * p)
<1> DEFINE q == k \div b
           r == k % b
<1>1. q \in Nat /\ r \in 0..(b - 1) /\ k = b * q + r
  BY DivMod
<1> HIDE DEF q, r
<1>2. CASE q < p
  <2>1. b * (p - q) >= b /\ b * (p - q) = b * p - b * q
    BY <1>1, <1>2
  <2>2. k < b * p
    BY <1>1, <2>1
  <2>3. QED
    BY <1>2, <2>2 DEF q
<1>3. CASE q >= p
  <2>1. b * (q - p) >= 0 /\ b * (q - p) = b * q - b * p
    BY <1>1, <1>3
  <2>2. k >= b * p
    BY <1>1, <2>1
  <2>3. QED
    BY <1>1, <1>3, <2>2 DEF q
<1>4. QED
  BY <1>1, <1>2, <1>3

\* Division of any integer by a positive number.
LEMMA DivModInt ==
    ASSUME NEW w \in Nat \ {0}, NEW k \in Int
    PROVE  k \div w \in Int /\ k % w \in 0..(w - 1) /\ k = w * (k \div w) + (k % w)
OBVIOUS

\* The least and the greatest member are what Min and Max choose.
LEMMA MinIs ==
    ASSUME NEW S \in SUBSET Int, NEW m \in S, \A x \in S : m <= x PROVE Min(S) = m
<1> DEFINE l == Min(S)
<1>1. l \in S /\ \A x \in S : l <= x
  BY DEF Min
<1> HIDE DEF l
<1>2. l \in Int /\ m \in Int /\ l <= m /\ m <= l
  BY <1>1
<1>3. l = m
  BY <1>2
<1>4. QED
  BY <1>3 DEF l

\* The greatest member is the maximum.
LEMMA MaxIs ==
    ASSUME NEW S \in SUBSET Int, NEW m \in S, \A x \in S : m >= x PROVE Max(S) = m
<1> DEFINE l == Max(S)
<1>1. l \in S /\ \A x \in S : l >= x
  BY DEF Max
<1> HIDE DEF l
<1>2. l \in Int /\ m \in Int /\ l >= m /\ m >= l
  BY <1>1
<1>3. l = m
  BY <1>2
<1>4. QED
  BY <1>3 DEF l

\* A set of natural numbers has a minimum.
LEMMA MinOfNat ==
    ASSUME NEW S \in SUBSET Nat, S # {}
    PROVE  Min(S) \in S /\ Min(S) \in Nat /\ \A x \in S : Min(S) <= x
<1>1. \E m \in S : \A x \in S : m <= x
  BY LeastNat
<1>2. QED
  BY <1>1 DEF Min

\* A set of numbers between two bounds has a maximum.
LEMMA MaxOfInterval ==
    ASSUME NEW a \in Int, NEW b \in Int, NEW S \in SUBSET (a..b), S # {}
    PROVE  Max(S) \in S /\ Max(S) \in a..b /\ \A x \in S : Max(S) >= x
<1>1. IsFiniteSet(S) /\ S \in SUBSET Int
  <2>1. IsFiniteSet(a..b)
    BY FS_Interval
  <2>2. IsFiniteSet(S)
    BY <2>1, FS_Subset
  <2>3. QED
    BY <2>2
<1>2. \E m \in S : \A x \in S : m >= x
  BY <1>1, BoundsExist
<1>3. QED
  BY <1>2 DEF Max

\* The smaller of two numbers.
LEMMA MinOfTwo ==
    ASSUME NEW a \in Int, NEW b \in Int PROVE Min({a, b}) = IF a <= b THEN a ELSE b
<1> DEFINE m == IF a <= b THEN a ELSE b
<1>1. m \in {a, b} /\ {a, b} \in SUBSET Int /\ \A x \in {a, b} : m <= x
  OBVIOUS
<1> HIDE DEF m
<1>2. Min({a, b}) = m
  BY <1>1, MinIs
<1>3. QED
  BY <1>2 DEF m

\* The larger of two numbers.
LEMMA MaxOfTwo ==
    ASSUME NEW a \in Int, NEW b \in Int PROVE Max({a, b}) = IF a >= b THEN a ELSE b
<1> DEFINE m == IF a >= b THEN a ELSE b
<1>1. m \in {a, b} /\ {a, b} \in SUBSET Int /\ \A x \in {a, b} : m >= x
  OBVIOUS
<1> HIDE DEF m
<1>2. Max({a, b}) = m
  BY <1>1, MaxIs
<1>3. QED
  BY <1>2 DEF m

=============================================================================
