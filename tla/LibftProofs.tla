----------------------------- MODULE LibftProofs ----------------------------
(***************************************************************************)
(* libft keeps its promises: LibftMemory for every size of the memory and  *)
(* every set of byte values; the string functions for every alphabet and   *)
(* every length; the number functions and ft_printf for every width of int *)
(* and long, every argument and every format.                              *)
(***************************************************************************)
EXTENDS MCLibft, DataLemmas, SequenceTheorems

----------------------------------------------------------------------------
(* Strings: searching. *)

\* A string is a sequence of its bytes.
LEMMA StringsAreSequences ==
    ASSUME NEW B, NEW max \in Nat, NEW s \in Strings(B, max)
    PROVE  s \in Seq(B) /\ Len(s) \in 0..max
<1>1. PICK k \in 0..max : s \in [1..k -> B]
  BY DEF Strings
<1>2. QED
  BY <1>1

\* A part of a sequence.
LEMMA PartOf ==
    ASSUME NEW S, NEW s \in Seq(S), NEW a \in Nat, NEW b \in Nat, a >= 1, b <= Len(s)
    PROVE  /\ SubSeq(s, a, b) \in Seq(S)
           /\ Len(SubSeq(s, a, b)) = IF a <= b THEN b - a + 1 ELSE 0
           /\ \A k \in 1..(b - a + 1) : SubSeq(s, a, b)[k] = s[a + k - 1]
OBVIOUS

(* A C string: its bytes without the NUL. *)
Text0 == Seq(Nat \ {0})

\* The bytes of a string in memory: its own, then a NUL.
LEMMA Bytes0 ==
    ASSUME NEW s \in Text0, NEW k \in Nat
    PROVE  /\ ByteAt(s, k) \in Nat
           /\ k < Len(s) => ByteAt(s, k) = s[k + 1] /\ s[k + 1] \in Nat \ {0}
           /\ k >= Len(s) => ByteAt(s, k) = 0
BY DEF ByteAt, Text0

(* What is read at each index. *)
Bytewise(s) ==
    \A k \in Nat : /\ ByteAt(s, k) \in Nat
                   /\ k < Len(s) => ByteAt(s, k) = s[k + 1] /\ ByteAt(s, k) # 0
                   /\ k >= Len(s) => ByteAt(s, k) = 0

\* Reading the bytes of a string gives the string.
LEMMA BytesOfText == ASSUME NEW s \in Text0 PROVE Bytewise(s)
<1>1. ASSUME NEW k \in Nat
      PROVE  /\ ByteAt(s, k) \in Nat
             /\ k < Len(s) => ByteAt(s, k) = s[k + 1] /\ ByteAt(s, k) # 0
             /\ k >= Len(s) => ByteAt(s, k) = 0
  <2>1. k < Len(s) => s[k + 1] # 0
    BY Bytes0
  <2>2. QED
    BY <2>1, Bytes0
<1>2. QED
  BY <1>1 DEF Bytewise

(* Where a byte is found, the NUL included. *)
Places(s, b) == {k \in 0..Len(s) : ByteAt(s, k) = b}

\* ft_strchr and ft_strrchr find the first and the last place of a byte.
LEMMA StrChrFinds ==
    ASSUME NEW s \in Text0, NEW b \in Nat
    PROVE  /\ StrChr(s, b) = IF Places(s, b) = {} THEN None ELSE Min(Places(s, b))
           /\ StrRChr(s, b) = IF Places(s, b) = {} THEN None ELSE Max(Places(s, b))
<1> DEFINE P == Places(s, b)
           Q == {k \in 0..Len(s) - 1 : ByteAt(s, k) = b}
<1>0. Len(s) \in Nat
  BY DEF Text0
<1>1. CASE b = 0
  <2>1. \A k \in 0..Len(s) : ByteAt(s, k) = 0 <=> k = Len(s)
    BY <1>0, Bytes0
  <2>2. P = {Len(s)}
    BY <1>0, <1>1, <2>1 DEF Places
  <2>3. Min({Len(s)}) = Len(s) /\ Max({Len(s)}) = Len(s)
    <3>1. {Len(s)} \in SUBSET Int /\ Len(s) \in {Len(s)}
      BY <1>0
    <3>2. \A x \in {Len(s)} : Len(s) <= x /\ Len(s) >= x
      BY <1>0
    <3>3. QED
      BY <3>1, <3>2, MinIs, MaxIs
  <2>4. StrChr(s, b) = Len(s) /\ StrRChr(s, b) = Len(s)
    BY <1>1 DEF StrChr, StrRChr
  <2>5. QED
    BY <2>2, <2>3, <2>4
<1>2. CASE b # 0
  <2>1. ByteAt(s, Len(s)) # b
    BY <1>0, <1>2, Bytes0
  <2>2. P = Q
    BY <1>0, <2>1 DEF Places
  <2>3. StrChr(s, b) = IF Q = {} THEN None ELSE Min(Q)
    <3>1. (\E k \in 0..Len(s) - 1 : ByteAt(s, k) = b) <=> Q # {}
      OBVIOUS
    <3>2. QED
      BY <1>2, <3>1, Zenon DEF StrChr, FirstIn
  <2>4. StrRChr(s, b) = IF Q = {} THEN None ELSE Max(Q)
    <3>1. (\E k \in 0..Len(s) - 1 : ByteAt(s, k) = b) <=> Q # {}
      OBVIOUS
    <3>2. QED
      BY <1>2, <3>1, Zenon DEF StrRChr
  <2>5. QED
    BY <2>2, <2>3, <2>4
<1>3. QED
  BY <1>1, <1>2

\* ft_memchr finds the same place, if it looks that far.
LEMMA MemChrFinds ==
    ASSUME NEW s \in Text0, NEW b \in Nat, NEW k \in 0..Len(s)
    PROVE  MemChr(s, b, k) \in {StrChr(s, b), None}
<1> DEFINE Q == {l \in 0..k - 1 : s[l + 1] = b}
           P == Places(s, b)
<1>0. Len(s) \in Nat
  BY DEF Text0
<1>1. MemChr(s, b, k) = IF Q = {} THEN None ELSE Min(Q)
  <2>1. (\E l \in 0..k - 1 : s[l + 1] = b) <=> Q # {}
    OBVIOUS
  <2>2. QED
    BY <2>1, Zenon DEF MemChr, FirstIn
<1>2. ASSUME Q # {} PROVE P # {} /\ Min(Q) = Min(P)
  <2>1. Q \in SUBSET Nat /\ P \in SUBSET Nat
    BY <1>0 DEF Places
  <2>0. ASSUME NEW l \in Nat, l < k PROVE ByteAt(s, l) = s[l + 1] /\ l \in 0..Len(s)
    <3>1. l < Len(s)
      BY <1>0, <2>0
    <3>2. QED
      BY <1>0, <3>1 DEF ByteAt
  <2>2. ASSUME NEW l \in Q PROVE l \in P /\ l < k
    <3>1. l \in Nat /\ l < k /\ s[l + 1] = b
      OBVIOUS
    <3>2. QED
      BY <2>0, <3>1 DEF Places
  <2>3. ASSUME NEW l \in P, l < k PROVE l \in Q
    <3>1. l \in Nat /\ ByteAt(s, l) = b
      BY DEF Places
    <3>2. l \in 0..k - 1 /\ s[l + 1] = b
      BY <2>0, <2>3, <3>1
    <3>3. QED
      BY <3>2
  <2> HIDE DEF Q, P
  <2>4. P # {}
    BY <1>2, <2>2
  <2>5. Min(Q) \in Q /\ Min(Q) \in Nat /\ \A x \in Q : Min(Q) <= x
    BY <1>2, <2>1, MinOfNat
  <2>6. Min(P) \in P /\ Min(P) \in Nat /\ \A x \in P : Min(P) <= x
    BY <2>1, <2>4, MinOfNat
  <2>7. Min(P) <= Min(Q) /\ Min(Q) < k
    BY <2>2, <2>5, <2>6
  <2>8. k \in Nat
    BY <1>0
  <2>9. Min(Q) <= Min(P)
    BY <2>3, <2>5, <2>6, <2>7, <2>8
  <2>10. QED
    BY <2>4, <2>5, <2>6, <2>7, <2>9
<1> HIDE DEF Q, P
<1>3. CASE Q = {}
  BY <1>1, <1>3
<1>4. CASE Q # {}
  BY <1>1, <1>2, <1>4, StrChrFinds DEF P
<1>5. QED
  BY <1>3, <1>4

\* Strings that agree up to a place at which they differ are ordered by what is there.
LEMMA LexDecided ==
    ASSUME NEW s \in Text0, NEW t \in Text0, NEW k \in 0..Len(s), k <= Len(t),
           \A l \in 1..k : s[l] = t[l], ByteAt(s, k) # ByteAt(t, k)
    PROVE  LexOrder(s, t) = Sign(ByteAt(s, k) - ByteAt(t, k))
<1> DEFINE a == ByteAt(s, k)
           b == ByteAt(t, k)
           Before(m) == /\ SubSeq(s, 1, m) = SubSeq(t, 1, m)
                        /\ m < Len(t) /\ (m = Len(s) \/ s[m + 1] < t[m + 1])
<1>0. Len(s) \in Nat /\ Len(t) \in Nat /\ k \in Nat
  BY DEF Text0
<1>1. /\ a \in Nat /\ b \in Nat /\ a # b
      /\ k < Len(s) => a = s[k + 1] /\ a # 0
      /\ k < Len(t) => b = t[k + 1] /\ b # 0
      /\ k = Len(s) => a = 0
      /\ k = Len(t) => b = 0
  <2>1. Bytewise(s) /\ Bytewise(t)
    BY BytesOfText
  <2> HIDE DEF a, b
  <2>2. /\ a \in Nat /\ (k < Len(s) => a = s[k + 1] /\ a # 0) /\ (k = Len(s) => a = 0)
    BY <1>0, <2>1 DEF Bytewise, a
  <2>3. /\ b \in Nat /\ (k < Len(t) => b = t[k + 1] /\ b # 0) /\ (k = Len(t) => b = 0)
    BY <1>0, <2>1 DEF Bytewise, b
  <2>4. a # b
    BY DEF a, b
  <2>5. QED
    BY <2>2, <2>3, <2>4
<1>2. s # t
  OBVIOUS
<1>3. Min({Len(s), Len(t)}) = IF Len(s) <= Len(t) THEN Len(s) ELSE Len(t)
  BY <1>0, MinOfTwo
<1> HIDE DEF a, b
<1>4. CASE a < b
  <2>1. k < Len(t)
    BY <1>0, <1>1, <1>4
  <2>2. SubSeq(s, 1, k) = SubSeq(t, 1, k)
    BY <1>0 DEF Text0
  <2>3. k = Len(s) \/ s[k + 1] < t[k + 1]
    BY <1>0, <1>1, <1>4, <2>1
  <2>4. Before(k) /\ k \in 0..Min({Len(s), Len(t)})
    BY <1>0, <1>3, <2>1, <2>2, <2>3
  <2>5. LexOrder(s, t) = -1
    BY <1>2, <2>4 DEF LexOrder
  <2>6. Sign(a - b) = -1
    BY <1>1, <1>4 DEF Sign
  <2>7. QED
    BY <2>5, <2>6 DEF a, b
<1>5. CASE a > b
  <2>1. k < Len(s) /\ s[k + 1] = a
    BY <1>0, <1>1, <1>5
  <2>2. ASSUME NEW m \in 0..Min({Len(s), Len(t)}) PROVE ~ Before(m)
    <3>0. m \in Nat /\ m <= Len(s) /\ m <= Len(t)
      BY <1>0, <1>3
    <3>1. CASE m < k
      <4>1. m + 1 \in 1..k /\ m # Len(s)
        BY <1>0, <3>0, <3>1
      <4>2. s[m + 1] = t[m + 1]
        BY <4>1
      <4>3. t[m + 1] \in Nat
        BY <1>0, <3>0, <3>1 DEF Text0
      <4>4. QED
        BY <4>1, <4>2, <4>3
    <3>2. CASE m = k
      <4>1. CASE k < Len(t)
        BY <1>1, <1>5, <2>1, <3>2, <4>1
      <4>2. QED
        BY <3>2, <4>1
    <3>3. CASE m > k
      <4>1. k < Len(t) /\ s[k + 1] # t[k + 1]
        BY <1>0, <1>1, <2>1, <3>0, <3>3
      <4>2. k + 1 \in 1..m
        BY <1>0, <3>0, <3>3
      <4>3. SubSeq(s, 1, m)[k + 1] = s[k + 1] /\ SubSeq(t, 1, m)[k + 1] = t[k + 1]
        BY <3>0, <4>2 DEF Text0
      <4>4. QED
        BY <4>1, <4>3
    <3>4. QED
      BY <1>0, <3>0, <3>1, <3>2, <3>3
  <2>3. LexOrder(s, t) = 1
    BY <1>2, <2>2 DEF LexOrder
  <2>4. Sign(a - b) = 1
    BY <1>1, <1>5 DEF Sign
  <2>5. QED
    BY <2>3, <2>4 DEF a, b
<1>6. QED
  BY <1>1, <1>4, <1>5

\* A string cut off after k bytes.
LEMMA CutBytes ==
    ASSUME NEW s \in Text0, NEW k \in Nat
    PROVE  /\ Cut(s, k) \in Text0
           /\ Len(Cut(s, k)) = (IF k <= Len(s) THEN k ELSE Len(s))
           /\ \A l \in 1..Len(Cut(s, k)) : Cut(s, k)[l] = s[l]
           /\ \A l \in Nat : l < k => ByteAt(Cut(s, k), l) = ByteAt(s, l)
<1> DEFINE m == IF k <= Len(s) THEN k ELSE Len(s)
           r == SubSeq(s, 1, m)
<1>0. Len(s) \in Nat /\ m \in 0..Len(s)
  BY DEF Text0
<1>1. Cut(s, k) = r
  BY <1>0, MinOfTwo DEF Cut
<1>2. r \in Text0 /\ Len(r) = m /\ \A l \in 1..m : r[l] = s[l]
  BY <1>0 DEF Text0
<1>3. ASSUME NEW l \in Nat, l < k PROVE ByteAt(r, l) = ByteAt(s, l)
  <2>1. l < m <=> l < Len(s)
    BY <1>0, <1>3
  <2>2. l < m => l + 1 \in 1..m
    BY <1>0
  <2> HIDE DEF m, r
  <2>3. QED
    BY <1>2, <2>1, <2>2 DEF ByteAt
<1> HIDE DEF r
<1>4. QED
  BY <1>1, <1>2, <1>3

\* ft_strncmp has the sign of the order of the strings, cut off after n bytes.
LEMMA StrNCmpOrders ==
    ASSUME NEW s \in Text0, NEW t \in Text0, NEW k \in Nat
    PROVE  Sign(StrNCmp(s, t, k)) = LexOrder(Cut(s, k), Cut(t, k))
<1>b. Bytewise(s) /\ Bytewise(t)
  BY BytesOfText
<1> DEFINE x == Cut(s, k)
           y == Cut(t, k)
           Stops == {l \in 0..Len(s) : l = Len(s) \/ ByteAt(s, l) # ByteAt(t, l) \/ l >= k - 1}
           m == Min(Stops)
<1>0. Len(s) \in Nat /\ Len(t) \in Nat
  BY DEF Text0
<1>1. /\ x \in Text0 /\ Len(x) = (IF k <= Len(s) THEN k ELSE Len(s))
      /\ \A l \in 1..Len(x) : x[l] = s[l]
      /\ \A l \in Nat : l < k => ByteAt(x, l) = ByteAt(s, l)
      /\ y \in Text0 /\ Len(y) = (IF k <= Len(t) THEN k ELSE Len(t))
      /\ \A l \in 1..Len(y) : y[l] = t[l]
      /\ \A l \in Nat : l < k => ByteAt(y, l) = ByteAt(t, l)
  BY CutBytes
<1> HIDE DEF x, y
<1>2. CASE k = 0
  <2>1. x = y
    BY <1>0, <1>1, <1>2 DEF Text0
  <2>2. QED
    BY <1>2, <2>1 DEF StrNCmp, LexOrder, Sign, x, y
<1>3. CASE k # 0
  <2>1. StrNCmp(s, t, k) = ByteAt(s, m) - ByteAt(t, m)
    BY <1>3 DEF StrNCmp
  <2>2. m \in Stops /\ m \in Nat /\ \A l \in Stops : m <= l
    <3>1. Len(s) \in Stops /\ Stops \in SUBSET Nat
      BY <1>0
    <3> HIDE DEF Stops
    <3>2. QED
      BY <3>1, MinOfNat
  <2>3. m <= Len(s) /\ m < k
    <3>1. CASE k - 1 <= Len(s)
      <4>1. k - 1 \in Stops
        BY <1>0, <1>3, <3>1
      <4> HIDE DEF Stops, m
      <4>2. m <= k - 1
        BY <2>2, <4>1
      <4>3. QED
        BY <1>0, <2>2, <3>1, <4>2
    <3>2. QED
      BY <1>0, <2>2, <3>1
  <2>4. \A l \in 0..m - 1 : ByteAt(s, l) = ByteAt(t, l) /\ l < Len(s)
    <3> SUFFICES ASSUME NEW l \in 0..m - 1 PROVE ByteAt(s, l) = ByteAt(t, l) /\ l < Len(s)
      OBVIOUS
    <3>1. l \notin Stops /\ l \in 0..Len(s)
      BY <1>0, <2>2, <2>3
    <3>2. QED
      BY <3>1
  <2>5. m = Len(s) \/ ByteAt(s, m) # ByteAt(t, m) \/ m = k - 1
    BY <1>3, <2>2, <2>3
  <2> HIDE DEF m, Stops
  <2>6. m <= Len(t) /\ \A l \in 1..m : s[l] = t[l]
    <3>1. ASSUME NEW l \in 0..m - 1 PROVE l < Len(t) /\ s[l + 1] = t[l + 1]
      <4>0. l \in Nat /\ l < Len(s)
        BY <2>2, <2>4
      <4>1. ByteAt(s, l) = s[l + 1] /\ ByteAt(s, l) # 0 /\ ByteAt(s, l) = ByteAt(t, l)
        BY <1>b, <2>4, <4>0 DEF Bytewise
      <4>2. l < Len(t)
        BY <1>0, <1>b, <4>0, <4>1 DEF Bytewise
      <4>3. ByteAt(t, l) = t[l + 1]
        BY <1>b, <4>0, <4>2 DEF Bytewise
      <4>4. QED
        BY <4>1, <4>2, <4>3
    <3>2. m <= Len(t)
      <4>1. CASE m > 0
        <5>1. m - 1 \in 0..m - 1
          BY <2>2, <4>1
        <5>2. QED
          BY <1>0, <2>2, <3>1, <5>1
      <4>2. QED
        BY <1>0, <2>2, <4>1
    <3>3. ASSUME NEW l \in 1..m PROVE s[l] = t[l]
      <4>1. l - 1 \in 0..m - 1 /\ (l - 1) + 1 = l
        BY <2>2
      <4>2. QED
        BY <3>1, <4>1
    <3>4. QED
      BY <3>2, <3>3
  <2>7. m <= Len(x) /\ m <= Len(y) /\ \A l \in 1..m : x[l] = y[l]
    <3>1. m <= Len(x) /\ m <= Len(y)
      BY <1>0, <1>1, <2>2, <2>3, <2>6
    <3>2. \A l \in 1..m : l \in 1..Len(x) /\ l \in 1..Len(y)
      BY <1>0, <1>1, <2>2, <3>1
    <3>3. QED
      BY <1>1, <2>6, <3>1, <3>2
  <2>8. ByteAt(x, m) = ByteAt(s, m) /\ ByteAt(y, m) = ByteAt(t, m)
    BY <1>1, <2>2, <2>3
  <2>9. CASE ByteAt(s, m) # ByteAt(t, m)
    <3>1. m \in 0..Len(x)
      BY <1>0, <1>1, <2>2, <2>7
    <3>2. LexOrder(x, y) = Sign(ByteAt(x, m) - ByteAt(y, m))
      BY <1>1, <2>7, <2>8, <2>9, <3>1, LexDecided
    <3>3. QED
      BY <2>1, <2>8, <3>2 DEF x, y
  <2>10. CASE ByteAt(s, m) = ByteAt(t, m)
    <3>1. Len(x) = Len(y) /\ \A l \in 1..Len(x) : x[l] = y[l]
      <4>1. CASE m = Len(s)
        <5>1. ByteAt(t, m) = 0
          BY <2>2, <2>10, <4>1, <1>b DEF Bytewise
        <5>2. m = Len(t)
          BY <1>0, <2>2, <2>6, <5>1, <1>b DEF Bytewise
        <5>3. Len(x) = m /\ Len(y) = m
          BY <1>0, <1>1, <2>2, <2>3, <4>1, <5>2
        <5>4. QED
          BY <2>7, <5>3
      <4>2. CASE m # Len(s)
        <5>1. m = k - 1 /\ m < Len(s)
          BY <1>0, <2>2, <2>3, <2>5, <2>10, <4>2
        <5>2. ByteAt(s, m) = s[m + 1] /\ ByteAt(s, m) # 0
          BY <2>2, <5>1, <1>b DEF Bytewise
        <5>3. m < Len(t) /\ s[m + 1] = t[m + 1]
          <6>1. ByteAt(t, m) # 0
            BY <2>10, <5>2
          <6>2. m < Len(t)
            BY <1>0, <1>b, <2>2, <6>1 DEF Bytewise
          <6>3. ByteAt(t, m) = t[m + 1]
            BY <1>b, <2>2, <6>2 DEF Bytewise
          <6>4. QED
            BY <2>10, <5>2, <6>2, <6>3
        <5>4. Len(x) = m + 1 /\ Len(y) = m + 1
          BY <1>0, <1>1, <2>2, <5>1, <5>3
        <5>5. ASSUME NEW l \in 1..m + 1 PROVE x[l] = y[l]
          <6>1. l \in 1..m \/ l = m + 1
            BY <2>2
          <6>2. x[l] = s[l] /\ y[l] = t[l]
            BY <1>1, <5>4
          <6>3. QED
            BY <2>6, <5>3, <6>1, <6>2
        <5>6. QED
          BY <5>4, <5>5
      <4>3. QED
        BY <4>1, <4>2
    <3>2. x = y
      BY <1>1, <3>1 DEF Text0
    <3>3. ByteAt(s, m) \in Nat /\ ByteAt(t, m) \in Nat
      BY <2>2, <1>b DEF Bytewise
    <3>4. Sign(ByteAt(s, m) - ByteAt(t, m)) = 0
      BY <2>10, <3>3 DEF Sign
    <3>5. QED
      BY <2>1, <3>2, <3>4 DEF LexOrder, x, y
  <2>11. QED
    BY <2>9, <2>10
<1>4. QED
  BY <1>2, <1>3

\* ft_memcmp has the sign of the order of the first bytes.
LEMMA MemCmpOrders ==
    ASSUME NEW s \in Text0, NEW t \in Text0, NEW k \in 0..Len(s), k <= Len(t)
    PROVE  Sign(MemCmp(s, t, k)) = LexOrder(SubSeq(s, 1, k), SubSeq(t, 1, k))
<1>b. Bytewise(s) /\ Bytewise(t)
  BY BytesOfText
<1> DEFINE x == Cut(s, k)
           y == Cut(t, k)
           Stops == {l \in 0..k - 1 : s[l + 1] # t[l + 1] \/ l + 1 >= k}
           m == Min(Stops)
<1>0. Len(s) \in Nat /\ Len(t) \in Nat /\ k \in Nat
  BY DEF Text0
<1>1. /\ x \in Text0 /\ Len(x) = k
      /\ \A l \in 1..k : x[l] = s[l]
      /\ \A l \in Nat : l < k => ByteAt(x, l) = ByteAt(s, l)
      /\ y \in Text0 /\ Len(y) = k
      /\ \A l \in 1..k : y[l] = t[l]
      /\ \A l \in Nat : l < k => ByteAt(y, l) = ByteAt(t, l)
  <2>1. Len(x) = k /\ Len(y) = k
    BY <1>0, CutBytes
  <2>2. QED
    BY <1>0, <2>1, CutBytes
<1>2. SubSeq(s, 1, k) = x /\ SubSeq(t, 1, k) = y
  <2>1. Min({k, Len(s)}) = k /\ Min({k, Len(t)}) = k
    BY <1>0, MinOfTwo
  <2>2. QED
    BY <2>1 DEF Cut
<1> HIDE DEF x, y
<1>3. CASE k = 0
  <2>1. x = y
    BY <1>1, <1>3 DEF Text0
  <2>2. QED
    BY <1>2, <1>3, <2>1 DEF MemCmp, LexOrder, Sign
<1>4. CASE k # 0
  <2>1. MemCmp(s, t, k) = s[m + 1] - t[m + 1]
    BY <1>4 DEF MemCmp
  <2>2. m \in Stops /\ m \in Nat /\ \A l \in Stops : m <= l
    <3>1. k - 1 \in Stops /\ Stops \in SUBSET Nat
      BY <1>0, <1>4
    <3> HIDE DEF Stops
    <3>2. QED
      BY <3>1, MinOfNat
  <2>3. m < k /\ m \in 0..Len(x)
    BY <1>0, <1>1, <2>2
  <2>4. \A l \in 0..m - 1 : s[l + 1] = t[l + 1]
    <3> SUFFICES ASSUME NEW l \in 0..m - 1 PROVE s[l + 1] = t[l + 1]
      OBVIOUS
    <3>1. l \notin Stops /\ l \in 0..k - 1
      BY <1>0, <2>2, <2>3
    <3>2. QED
      BY <3>1
  <2>5. s[m + 1] # t[m + 1] \/ m + 1 = k
    BY <1>0, <2>2, <2>3
  <2> HIDE DEF m, Stops
  <2>6. ByteAt(s, m) = s[m + 1] /\ ByteAt(s, m) \in Nat
    BY <1>0, <1>b, <2>2, <2>3 DEF Bytewise
  <2>7. ByteAt(t, m) = t[m + 1] /\ ByteAt(t, m) \in Nat
    BY <1>0, <1>b, <2>2, <2>3 DEF Bytewise
  <2>8. ByteAt(x, m) = ByteAt(s, m) /\ ByteAt(y, m) = ByteAt(t, m)
    BY <1>1, <2>2, <2>3
  <2>9. ASSUME NEW l \in 1..m PROVE x[l] = y[l]
    <3>1. l - 1 \in 0..m - 1 /\ (l - 1) + 1 = l /\ l \in 1..k
      BY <1>0, <2>2, <2>3
    <3>2. s[l] = t[l]
      BY <2>4, <3>1
    <3>3. QED
      BY <1>1, <3>1, <3>2
  <2>10. CASE s[m + 1] # t[m + 1]
    <3>1. LexOrder(x, y) = Sign(ByteAt(x, m) - ByteAt(y, m))
      <4>1. m <= Len(y) /\ ByteAt(x, m) # ByteAt(y, m)
        BY <1>0, <1>1, <2>3, <2>6, <2>7, <2>8, <2>10
      <4>2. QED
        BY <1>1, <2>3, <2>9, <4>1, LexDecided
    <3>2. QED
      BY <1>2, <2>1, <2>6, <2>7, <2>8, <3>1
  <2>11. CASE s[m + 1] = t[m + 1]
    <3>1. ASSUME NEW l \in 1..k PROVE x[l] = y[l]
      <4>1. l \in 1..m \/ l = m + 1
        BY <1>0, <2>2, <2>5, <2>11
      <4>2. x[l] = s[l] /\ y[l] = t[l]
        BY <1>1
      <4>3. QED
        BY <2>9, <2>11, <4>1, <4>2
    <3>2. x = y
      BY <1>1, <3>1 DEF Text0
    <3>3. s[m + 1] \in Nat
      BY <2>6
    <3>4. Sign(s[m + 1] - t[m + 1]) = 0
      BY <2>11, <3>3 DEF Sign
    <3>5. QED
      BY <1>2, <2>1, <3>2, <3>4 DEF LexOrder
  <2>12. QED
    BY <2>10, <2>11
<1>5. QED
  BY <1>3, <1>4

\* Where the string t is found in the first k bytes of s.
Occurrences(s, t, k) ==
    {l \in 0..Len(s) : l + Len(t) <= Min({k, Len(s)}) /\ SubSeq(s, l + 1, l + Len(t)) = t}

\* ft_strnstr finds the first occurrence.
LEMMA StrNStrFinds ==
    ASSUME NEW s \in Text0, NEW t \in Text0, NEW k \in Nat, t # <<>>
    PROVE  StrNStr(s, t, k) =
              IF Occurrences(s, t, k) = {} THEN None ELSE Min(Occurrences(s, t, k))
<1> DEFINE P == Occurrences(s, t, k)
           Q == {l \in 0..Len(s) - 1 : Matches(s, t, k, l)}
<1>b. Bytewise(s) /\ Bytewise(t)
  BY BytesOfText
<1>0. Len(s) \in Nat /\ Len(t) \in Nat /\ Len(t) > 0
  BY DEF Text0
<1>1. StrNStr(s, t, k) = IF Q = {} THEN None ELSE Min(Q)
  <2>1. (\E l \in 0..Len(s) - 1 : Matches(s, t, k, l)) <=> Q # {}
    OBVIOUS
  <2>2. QED
    BY <2>1, Zenon DEF StrNStr, FirstIn
<1>2. Min({k, Len(s)}) = IF k <= Len(s) THEN k ELSE Len(s)
  BY <1>0, MinOfTwo
<1>3. ASSUME NEW l \in P PROVE l \in Q
  <2>1. /\ l \in Nat /\ l + Len(t) <= k /\ l + Len(t) <= Len(s)
        /\ SubSeq(s, l + 1, l + Len(t)) = t
    BY <1>0, <1>2 DEF Occurrences
  <2>2. ASSUME NEW m \in 0..Len(t) - 1
        PROVE  ByteAt(t, m) = ByteAt(s, l + m) /\ l + m < k
    <3>1. m \in Nat /\ l + m \in Nat /\ l + m < Len(s) /\ l + m < k /\ m < Len(t)
      BY <1>0, <2>1
    <3>2. ByteAt(t, m) = t[m + 1]
      BY <1>b, <3>1 DEF Bytewise
    <3>3. ByteAt(s, l + m) = s[l + m + 1]
      <4> DEFINE q == l + m
      <4>1. q \in Nat /\ q < Len(s)
        BY <3>1
      <4> HIDE DEF q
      <4>2. ByteAt(s, q) = s[q + 1]
        BY <1>b, <4>1 DEF Bytewise
      <4>3. QED
        BY <4>2 DEF q
    <3>4. SubSeq(s, l + 1, l + Len(t))[m + 1] = s[l + 1 + (m + 1) - 1]
      BY <1>0, <2>1, <3>1 DEF Text0
    <3>5. l + 1 + (m + 1) - 1 = l + m + 1
      BY <2>1, <3>1
    <3>6. QED
      BY <2>1, <3>1, <3>2, <3>3, <3>4, <3>5
  <2>3. Matches(s, t, k, l)
    BY <2>2 DEF Matches
  <2>4. l \in 0..Len(s) - 1
    BY <1>0, <2>1
  <2>5. QED
    BY <2>3, <2>4
<1>4. ASSUME NEW l \in Q PROVE l \in P
  <2>1. l \in Nat /\ l < Len(s) /\ Matches(s, t, k, l)
    BY <1>0
  <2>2. ASSUME NEW m \in 0..Len(t) - 1 PROVE l + m < k /\ l + m < Len(s) /\ t[m + 1] = s[l + m + 1]
    <3> DEFINE q == l + m
    <3>1. m \in Nat /\ m < Len(t) /\ q \in Nat /\ ByteAt(t, m) = ByteAt(s, q) /\ q < k
      BY <1>0, <2>1 DEF Matches
    <3> HIDE DEF q
    <3>2. ByteAt(t, m) # 0 /\ ByteAt(t, m) = t[m + 1]
      BY <1>b, <3>1 DEF Bytewise
    <3>3. q < Len(s)
      <4>1. ByteAt(s, q) # 0
        BY <3>1, <3>2
      <4>2. QED
        BY <1>0, <1>b, <3>1, <4>1 DEF Bytewise
    <3>4. ByteAt(s, q) = s[q + 1]
      BY <1>b, <3>1, <3>3 DEF Bytewise
    <3>5. q < k /\ q < Len(s) /\ t[m + 1] = s[q + 1]
      BY <3>1, <3>2, <3>3, <3>4
    <3>6. QED
      BY <3>5 DEF q
  <2>3. l + Len(t) <= k /\ l + Len(t) <= Len(s)
    <3>1. Len(t) - 1 \in 0..Len(t) - 1
      BY <1>0
    <3>2. l + (Len(t) - 1) < k /\ l + (Len(t) - 1) < Len(s)
      BY <2>2, <3>1
    <3>3. QED
      BY <1>0, <2>1, <3>2
  <2>4. SubSeq(s, l + 1, l + Len(t)) = t
    <3> DEFINE r == SubSeq(s, l + 1, l + Len(t))
    <3>1. r \in Seq(Nat \ {0}) /\ Len(r) = Len(t) /\ \A m \in 1..Len(t) : r[m] = s[l + m]
      <4>1. l + 1 \in Nat /\ l + Len(t) \in Nat /\ l + 1 >= 1 /\ s \in Seq(Nat \ {0})
        BY <1>0, <2>1 DEF Text0
      <4>2. /\ r \in Seq(Nat \ {0})
            /\ Len(r) = IF l + 1 <= l + Len(t) THEN l + Len(t) - (l + 1) + 1 ELSE 0
            /\ \A m \in 1..(l + Len(t) - (l + 1) + 1) : r[m] = s[l + 1 + m - 1]
        BY <2>3, <4>1, PartOf
      <4> HIDE DEF r
      <4>3. l + Len(t) - (l + 1) + 1 = Len(t) /\ l + 1 <= l + Len(t)
        BY <1>0, <2>1
      <4>4. ASSUME NEW m \in 1..Len(t) PROVE l + 1 + m - 1 = l + m
        BY <1>0, <2>1
      <4>5. QED
        BY <4>2, <4>3, <4>4
    <3>2. ASSUME NEW m \in 1..Len(t) PROVE t[m] = s[l + m]
      <4>1. m - 1 \in 0..Len(t) - 1 /\ (m - 1) + 1 = m /\ l + (m - 1) + 1 = l + m
        BY <1>0, <2>1
      <4>2. QED
        BY <2>2, <4>1
    <3> HIDE DEF r
    <3>3. r = t
      <4>1. t \in Seq(Nat \ {0}) /\ \A m \in 1..Len(t) : r[m] = t[m]
        BY <3>1, <3>2 DEF Text0
      <4>2. QED
        BY <3>1, <4>1
    <3>4. QED
      BY <3>3 DEF r
  <2>5. QED
    BY <1>0, <1>2, <2>1, <2>3, <2>4 DEF Occurrences
<1>5. P = Q
  <2> HIDE DEF P, Q
  <2> QED
    BY <1>3, <1>4
<1>6. QED
  BY <1>1, <1>5

(* What the search functions return for s, t, the byte b and the limit k. *)
SearchResult(s, t, b, k) ==
    LET m == Min({k, Len(s)}) IN
    [chr |-> StrChr(s, b), rchr |-> StrRChr(s, b), memchr |-> MemChr(s, b, m),
     ncmp |-> StrNCmp(s, t, k), memcmp |-> MemCmp(s, t, Min({m, Len(t)})),
     nstr |-> StrNStr(s, t, k), join |-> StrJoin(s, t)]

(* Searched, of what they return. *)
SearchMatches(r, s, t, b, k) ==
    /\ r.chr = (IF Places(s, b) = {} THEN None ELSE Min(Places(s, b)))
    /\ r.rchr = (IF Places(s, b) = {} THEN None ELSE Max(Places(s, b)))
    /\ r.memchr \in {r.chr, None}
    /\ Sign(r.ncmp) = LexOrder(Cut(s, k), Cut(t, k))
    /\ LET m == Min({k, Len(s), Len(t)}) IN
          Sign(r.memcmp) = LexOrder(SubSeq(s, 1, m), SubSeq(t, 1, m))
    /\ r.nstr = (IF t = <<>> THEN 0
                 ELSE IF Occurrences(s, t, k) = {} THEN None ELSE Min(Occurrences(s, t, k)))
    /\ r.join = Block(Len(s) + Len(t) + 1, s \o t)

\* Each search function finds what its man page says.
LEMMA SearchesMatch ==
    ASSUME NEW s \in Text0, NEW t \in Text0, NEW b \in Nat, NEW k \in Nat
    PROVE  SearchMatches(SearchResult(s, t, b, k), s, t, b, k)
<1> DEFINE r == SearchResult(s, t, b, k)
           m == Min({k, Len(s)})
           l == Min({m, Len(t)})
<1>0. Len(s) \in Nat /\ Len(t) \in Nat
  BY DEF Text0
<1>1. m = (IF k <= Len(s) THEN k ELSE Len(s)) /\ m \in 0..Len(s) /\ m \in Nat
  BY <1>0, MinOfTwo
<1>2. l = (IF m <= Len(t) THEN m ELSE Len(t)) /\ l \in 0..Len(s) /\ l <= Len(t) /\ l \in Nat
  <2> HIDE DEF m
  <2> QED
    BY <1>0, <1>1, MinOfTwo
<1>3. Min({k, Len(s), Len(t)}) = l
  <2>1. l \in {k, Len(s), Len(t)} /\ {k, Len(s), Len(t)} \in SUBSET Int
    BY <1>0, <1>1, <1>2
  <2>2. \A x \in {k, Len(s), Len(t)} : l <= x
    BY <1>0, <1>1, <1>2
  <2> HIDE DEF l
  <2>3. QED
    BY <2>1, <2>2, MinIs
<1> HIDE DEF l
<1>4. /\ r.chr = StrChr(s, b) /\ r.rchr = StrRChr(s, b) /\ r.memchr = MemChr(s, b, m)
      /\ r.ncmp = StrNCmp(s, t, k) /\ r.memcmp = MemCmp(s, t, l)
      /\ r.nstr = StrNStr(s, t, k) /\ r.join = StrJoin(s, t)
  BY DEF SearchResult, l
<1> HIDE DEF m, r
<1>5. r.nstr = (IF t = <<>> THEN 0
                 ELSE IF Occurrences(s, t, k) = {} THEN None ELSE Min(Occurrences(s, t, k)))
  <2>1. CASE t = <<>>
    BY <1>4, <2>1 DEF StrNStr
  <2>2. CASE t # <<>>
    BY <1>4, <2>2, StrNStrFinds
  <2>3. QED
    BY <2>1, <2>2
<1>6. /\ r.chr = (IF Places(s, b) = {} THEN None ELSE Min(Places(s, b)))
      /\ r.rchr = (IF Places(s, b) = {} THEN None ELSE Max(Places(s, b)))
  BY <1>4, StrChrFinds
<1>7. r.memchr \in {r.chr, None}
  BY <1>1, <1>4, MemChrFinds
<1>8. Sign(r.ncmp) = LexOrder(Cut(s, k), Cut(t, k))
  BY <1>4, StrNCmpOrders
<1>9. Sign(r.memcmp) = LexOrder(SubSeq(s, 1, l), SubSeq(t, 1, l))
  BY <1>2, <1>4, MemCmpOrders
<1>10. r.join = Block(Len(s) + Len(t) + 1, s \o t)
  BY <1>4 DEF StrJoin
<1>11. SearchMatches(r, s, t, b, k)
  BY <1>3, <1>5, <1>6, <1>7, <1>8, <1>9, <1>10 DEF SearchMatches
<1>12. QED
  BY <1>11 DEF r

----------------------------------------------------------------------------
(* Strings: cutting, trimming, lists. *)

\* ft_substr returns the part that is asked for, as far as there is one, in enough room.
LEMMA SubStrCuts ==
    ASSUME NEW s \in Text0, NEW a \in Nat, NEW k \in Nat
    PROVE  /\ Fits(SubStr(s, a, k))
           /\ SubStr(s, a, k).text = SubSeq(s, a + 1, Min({Len(s), a + k}))
<1> DEFINE m == Min({Len(s), a + k})
<1>0. Len(s) \in Nat
  BY DEF Text0
<1>1. m = (IF Len(s) <= a + k THEN Len(s) ELSE a + k) /\ m \in Nat /\ m <= Len(s)
  BY <1>0, MinOfTwo
<1> HIDE DEF m
<1>2. CASE a >= Len(s)
  <2>1. SubStr(s, a, k) = Block(1, <<>>)
    BY <1>2 DEF SubStr, StrDup
  <2>2. SubSeq(s, a + 1, m) = <<>>
    BY <1>0, <1>1, <1>2, SubSeqEmpty
  <2>3. Fits(Block(1, <<>>)) /\ Block(1, <<>>).text = <<>>
    BY DEF Fits, Block
  <2>4. QED
    BY <2>1, <2>2, <2>3 DEF m
<1>3. CASE a < Len(s)
  <2> DEFINE r == SubSeq(s, a + 1, m)
             room == (IF Len(s) <= k THEN Len(s) ELSE k) + 1
  <2>1. SubStr(s, a, k) = Block(room, r)
    BY <1>0, <1>3 DEF SubStr, m
  <2>2. Len(r) = IF a + 1 <= m THEN m - (a + 1) + 1 ELSE 0
    BY <1>1, PartOf DEF Text0
  <2>3. Len(r) < room
    BY <1>0, <1>1, <1>3, <2>2
  <2> HIDE DEF r, room
  <2>4. Fits(Block(room, r)) /\ Block(room, r).text = r
    BY <2>3 DEF Fits, Block
  <2>5. QED
    BY <2>1, <2>4 DEF r, m
<1>4. a >= Len(s) \/ a < Len(s)
  BY <1>0
<1>5. QED
  BY <1>2, <1>3, <1>4

\* ft_strchr on a set finds the bytes of the set, and the NUL.
LEMMA InSetIs ==
    ASSUME NEW set \in Text0, NEW b \in Nat
    PROVE  InSet(b, set) <=> b = 0 \/ Contains(set, b)
<1>0. Len(set) \in Nat /\ Bytewise(set)
  BY BytesOfText DEF Text0
<1>1. CASE b = 0
  BY <1>0, <1>1 DEF InSet, StrChr, None
<1>2. CASE b # 0
  <2> DEFINE Q == {k \in 0..Len(set) - 1 : ByteAt(set, k) = b}
  <2>1. StrChr(set, b) = IF Q = {} THEN None ELSE Min(Q)
    <3>1. (\E k \in 0..Len(set) - 1 : ByteAt(set, k) = b) <=> Q # {}
      OBVIOUS
    <3>2. QED
      BY <1>2, <3>1, Zenon DEF StrChr, FirstIn
  <2>2. Q # {} => Min(Q) \in Nat
    <3>1. Q \in SUBSET Nat
      BY <1>0
    <3> HIDE DEF Q
    <3>2. QED
      BY <3>1, MinOfNat
  <2>3. Q # {} <=> Contains(set, b)
    <3>1. ASSUME NEW k \in Q PROVE Contains(set, b)
      <4>1. k \in Nat /\ k < Len(set) /\ ByteAt(set, k) = b
        BY <1>0
      <4>2. ByteAt(set, k) = set[k + 1]
        BY <1>0, <4>1 DEF Bytewise
      <4>4. set[k + 1] = b /\ k + 1 \in 1..Len(set)
        BY <1>0, <4>1, <4>2
      <4>3. QED
        BY <4>4 DEF Contains
    <3>2. ASSUME NEW k \in 1..Len(set), set[k] = b PROVE k - 1 \in Q
      <4> DEFINE l == k - 1
      <4>1. l \in Nat /\ l < Len(set) /\ set[l + 1] = b /\ l \in 0..Len(set) - 1
        BY <1>0, <3>2
      <4> HIDE DEF l
      <4>2. ByteAt(set, l) = b
        BY <1>0, <4>1 DEF Bytewise
      <4>3. l \in Q
        BY <4>1, <4>2
      <4>4. QED
        BY <4>3 DEF l
    <3> HIDE DEF Q
    <3>3. QED
      BY <3>1, <3>2 DEF Contains
  <2> HIDE DEF Q
  <2>4. QED
    BY <1>2, <2>1, <2>2, <2>3 DEF InSet, None
<1>3. QED
  BY <1>1, <1>2

\* ft_strtrim keeps what lies between the first and the last byte that is not of the set,
\* whatever precedes the string, as long as something there ends its second loop.
LEMMA StrTrimCuts ==
    ASSUME NEW s \in Text0, NEW set \in Text0, NEW huge \in Nat,
           NEW before, Len(before) \in Nat \ {0}
    PROVE  LET kept == {k \in 1..Len(s) : ~Contains(set, s[k])}
               r == StrTrim(s, set, before, huge)
           IN  Fits(r) /\ r.text = IF kept = {} THEN <<>> ELSE SubSeq(s, Min(kept), Max(kept))
<1> DEFINE kept == {k \in 1..Len(s) : ~Contains(set, s[k])}
           r == StrTrim(s, set, before, huge)
           Starts == {k \in 0..Len(s) : k = Len(s) \/ ~InSet(s[k + 1], set)}
           a == Min(Starts)
           z == TrimEnd(s, set, before, a)
           tail == From(s, a)
<1>0. Len(s) \in Nat /\ \A k \in 1..Len(s) : s[k] \in Nat \ {0}
  BY DEF Text0
<1>1. \A k \in 1..Len(s) : InSet(s[k], set) <=> Contains(set, s[k])
  BY <1>0, InSetIs
<1>2. a \in Starts /\ a \in Nat /\ (\A k \in Starts : a <= k) /\ Len(s) \in Starts
  <2>1. Len(s) \in Starts /\ Starts \in SUBSET Nat
    BY <1>0
  <2> HIDE DEF Starts
  <2>2. QED
    BY <2>1, MinOfNat
<1>3. r = SubStr(tail, 0, IF z < a THEN huge ELSE z - a)
  <2>1. (\E k \in 0..Len(s) : k = Len(s) \/ ~InSet(s[k + 1], set))
    BY <1>0
  <2>2. FirstIn(0..Len(s), LAMBDA k : k = Len(s) \/ ~InSet(s[k + 1], set)) = a
    BY <2>1, Zenon DEF FirstIn
  <2> HIDE DEF a
  <2>3. QED
    BY <2>2, Zenon DEF StrTrim, z, tail
<1>4. \A k \in Nat : k < Len(s) => (k \in Starts <=> k + 1 \in kept)
  <2> SUFFICES ASSUME NEW k \in Nat, k < Len(s) PROVE k \in Starts <=> k + 1 \in kept
    OBVIOUS
  <2>1. k + 1 \in 1..Len(s) /\ k \in 0..Len(s) /\ k # Len(s)
    BY <1>0
  <2>2. QED
    BY <1>1, <2>1
<1>5. kept \in SUBSET (1..Len(s))
  OBVIOUS
<1>6. a \in Nat /\ a <= Len(s)
  BY <1>0, <1>2
<1> HIDE DEF a, z, r
<1>7. CASE kept = {}
  <2>1. a = Len(s)
    BY <1>0, <1>2, <1>4, <1>6, <1>7
  <2>2. tail = <<>>
    BY <1>0, <2>1, SubSeqEmpty DEF From
  <2>3. r = Block(1, <<>>)
    BY <1>3, <2>2 DEF SubStr, StrDup
  <2>4. Fits(r) /\ r.text = <<>>
    BY <2>3 DEF Block, Fits
  <2>5. QED
    BY <1>7, <2>4 DEF r
<1>8. CASE kept # {}
  <2> DEFINE l == Min(kept)
             h == Max(kept)
  <2>1. l \in kept /\ l \in Nat /\ \A k \in kept : l <= k
    <3>1. kept \in SUBSET Nat
      BY <1>0
    <3> HIDE DEF kept
    <3>2. QED
      BY <1>8, <3>1, MinOfNat
  <2>2. h \in kept /\ h \in 1..Len(s) /\ \A k \in kept : h >= k
    <3>1. 1 \in Int /\ Len(s) \in Int
      BY <1>0
    <3> HIDE DEF kept, h
    <3>2. Max(kept) \in kept /\ Max(kept) \in 1..Len(s) /\ \A k \in kept : Max(kept) >= k
      BY <1>5, <1>8, <3>1, MaxOfInterval
    <3>3. QED
      BY <3>2 DEF h
  <2>3. \A k \in 1..Len(s) : k \in kept <=> ~InSet(s[k], set)
    BY <1>1
  <2> HIDE DEF l, h
  <2>4. a + 1 = l /\ l <= h
    <3>1. l - 1 \in Nat /\ l - 1 < Len(s) /\ (l - 1) + 1 = l
      BY <1>0, <1>5, <2>1
    <3>2. l - 1 \in Starts
      BY <1>4, <2>1, <3>1
    <3>3. a <= l - 1
      BY <1>2, <3>2
    <3>4. a < Len(s)
      BY <1>0, <1>6, <3>1, <3>3
    <3>5. a + 1 \in kept
      BY <1>2, <1>4, <3>4
    <3> HIDE DEF kept, Starts
    <3>6. l <= a + 1
      BY <2>1, <3>5
    <3>7. l <= h
      BY <2>1, <2>2
    <3>8. QED
      BY <1>6, <2>1, <3>3, <3>6, <3>7
  <2>5. z = h
    <3> DEFINE Byte(k) == IF k >= 1 THEN s[k] ELSE before[1 - k]
               Stays(k) == k < 0 \/ k >= a
               Ends == {k \in 1 - Len(before)..Len(s) : ~(InSet(Byte(k), set) /\ Stays(k))}
    <3>1. z = Max(Ends)
      BY Zenon DEF z, TrimEnd
    <3>2. h \in Ends
      <4>1. Byte(h) = s[h] /\ ~InSet(s[h], set)
        BY <1>0, <2>2, <2>3
      <4>2. h \in 1 - Len(before)..Len(s)
        BY <1>0, <2>2
      <4>3. QED
        BY <4>1, <4>2
    <3>3. ASSUME NEW k \in Ends PROVE h >= k
      <4>1. SUFFICES ASSUME h < k PROVE FALSE
        BY <1>0, <2>2
      <4>2. k \in 1..Len(s) /\ k >= a /\ k \notin kept
        <5>1. k \in Int /\ k <= Len(s)
          BY <1>0
        <5>2. k \notin kept
          BY <1>0, <2>2, <4>1, <5>1
        <5>3. QED
          BY <1>0, <1>6, <2>1, <2>2, <2>4, <4>1, <5>1, <5>2
      <4>3. InSet(s[k], set) /\ Byte(k) = s[k] /\ Stays(k)
        BY <2>3, <4>2
      <4>4. QED
        BY <4>3
    <3>4. Ends \in SUBSET Int
      OBVIOUS
    <3> HIDE DEF Ends
    <3>5. QED
      BY <3>1, <3>2, <3>3, <3>4, MaxIs
  <2>6. Len(tail) = Len(s) - a /\ tail \in Text0
    <3>1. a + 1 \in Nat /\ a + 1 >= 1 /\ a + 1 <= Len(s)
      BY <1>0, <1>6, <2>1, <2>2, <2>4
    <3>2. /\ SubSeq(s, a + 1, Len(s)) \in Text0
          /\ Len(SubSeq(s, a + 1, Len(s))) = Len(s) - (a + 1) + 1
      BY <1>0, <3>1, PartOf DEF Text0
    <3>3. QED
      BY <1>0, <1>6, <3>2 DEF From
  <2>7. h - a \in Nat /\ 1 <= h - a /\ h - a <= Len(s) - a /\ ~(h < a)
    BY <1>0, <1>6, <2>1, <2>2, <2>4
  <2>8. r = SubStr(tail, 0, h - a)
    BY <1>3, <2>5, <2>7
  <2>9. Fits(r) /\ r.text = SubSeq(tail, 1, h - a)
    <3>1. Min({Len(tail), 0 + (h - a)}) = h - a
      <4>1. Len(tail) \in Int /\ 0 + (h - a) \in Int /\ 0 + (h - a) <= Len(tail)
        BY <1>0, <1>6, <2>6, <2>7
      <4>2. QED
        BY <2>7, <4>1, MinOfTwo
    <3> DEFINE q == h - a
               t == SubStr(tail, 0, q)
    <3>2. q \in Nat /\ 0 \in Nat /\ tail \in Text0 /\ Min({Len(tail), 0 + q}) = q
      BY <2>6, <2>7, <3>1
    <3> HIDE DEF q, tail
    <3>3. Fits(t) /\ t.text = SubSeq(tail, 0 + 1, q)
      BY <3>2, SubStrCuts
    <3>4. r = t
      BY <2>8 DEF q
    <3> HIDE DEF t
    <3>5. QED
      BY <3>3, <3>4 DEF q
  <2>10. SubSeq(tail, 1, h - a) = SubSeq(s, l, h)
    <3> DEFINE u == SubSeq(tail, 1, h - a)
               v == SubSeq(s, l, h)
    <3>1. u \in Text0 /\ Len(u) = h - a /\ \A k \in 1..h - a : u[k] = tail[k]
      BY <2>6, <2>7 DEF Text0
    <3>2. v \in Text0 /\ Len(v) = h - a /\ \A k \in 1..h - a : v[k] = s[a + k]
      <4>1. l \in Nat /\ l >= 1 /\ h \in Nat /\ h <= Len(s) /\ s \in Seq(Nat \ {0})
        BY <1>0, <1>6, <2>1, <2>2, <2>4 DEF Text0
      <4>2. /\ v \in Seq(Nat \ {0}) /\ Len(v) = IF l <= h THEN h - l + 1 ELSE 0
            /\ \A k \in 1..(h - l + 1) : v[k] = s[l + k - 1]
        BY <4>1, PartOf
      <4>3. h - l + 1 = h - a /\ \A k \in 1..h - a : l + k - 1 = a + k
        BY <1>6, <2>2, <2>4
      <4> HIDE DEF v
      <4>4. QED
        BY <2>4, <4>2, <4>3 DEF Text0
    <3>3. \A k \in 1..h - a : tail[k] = s[a + k]
      <4>1. a + 1 \in Nat /\ a + 1 >= 1
        BY <1>6
      <4>2. \A k \in 1..(Len(s) - (a + 1) + 1) : SubSeq(s, a + 1, Len(s))[k] = s[a + 1 + k - 1]
        BY <1>0, <4>1, PartOf DEF Text0
      <4>3. \A k \in 1..h - a : k \in 1..(Len(s) - (a + 1) + 1) /\ a + 1 + k - 1 = a + k
        BY <1>0, <1>6, <2>2, <2>7
      <4>4. QED
        BY <4>2, <4>3 DEF From
    <3> HIDE DEF u, v
    <3>4. \A k \in 1..h - a : u[k] = v[k]
      BY <3>1, <3>2, <3>3
    <3>6. u = v
      BY <3>1, <3>2, <3>4 DEF Text0
    <3>5. QED
      BY <3>6 DEF u, v
  <2>11. QED
    BY <1>8, <2>9, <2>10 DEF l, h, r
<1>9. QED
  BY <1>7, <1>8

(* ListMapped, of what ft_lstmap returns. *)
MapMatches(r, list, failing) ==
    LET all == [k \in DOMAIN list |-> list[k] + 10]
    IN  /\ r.list \in {all, <<>>, Cut(all, Len(all) - 1)}
        /\ r.list \o r.deleted \o r.lost = Cut(all, Len(r.list \o r.deleted \o r.lost))
        /\ failing \notin DOMAIN list => r.list = all

\* ft_lstmap loses or deletes no content but what it returns no node for.
LEMMA LstMapKeeps ==
    ASSUME NEW B \in SUBSET Nat, NEW list \in Seq(B), NEW failing \in Int
    PROVE  MapMatches(LstMap(list, [x \in B |-> x + 10], failing), list, failing)
<1> DEFINE all == [k \in DOMAIN list |-> list[k] + 10]
           f == [x \in B |-> x + 10]
           all1 == [k \in DOMAIN list |-> f[list[k]]]
           r == LstMap(list, f, failing)
           made == SubSeq(all, 1, failing - 1)
<1>0. Len(list) \in Nat /\ DOMAIN list = 1..Len(list) /\ \A k \in 1..Len(list) : list[k] \in B
  OBVIOUS
<1>1. all1 = all
  BY <1>0
<1>2. all \in Seq(Nat) /\ Len(all) = Len(list)
  <2>0. \A x \in B : x + 10 \in Nat
    OBVIOUS
  <2>1. \A k \in 1..Len(list) : list[k] + 10 \in Nat
    BY <1>0, <2>0
  <2>2. all = [k \in 1..Len(list) |-> list[k] + 10]
    BY <1>0
  <2>3. all \in [1..Len(list) -> Nat]
    BY <2>1, <2>2
  <2> HIDE DEF all
  <2>4. QED
    BY <1>0, <2>3
<1>3. r = IF failing \notin DOMAIN list THEN [list |-> all, deleted |-> <<>>, lost |-> <<>>]
          ELSE [list |-> IF failing < Len(list) THEN <<>> ELSE made,
                deleted |-> IF failing < Len(list) THEN made ELSE <<>>,
                lost |-> <<all[failing]>>]
  <2> HIDE DEF f
  <2> QED
    BY <1>1 DEF LstMap
<1> HIDE DEF all, r
<1>4. \A k \in 0..Len(all) : Cut(all, k) = SubSeq(all, 1, k)
  <2> SUFFICES ASSUME NEW k \in 0..Len(all) PROVE Cut(all, k) = SubSeq(all, 1, k)
    OBVIOUS
  <2>1. Min({k, Len(all)}) = k
    BY <1>0, <1>2, MinOfTwo
  <2>2. QED
    BY <2>1 DEF Cut
<1>5. CASE failing \notin DOMAIN list
  <2>1. r.list = all /\ r.deleted = <<>> /\ r.lost = <<>>
    BY <1>3, <1>5
  <2>2. r.list \o r.deleted \o r.lost = all
    BY <1>2, <2>1
  <2>3. Cut(all, Len(all)) = all
    BY <1>0, <1>2, <1>4
  <2>4. QED
    BY <1>5, <2>1, <2>2, <2>3 DEF MapMatches, all, r
<1>6. CASE failing \in DOMAIN list
  <2>1. failing \in 1..Len(all) /\ failing \in Nat /\ Len(all) \in Nat
    BY <1>0, <1>2, <1>6
  <2>2. made \o <<all[failing]>> = SubSeq(all, 1, failing)
    BY <1>2, <2>1, SubSeqRecursiveSecond
  <2>3. made \in Seq(Nat) /\ all[failing] \in Nat
    BY <1>2, <2>1
  <2>4. Len(SubSeq(all, 1, failing)) = failing
    BY <1>2, <2>1
  <2>5. r.list \o r.deleted \o r.lost = SubSeq(all, 1, failing)
    <3>1. CASE failing < Len(list)
      <4>1. r.list = <<>> /\ r.deleted = made /\ r.lost = <<all[failing]>>
        BY <1>3, <1>6, <3>1
      <4> HIDE DEF made
      <4>2. r.list \o r.deleted = made
        BY <2>3, <4>1
      <4>3. QED
        BY <2>2, <4>1, <4>2 DEF made
    <3>2. CASE ~ (failing < Len(list))
      <4>1. r.list = made /\ r.deleted = <<>> /\ r.lost = <<all[failing]>>
        BY <1>3, <1>6, <3>2
      <4> HIDE DEF made
      <4>2. r.list \o r.deleted = made
        BY <2>3, <4>1
      <4>3. QED
        BY <2>2, <4>1, <4>2 DEF made
    <3>3. QED
      BY <3>1, <3>2
  <2>6. r.list \in {all, <<>>, Cut(all, Len(all) - 1)}
    <3>1. CASE failing < Len(list)
      BY <1>3, <1>6, <3>1
    <3>2. CASE ~ (failing < Len(list))
      <4>1. r.list = made /\ failing = Len(all)
        BY <1>2, <1>3, <1>6, <2>1, <3>2
      <4>2. Cut(all, Len(all) - 1) = SubSeq(all, 1, Len(all) - 1)
        BY <1>4, <2>1
      <4>3. QED
        BY <4>1, <4>2
    <3>3. QED
      BY <3>1, <3>2
  <2>7. Cut(all, failing) = SubSeq(all, 1, failing)
    BY <1>4, <2>1
  <2> HIDE DEF made
  <2>8. QED
    BY <1>6, <2>4, <2>5, <2>6, <2>7 DEF MapMatches, all, r
<1>7. QED
  BY <1>5, <1>6

----------------------------------------------------------------------------
(* Strings: splitting. *)

(* Where the word starts and ends that is found from s + p on. *)
WordAt(s, b, p, w, e) ==
    /\ w = SkipDelimiters(s, b, p) /\ e = AfterWord(s, b, p) /\ LenT(s, b, w) = e - w
    /\ w \in p..Len(s) /\ e \in w..Len(s) /\ e \in 0..Len(s)
    /\ \A k \in (p + 1)..w : s[k] = b
    /\ \A k \in (w + 1)..e : s[k] # b
    /\ w < Len(s) => s[w + 1] # b /\ e > w
    /\ e < Len(s) => s[e + 1] = b
    /\ p < Len(s) => e > p

\* From every place a word, or the end, is found.
LEMMA WordIsFound ==
    ASSUME NEW s, NEW b, Len(s) \in Nat, NEW p \in 0..Len(s)
    PROVE  \E w, e \in 0..Len(s) : WordAt(s, b, p, w, e)
<1> DEFINE W == {k \in p..Len(s) : k = Len(s) \/ s[k + 1] # b}
           w == Min(W)
           E == {k \in w..Len(s) : k = Len(s) \/ s[k + 1] = b}
           e == Min(E)
<1>1. w \in W /\ w \in Nat /\ \A k \in W : w <= k
  <2>1. W \in SUBSET Nat /\ Len(s) \in W
    OBVIOUS
  <2> HIDE DEF W
  <2>2. QED
    BY <2>1, MinOfNat
<1>2. w = SkipDelimiters(s, b, p)
  BY DEF SkipDelimiters
<1>3. w \in p..Len(s) /\ w \in 0..Len(s)
  BY <1>1
<1> HIDE DEF w
<1>4. e \in E /\ e \in Nat /\ \A k \in E : e <= k
  <2>1. E \in SUBSET Nat /\ Len(s) \in E
    BY <1>3
  <2> HIDE DEF E
  <2>2. QED
    BY <2>1, MinOfNat
<1>5. LenT(s, b, w) = e - w
  BY DEF LenT
<1>6. e \in w..Len(s) /\ e \in 0..Len(s)
  BY <1>3, <1>4
<1> HIDE DEF e
<1>7. e = AfterWord(s, b, p)
  BY <1>2, <1>3, <1>5, <1>6 DEF AfterWord
<1>8. ASSUME NEW k \in (p + 1)..w PROVE s[k] = b
  <2> DEFINE l == k - 1
  <2>1. l \in p..Len(s) /\ l + 1 = k /\ l < w /\ l \in Int
    BY <1>3
  <2> HIDE DEF l
  <2>2. l \notin W
    BY <1>1, <2>1
  <2>3. QED
    BY <2>1, <2>2
<1>9. ASSUME NEW k \in (w + 1)..e PROVE s[k] # b
  <2>1. k - 1 \notin E /\ k - 1 \in w..Len(s) /\ (k - 1) + 1 = k
    BY <1>3, <1>4, <1>6
  <2>2. QED
    BY <2>1
<1>10. w < Len(s) => s[w + 1] # b
  BY <1>1
<1>11. e < Len(s) => s[e + 1] = b
  BY <1>4
<1>12. w < Len(s) => e > w
  <2>1. SUFFICES ASSUME w < Len(s), e = w PROVE FALSE
    BY <1>3, <1>6
  <2>2. QED
    BY <1>10, <1>11, <2>1
<1>13. p < Len(s) => e > p
  BY <1>3, <1>6, <1>12
<1>14. WordAt(s, b, p, w, e)
  BY <1>2, <1>3, <1>5, <1>6, <1>7, <1>8, <1>9, <1>10, <1>11, <1>12, <1>13, Zenon DEF WordAt
<1>15. QED
  BY <1>3, <1>6, <1>14

(* What ft_count_str counts from each place on. *)
Counts(count, s, b) ==
    /\ CountStr(s, b) = count[0]
    /\ \A p \in 0..Len(s) :
          /\ count[p] \in Nat
          /\ p = Len(s) => count[p] = 0
          /\ \A w, e \in 0..Len(s) : WordAt(s, b, p, w, e) /\ p < Len(s) =>
                count[p] = (IF w < Len(s) THEN 1 ELSE 0) + count[e]

\* count_str is defined from every place on.
LEMMA CountStrCounts ==
    ASSUME NEW s, NEW b, Len(s) \in Nat PROVE \E count : Counts(count, s, b)
<1> DEFINE D == 0..Len(s)
           Add(p) == IF LenT(s, b, SkipDelimiters(s, b, p)) > 0 THEN 1 ELSE 0
           Body(h, p) == IF p = Len(s) THEN 0 ELSE Add(p) + h[AfterWord(s, b, p)]
           f == CHOOSE f1 : f1 = [p \in D |-> Body(f1, p)]
           a == [p \in {Len(s)} |-> 0]
           next == [p \in D |-> AfterWord(s, b, p)]
           step == [q \in D \X Nat |-> Add(q[1]) + q[2]]
           m == [p \in D |-> Len(s) - p]
           Stop == {Len(s)}
<1>1. ASSUME NEW p \in D, p # Len(s)
      PROVE  /\ AfterWord(s, b, p) \in D /\ AfterWord(s, b, p) > p
             /\ \A w, e \in 0..Len(s) : WordAt(s, b, p, w, e) =>
                    e = AfterWord(s, b, p) /\ Add(p) = IF w < Len(s) THEN 1 ELSE 0
  <2>1. PICK v, x \in 0..Len(s) : WordAt(s, b, p, v, x)
    BY WordIsFound
  <2>2. ASSUME NEW w \in 0..Len(s), NEW e \in 0..Len(s), WordAt(s, b, p, w, e)
        PROVE  e = AfterWord(s, b, p) /\ Add(p) = IF w < Len(s) THEN 1 ELSE 0
    <3>1. w = SkipDelimiters(s, b, p) /\ e = AfterWord(s, b, p) /\ LenT(s, b, w) = e - w
      BY <2>2 DEF WordAt
    <3>2. w < Len(s) <=> e > w
      BY <2>2 DEF WordAt
    <3>3. e - w > 0 <=> e > w
      OBVIOUS
    <3>4. QED
      BY <3>1, <3>2, <3>3
  <2>3. x = AfterWord(s, b, p) /\ x \in D /\ x > p
    BY <1>1, <2>1 DEF WordAt
  <2> HIDE DEF Add
  <2>4. QED
    BY <2>2, <2>3
<1>2. \A p \in D : Add(p) \in Nat
  OBVIOUS
<1> HIDE DEF Add
<1>3. Descent(D, Nat, Stop, a, next, step, m)
  <2>1. Stop \in SUBSET D /\ \A x \in Stop : a[x] \in Nat
    OBVIOUS
  <2>2. \A x \in D : m[x] \in Nat /\ m[x] = Len(s) - x
    OBVIOUS
  <2>3. ASSUME NEW x \in D \ Stop PROVE next[x] \in D /\ m[next[x]] < m[x]
    <3>1. next[x] = AfterWord(s, b, x) /\ next[x] \in D /\ next[x] > x /\ x \in D
      BY <1>1
    <3>2. m[next[x]] = Len(s) - next[x] /\ m[x] = Len(s) - x
      BY <2>2, <3>1
    <3> HIDE DEF m, next
    <3>3. QED
      BY <3>1, <3>2
  <2>4. \A x \in D \ Stop : \A y \in Nat : step[<<x, y>>] \in Nat
    BY <1>2
  <2> HIDE DEF D, Stop, a, next, step, m
  <2>5. QED
    BY <2>1, <2>2, <2>3, <2>4 DEF Descent
<1>4. ASSUME NEW h, NEW p \in D, \A x \in D : h[x] \in Nat
      PROVE  Body(h, p) = IF p \in Stop THEN a[p] ELSE step[<<p, h[next[p]]>>]
  <2>1. CASE p = Len(s)
    BY <2>1
  <2>2. CASE p # Len(s)
    <3>1. next[p] = AfterWord(s, b, p) /\ next[p] \in D
      BY <1>1, <2>2
    <3> HIDE DEF next
    <3>2. h[next[p]] \in Nat
      BY <1>4, <3>1
    <3>3. step[<<p, h[next[p]]>>] = Add(p) + h[next[p]]
      BY <3>2
    <3>4. QED
      BY <2>2, <3>1, <3>3
  <2>3. QED
    BY <2>1, <2>2
<1>5. PICK g \in [D -> Nat] : Descends(g, D, Stop, a, next, step)
  <2> HIDE DEF D, Stop, a, next, step, m
  <2> QED
    BY <1>3, DescentSolved
<1>6. g = [p \in D |-> Body(g, p)]
  <2>1. \A p \in D : g[p] = Body(g, p)
    <3> HIDE DEF D, Stop, a, next, step, m, Body
    <3> QED
      BY <1>4, <1>5 DEF Descends
  <2> HIDE DEF Body, D
  <2>2. QED
    BY <2>1
<1>7. f = [p \in D |-> Body(f, p)]
  <2> HIDE DEF D, Body
  <2> QED
    BY <1>6
<1>8. CountStr(s, b) = f[0]
  BY DEF CountStr, Add
<1>9. \A p \in D : f[p] = g[p]
  <2>1. ASSUME NEW p \in D, p \in Stop \/ f[next[p]] = g[next[p]] PROVE f[p] = g[p]
    <3>1. f[p] = Body(f, p) /\ g[p] = Body(g, p)
      <4> HIDE DEF D, Body, f
      <4> QED
        BY <1>6, <1>7
    <3>2. CASE p = Len(s)
      <4> HIDE DEF f
      <4> QED
        BY <3>1, <3>2
    <3>3. CASE p # Len(s)
      <4>1. f[AfterWord(s, b, p)] = g[AfterWord(s, b, p)]
        <5> HIDE DEF f
        <5> QED
          BY <2>1, <3>3
      <4> HIDE DEF f
      <4>2. QED
        BY <3>1, <3>3, <4>1
    <3>4. QED
      BY <3>2, <3>3
  <2> HIDE DEF D, f, Stop, a, next, step, m
  <2>2. QED
    BY <1>3, <2>1, DescentSame
<1> HIDE DEF f
<1>10. ASSUME NEW p \in 0..Len(s)
       PROVE  /\ f[p] \in Nat
              /\ p = Len(s) => f[p] = 0
              /\ \A w, e \in 0..Len(s) : WordAt(s, b, p, w, e) /\ p < Len(s) =>
                    f[p] = (IF w < Len(s) THEN 1 ELSE 0) + f[e]
  <2>1. p \in D /\ f[p] = g[p] /\ g[p] \in Nat
    BY <1>9
  <2>2. f[p] = Body(f, p)
    <3> HIDE DEF D, Body
    <3> QED
      BY <1>7, <2>1
  <2>3. QED
    BY <1>1, <2>1, <2>2
<1>11. Counts(f, s, b)
  BY <1>8, <1>10 DEF Counts
<1>12. QED
  BY <1>11

(* The k-th word begins after from[k] bytes and ends after at[k]. *)
SplitsAt(from, at, s, b, size) ==
    /\ at[0] = 0 /\ \A k \in 0..size : at[k] \in 0..Len(s)
    /\ \A k \in 1..size :
          /\ from[k] \in at[k - 1]..Len(s) - 1 /\ at[k] \in from[k] + 1..Len(s)
          /\ \A l \in (at[k - 1] + 1)..from[k] : s[l] = b
          /\ \A l \in (from[k] + 1)..at[k] : s[l] # b
          /\ at[k] < Len(s) => s[at[k] + 1] = b
    /\ \A l \in (at[size] + 1)..Len(s) : s[l] = b

(* They are the words that ft_split finds. *)
SplitWords(from, at, s, b, size) ==
    /\ SplitsAt(from, at, s, b, size)
    /\ Words(s, b, size) = [k \in 1..size |-> SubSeq(s, from[k] + 1, at[k])]

\* ft_split finds the words that it has counted.
LEMMA SplitFindsWords ==
    ASSUME NEW s, NEW b, Len(s) \in Nat
    PROVE  LET size == CountStr(s, b) IN
           size \in Nat /\ \E from, at : SplitWords(from, at, s, b, size)
<1> DEFINE size == CountStr(s, b)
           D == 0..size
           Body(h, k) == IF k = 0 THEN 0 ELSE AfterWord(s, b, h[k - 1])
           f == CHOOSE f1 : f1 = [k \in D |-> Body(f1, k)]
           Y == 0..Len(s)
           Stop == {0}
           a == [k \in {0} |-> 0]
           next == [k \in Nat |-> k - 1]
           step == [q \in Nat \X Y |-> AfterWord(s, b, q[2])]
           m == [k \in Nat |-> k]
           from == [k \in D |-> SkipDelimiters(s, b, f[k - 1])]
<1>1. PICK count : Counts(count, s, b)
  BY CountStrCounts
<1>2. size \in Nat /\ size = count[0]
  <2>1. 0 \in 0..Len(s)
    OBVIOUS
  <2>2. QED
    BY <1>1, <2>1 DEF Counts
<1> HIDE DEF size
<1>3. \A y \in Y : AfterWord(s, b, y) \in Y
  BY WordIsFound DEF WordAt
<1>4. Descent(D, Y, Stop, a, next, step, m)
  <2>1. Stop \in SUBSET D /\ \A x \in Stop : a[x] \in Y
    BY <1>2
  <2>2. \A x \in D : m[x] \in Nat
    BY <1>2
  <2>3. \A x \in D \ Stop : next[x] \in D /\ m[next[x]] < m[x]
    BY <1>2
  <2>4. \A x \in D \ Stop : \A y \in Y : step[<<x, y>>] \in Y
    BY <1>2, <1>3
  <2> HIDE DEF D, Stop, a, next, step, m, Y
  <2>5. QED
    BY <2>1, <2>2, <2>3, <2>4 DEF Descent
<1>5. PICK g \in [D -> Y] : Descends(g, D, Stop, a, next, step)
  <2>1. Y # {}
    OBVIOUS
  <2> HIDE DEF D, Stop, a, next, step, m, Y
  <2>2. QED
    BY <1>4, <2>1, DescentSolved
<1>6. g = [k \in D |-> Body(g, k)]
  <2>1. ASSUME NEW k \in D PROVE g[k] = Body(g, k)
    <3>1. g[k] = IF k \in Stop THEN a[k] ELSE step[<<k, g[next[k]]>>]
      <4> HIDE DEF D, Stop, a, next, step, Y
      <4> QED
        BY <1>5 DEF Descends
    <3>2. CASE k = 0
      <4> HIDE DEF step, next
      <4> QED
        BY <3>1, <3>2
    <3>3. CASE k # 0
      <4>1. k \in Nat /\ next[k] = k - 1 /\ k - 1 \in D
        BY <1>2, <3>3
      <4>2. g[k - 1] \in Y
        BY <4>1
      <4>3. step[<<k, g[k - 1]>>] = AfterWord(s, b, g[k - 1])
        <5> DEFINE y == g[k - 1]
        <5> HIDE DEF y
        <5> QED
          BY <4>1, <4>2 DEF y
      <4> HIDE DEF step, next, a
      <4>4. QED
        BY <3>1, <3>3, <4>1, <4>3
    <3>4. QED
      BY <3>2, <3>3
  <2> HIDE DEF Body, D
  <2>2. QED
    BY <2>1
<1>7. f = [k \in D |-> Body(f, k)]
  <2> HIDE DEF D, Body
  <2> QED
    BY <1>6
<1>8. Words(s, b, size) = [k \in 1..size |-> SubSeq(s, SkipDelimiters(s, b, f[k - 1]) + 1, f[k])]
  BY DEF Words
<1> HIDE DEF f
<1>9. \A k \in D : f[k] = g[k]
  <2>1. ASSUME NEW k \in D, k \in Stop \/ f[next[k]] = g[next[k]] PROVE f[k] = g[k]
    <3>1. f[k] = Body(f, k) /\ g[k] = Body(g, k)
      <4> HIDE DEF D, Body
      <4> QED
        BY <1>6, <1>7
    <3>2. k # 0 => f[k - 1] = g[k - 1]
      BY <1>2, <2>1
    <3>3. QED
      BY <3>1, <3>2
  <2> HIDE DEF D, Stop, a, next, step, m, Y
  <2>2. QED
    BY <1>4, <2>1, DescentSame
<1>10. /\ f[0] = 0 /\ \A k \in D : f[k] \in Y
       /\ \A k \in D : k # 0 => f[k] = AfterWord(s, b, f[k - 1])
  <2>1. 0 \in D
    BY <1>2
  <2>2. QED
    BY <1>7, <1>9, <2>1
<1> HIDE DEF Body, Stop, a, next, step, m
<1> DEFINE P == {k \in D : count[f[k]] = size - k}
<1>11. ASSUME NEW k \in D, k # 0, count[f[k - 1]] = size - (k - 1)
       PROVE  /\ WordAt(s, b, f[k - 1], from[k], f[k])
              /\ from[k] < Len(s) /\ count[f[k]] = size - k
  <2>1. k \in Nat /\ k - 1 \in D /\ k <= size /\ f[k - 1] \in 0..Len(s)
    BY <1>2, <1>10, <1>11
  <2> DEFINE p == f[k - 1]
  <2>2. PICK w, e \in 0..Len(s) : WordAt(s, b, p, w, e)
    BY <2>1, WordIsFound
  <2>3. w = from[k] /\ e = f[k]
    <3>1. w = SkipDelimiters(s, b, p) /\ e = AfterWord(s, b, p)
      BY <2>2 DEF WordAt
    <3>2. QED
      BY <1>10, <1>11, <3>1
  <2>4. count[p] \in Nat /\ count[p] = size - (k - 1) /\ count[p] >= 1
    <3>1. count[p] \in Nat
      BY <1>1, <2>1 DEF Counts
    <3> HIDE DEF p
    <3>2. count[p] = size - (k - 1)
      BY <1>11 DEF p
    <3>3. QED
      BY <1>2, <2>1, <3>1, <3>2
  <2>5. p < Len(s)
    <3>1. p = Len(s) => count[p] = 0
      BY <1>1, <2>1 DEF Counts
    <3> HIDE DEF p
    <3>2. p \in 0..Len(s)
      BY <2>1 DEF p
    <3>3. QED
      BY <2>4, <3>1, <3>2
  <2>6. count[p] = (IF w < Len(s) THEN 1 ELSE 0) + count[e] /\ count[e] \in Nat
    BY <1>1, <2>1, <2>2, <2>5 DEF Counts
  <2>7. w < Len(s)
    <3>1. SUFFICES ASSUME ~ (w < Len(s)) PROVE FALSE
      OBVIOUS
    <3>2. e = Len(s)
      BY <2>2, <3>1 DEF WordAt
    <3>3. count[e] = 0
      BY <1>1, <3>2 DEF Counts
    <3> HIDE DEF p
    <3>4. QED
      BY <2>4, <2>6, <3>1, <3>3
  <2>8. count[e] = size - k
    <3> HIDE DEF p
    <3> QED
      BY <1>2, <2>1, <2>4, <2>6, <2>7
  <2> HIDE DEF from
  <2>9. QED
    BY <2>2, <2>3, <2>7, <2>8
<1>12. D = P
  <2>1. ASSUME NEW k \in D, \A l \in D : l < k => l \in P PROVE k \in P
    <3>1. CASE k = 0
      BY <1>2, <1>10, <3>1
    <3>2. CASE k # 0
      <4>1. k - 1 \in D /\ k - 1 < k
        BY <1>2, <3>2
      <4>2. k - 1 \in P
        BY <2>1, <4>1
      <4>3. count[f[k - 1]] = size - (k - 1)
        BY <4>2
      <4>4. count[f[k]] = size - k
        BY <1>11, <3>2, <4>3
      <4>5. QED
        BY <4>4
    <3>3. QED
      BY <3>1, <3>2
  <2>2. D \in SUBSET Nat /\ P \in SUBSET D
    BY <1>2
  <2> HIDE DEF D, P
  <2>3. QED
    BY <2>1, <2>2, Induction
<1>13. ASSUME NEW k \in 1..size
       PROVE  WordAt(s, b, f[k - 1], from[k], f[k]) /\ from[k] < Len(s)
  <2>1. k \in D /\ k # 0 /\ k - 1 \in D
    BY <1>2
  <2>2. k - 1 \in P
    BY <1>12, <2>1
  <2>3. count[f[k - 1]] = size - (k - 1)
    BY <2>2
  <2>4. QED
    BY <1>11, <2>1, <2>3
<1>14. \A l \in (f[size] + 1)..Len(s) : s[l] = b
  <2> DEFINE p == f[size]
  <2>1. p \in 0..Len(s) /\ count[p] = 0
    <3>1. size \in D /\ size - size = 0
      BY <1>2
    <3>2. size \in P
      BY <1>12, <3>1
    <3>3. count[f[size]] = size - size
      BY <3>2
    <3>4. QED
      BY <1>10, <3>1, <3>3
  <2> HIDE DEF p
  <2>2. PICK w, e \in 0..Len(s) : WordAt(s, b, p, w, e)
    BY <2>1, WordIsFound
  <2>3. CASE p < Len(s)
    <3>1. count[p] = (IF w < Len(s) THEN 1 ELSE 0) + count[e] /\ count[e] \in Nat
      BY <1>1, <2>1, <2>2, <2>3 DEF Counts
    <3>2. w = Len(s)
      BY <2>1, <2>2, <3>1
    <3>3. \A l \in (p + 1)..Len(s) : s[l] = b
      BY <2>2, <3>2 DEF WordAt
    <3>4. QED
      BY <3>3 DEF p
  <2>4. CASE p = Len(s)
    <3>1. \A l \in (p + 1)..Len(s) : FALSE
      BY <2>4
    <3>2. QED
      BY <3>1 DEF p
  <2>5. QED
    BY <2>1, <2>3, <2>4
<1>15. Words(s, b, size) = [k \in 1..size |-> SubSeq(s, from[k] + 1, f[k])]
  <2>1. \A k \in 1..size : from[k] = SkipDelimiters(s, b, f[k - 1])
    BY <1>2
  <2> HIDE DEF from
  <2>2. QED
    BY <1>8, <2>1
<1>16. ASSUME NEW k \in 1..size
       PROVE  /\ from[k] \in f[k - 1]..Len(s) - 1 /\ f[k] \in from[k] + 1..Len(s)
              /\ \A l \in (f[k - 1] + 1)..from[k] : s[l] = b
              /\ \A l \in (from[k] + 1)..f[k] : s[l] # b
              /\ f[k] < Len(s) => s[f[k] + 1] = b
  <2> DEFINE w == from[k]
             e == f[k]
             p == f[k - 1]
  <2>1. WordAt(s, b, p, w, e) /\ w < Len(s)
    BY <1>13
  <2>2. p \in 0..Len(s)
    <3>1. k - 1 \in D
      BY <1>2
    <3>2. QED
      BY <1>10, <3>1
  <2> HIDE DEF w, e, p
  <2>3. /\ w \in p..Len(s) - 1 /\ e \in w + 1..Len(s)
        /\ \A l \in (p + 1)..w : s[l] = b
        /\ \A l \in (w + 1)..e : s[l] # b
        /\ e < Len(s) => s[e + 1] = b
    BY <2>1, <2>2 DEF WordAt
  <2>4. QED
    BY <2>3 DEF w, e, p
<1>17. SplitsAt(from, f, s, b, size)
  <2> HIDE DEF from
  <2> QED
    BY <1>10, <1>14, <1>16 DEF SplitsAt
<1>18. SplitWords(from, f, s, b, size)
  <2> HIDE DEF from
  <2> QED
    BY <1>15, <1>17 DEF SplitWords
<1>19. QED
  BY <1>2, <1>18 DEF size

(* Where the words of s start. *)
WordStarts(s, b) == {p \in 1..Len(s) : s[p] # b /\ (p = 1 \/ s[p - 1] = b)}

\* The words begin where a stretch without the delimiter begins, all of them and in order.
LEMMA WordsAreStretches ==
    ASSUME NEW s, NEW b, Len(s) \in Nat, NEW size \in Nat, NEW from, NEW at,
           SplitsAt(from, at, s, b, size)
    PROVE  /\ \A k \in 1..size : from[k] + 1 \in WordStarts(s, b)
           /\ \A p \in WordStarts(s, b) : \E k \in 1..size : from[k] + 1 = p
           /\ \A k, l \in 1..size : k < l => from[k] + 1 < from[l] + 1
           /\ \A k \in 1..size :
                  at[k] = Max({q \in from[k] + 1..Len(s) : \A l \in from[k] + 1..q : s[l] # b})
<1>1. ASSUME NEW k \in 1..size
      PROVE  /\ k \in Nat /\ k - 1 \in 0..size /\ k \in 0..size
             /\ at[k - 1] \in 0..Len(s) /\ at[k - 1] \in Int /\ at[k] \in Int
             /\ from[k] \in Int /\ from[k] >= at[k - 1] /\ from[k] < Len(s)
             /\ at[k] > from[k] /\ at[k] <= Len(s)
             /\ \A l \in (at[k - 1] + 1)..from[k] : s[l] = b
             /\ \A l \in (from[k] + 1)..at[k] : s[l] # b
             /\ at[k] < Len(s) => s[at[k] + 1] = b
  <2>1. k \in Nat /\ k - 1 \in 0..size /\ k \in 0..size
    OBVIOUS
  <2>2. at[k - 1] \in 0..Len(s) /\ at[k] \in 0..Len(s)
    BY <2>1 DEF SplitsAt
  <2>3. from[k] \in at[k - 1]..Len(s) - 1 /\ at[k] \in from[k] + 1..Len(s)
    BY DEF SplitsAt
  <2>4. /\ \A l \in (at[k - 1] + 1)..from[k] : s[l] = b
        /\ \A l \in (from[k] + 1)..at[k] : s[l] # b
        /\ at[k] < Len(s) => s[at[k] + 1] = b
    BY DEF SplitsAt
  <2> DEFINE x == at[k - 1]
             y == at[k]
             z == from[k]
  <2> HIDE DEF x, y, z
  <2>5. x \in Int /\ y \in Int /\ z \in Int /\ z >= x /\ z < Len(s) /\ y > z /\ y <= Len(s)
    BY <2>2, <2>3 DEF x, y, z
  <2>6. QED
    BY <2>1, <2>2, <2>4, <2>5 DEF x, y, z
<1>2. ASSUME NEW k \in 1..size PROVE from[k] + 1 \in WordStarts(s, b)
  <2> DEFINE z == from[k]
             x == at[k - 1]
  <2>1. s[z + 1] # b /\ z + 1 \in 1..Len(s)
    <3> DEFINE y == at[k]
    <3>1. /\ z \in Int /\ y \in Int /\ y > z /\ z >= 0 /\ z < Len(s)
          /\ \A l \in (z + 1)..y : s[l] # b
      <4>1. x >= 0 /\ x \in Int /\ z >= x /\ z \in Int
        BY <1>1
      <4>2. z >= 0
        BY <4>1
      <4>3. QED
        BY <1>1, <4>2
    <3> HIDE DEF z, y
    <3>2. z + 1 \in (z + 1)..y /\ z + 1 \in 1..Len(s)
      BY <3>1
    <3>3. QED
      BY <3>1, <3>2
  <2>2. z + 1 = 1 \/ s[(z + 1) - 1] = b
    <3>0. x \in 0..Len(s) /\ z \in Int /\ z >= x /\ (z + 1) - 1 = z
      BY <1>1
    <3>1. CASE z > x
      <4>1. z \in (x + 1)..z
        BY <3>0, <3>1
      <4>2. s[z] = b
        BY <1>1, <4>1
      <4>3. QED
        BY <3>0, <4>2
    <3>2. CASE z = x
      <4>1. CASE k = 1
        <5>1. x = 0
          BY <4>1 DEF SplitsAt
        <5>2. QED
          BY <3>2, <5>1
      <4>2. CASE k # 1
        <5> DEFINE k1 == k - 1
        <5>1. k1 \in 1..size /\ at[k1] = x
          BY <4>2
        <5>2. at[k1] < Len(s) => s[at[k1] + 1] = b
          BY <1>1, <5>1
        <5>3. x < Len(s) /\ s[x + 1] # b
          BY <1>1, <2>1, <3>2
        <5> HIDE DEF k1
        <5>4. QED
          BY <5>1, <5>2, <5>3
      <4>3. QED
        BY <4>1, <4>2
    <3>3. QED
      BY <3>0, <3>1, <3>2
  <2>3. QED
    BY <2>1, <2>2 DEF WordStarts
<1>3. ASSUME NEW p \in WordStarts(s, b) PROVE \E k \in 1..size : from[k] + 1 = p
  <2> DEFINE K == {k \in 0..size : p <= at[k]}
  <2>1. p \in 1..Len(s) /\ s[p] # b /\ (p = 1 \/ s[p - 1] = b)
    BY DEF WordStarts
  <2>2. size \in K
    <3>1. size \in 0..size /\ at[size] \in 0..Len(s) /\ \A l \in (at[size] + 1)..Len(s) : s[l] = b
      BY DEF SplitsAt
    <3> DEFINE y == at[size]
    <3>2. y \in 0..Len(s) /\ \A l \in (y + 1)..Len(s) : s[l] = b
      BY <3>1
    <3> HIDE DEF y
    <3>3. p <= y
      BY <2>1, <3>2
    <3>4. QED
      BY <3>1, <3>3 DEF y
  <2>3. PICK k \in K : \A l \in K : k <= l
    <3>1. K \in SUBSET Nat /\ K # {}
      BY <2>2
    <3> HIDE DEF K
    <3>2. QED
      BY <3>1, LeastNat
  <2>4. k \in 0..size /\ p <= at[k]
    BY <2>3
  <2>5. k # 0
    BY <2>1, <2>4 DEF SplitsAt
  <2>6. k \in 1..size /\ k - 1 \in 0..size /\ ~ (p <= at[k - 1])
    <3>1. k \in 1..size /\ k - 1 \in 0..size /\ ~ (k <= k - 1)
      BY <2>4, <2>5
    <3>2. k - 1 \notin K
      BY <2>3, <3>1
    <3>3. QED
      BY <3>1, <3>2
  <2> DEFINE x == at[k - 1]
             y == at[k]
             z == from[k]
  <2>7. /\ x \in Int /\ y \in Int /\ z \in Int /\ z >= x /\ z < y /\ x < p /\ p <= y /\ x >= 0
        /\ \A l \in (x + 1)..z : s[l] = b
        /\ \A l \in (z + 1)..y : s[l] # b
    <3>1. x \in Int
      BY <1>1, <2>6
    <3>2. QED
      BY <1>1, <2>1, <2>4, <2>6, <3>1
  <2> HIDE DEF x, y, z
  <2>8. z < p
    BY <2>1, <2>7
  <2>9. z + 1 = p
    <3>1. SUFFICES ASSUME z + 1 < p PROVE FALSE
      BY <2>1, <2>7, <2>8
    <3>2. p - 1 \in (z + 1)..y /\ p # 1
      BY <2>1, <2>7, <3>1
    <3>3. QED
      BY <2>1, <2>7, <3>2
  <2>10. QED
    BY <2>6, <2>9 DEF z
<1>4. ASSUME NEW k \in 1..size, NEW l \in 1..size, k < l PROVE from[k] + 1 < from[l] + 1
  <2> DEFINE D == k + 1..size
             P == {q \in D : at[k] <= from[q]}
  <2>1. ASSUME NEW q \in D, \A r \in D : r < q => r \in P PROVE q \in P
    <3>1. q \in 1..size /\ from[q] \in Int /\ at[k] \in Int
      BY <1>1
    <3>2. CASE q = k + 1
      <4>1. q - 1 = k
        BY <3>2
      <4>2. from[q] >= at[k]
        BY <1>1, <3>1, <4>1
      <4>3. QED
        BY <3>1, <4>2
    <3>3. CASE q # k + 1
      <4> DEFINE r == q - 1
      <4>1. r \in D /\ r < q /\ r \in 1..size /\ q - 1 = r
        BY <3>3
      <4> HIDE DEF r
      <4>2. at[k] <= from[r]
        BY <2>1, <4>1
      <4>3. from[r] < at[r] /\ at[r] <= from[q] /\ from[r] \in Int /\ at[r] \in Int
        BY <1>1, <3>1, <4>1
      <4>4. at[k] <= from[q]
        BY <3>1, <4>2, <4>3
      <4>5. QED
        BY <4>4
    <3>4. QED
      BY <3>2, <3>3
  <2>2. D \in SUBSET Nat /\ P \in SUBSET D
    OBVIOUS
  <2>3. l \in D
    BY <1>4
  <2>4. D = P
    <3> HIDE DEF D, P
    <3> QED
      BY <2>1, <2>2, Induction
  <2>5. at[k] <= from[l]
    BY <2>3, <2>4
  <2>6. from[k] \in Int /\ at[k] \in Int /\ from[l] \in Int /\ from[k] < at[k]
    BY <1>1
  <2>7. QED
    BY <2>5, <2>6
<1>5. ASSUME NEW k \in 1..size
      PROVE  at[k] = Max({q \in from[k] + 1..Len(s) : \A l \in from[k] + 1..q : s[l] # b})
  <2> DEFINE y == at[k]
             z == from[k]
             Q == {q \in z + 1..Len(s) : \A l \in z + 1..q : s[l] # b}
  <2>1. /\ y \in Int /\ z \in Int /\ z < y /\ y <= Len(s)
        /\ \A l \in (z + 1)..y : s[l] # b
        /\ y < Len(s) => s[y + 1] = b
    BY <1>1
  <2> HIDE DEF y, z
  <2>2. y \in Q /\ Q \in SUBSET Int
    BY <2>1
  <2>3. ASSUME NEW q \in Q PROVE y >= q
    <3>1. SUFFICES ASSUME y < q PROVE FALSE
      BY <2>1
    <3>2. y < Len(s) /\ y + 1 \in z + 1..q
      BY <2>1, <3>1
    <3>3. QED
      BY <2>1, <3>2
  <2>4. Max(Q) = y
    <3> HIDE DEF Q
    <3> QED
      BY <2>2, <2>3, MaxIs
  <2>5. QED
    BY <2>4 DEF y, z
<1>6. QED
  BY <1>2, <1>3, <1>4, <1>5

\* ft_split returns the longest stretches without the delimiter, or NULL.
LEMMA SplitReturnsWords ==
    ASSUME NEW s, NEW b, Len(s) \in Nat, NEW failing \in Int
    PROVE  SplitMatches(Split(s, b, failing), s, b, failing)
<1> DEFINE size == CountStr(s, b)
           r == Split(s, b, failing)
           Stretch(p, q) == p <= q /\ \A k \in p..q : s[k] # b
           starts == {p \in 1..Len(s) : Stretch(p, p) /\ (p = 1 \/ s[p - 1] = b)}
           Word(p) == SubSeq(s, p, Max({q \in p..Len(s) : Stretch(p, q)}))
<1>1. size \in Nat
  BY SplitFindsWords
<1>0. PICK from, at : SplitWords(from, at, s, b, size)
  BY SplitFindsWords
<1> HIDE DEF size
<1>2. /\ SplitsAt(from, at, s, b, size)
      /\ Words(s, b, size) = [k \in 1..size |-> SubSeq(s, from[k] + 1, at[k])]
  BY <1>0 DEF SplitWords
<1>3. /\ r.null <=> failing \in 0..size
      /\ r.null => r.words = <<>>
      /\ ~r.null => r.words = Words(s, b, size)
  BY DEF Split, size
<1> HIDE DEF size, r
<1>4. starts = WordStarts(s, b)
  <2>1. \A p \in 1..Len(s) : Stretch(p, p) <=> s[p] # b
    OBVIOUS
  <2> HIDE DEF Stretch
  <2>2. QED
    BY <2>1 DEF WordStarts
<1>5. /\ \A k \in 1..size : from[k] + 1 \in WordStarts(s, b)
      /\ \A p \in WordStarts(s, b) : \E k \in 1..size : from[k] + 1 = p
      /\ \A k, l \in 1..size : k < l => from[k] + 1 < from[l] + 1
      /\ \A k \in 1..size :
            at[k] = Max({q \in from[k] + 1..Len(s) : \A l \in from[k] + 1..q : s[l] # b})
  BY <1>1, <1>2, WordsAreStretches
<1> DEFINE first == [k \in 1..size |-> from[k] + 1]
<1>6. /\ first \in [1..size -> starts]
      /\ \A p \in starts : \E k \in 1..size : first[k] = p
      /\ \A k, l \in 1..size : k < l => first[k] < first[l]
  <2> HIDE DEF starts
  <2> QED
    BY <1>4, <1>5
<1>7. ASSUME NEW k \in 1..size PROVE SubSeq(s, from[k] + 1, at[k]) = Word(first[k])
  <2> DEFINE p == from[k] + 1
             Q == {q \in p..Len(s) : Stretch(p, q)}
             R == {q \in p..Len(s) : \A l \in p..q : s[l] # b}
  <2>1. p \in 1..Len(s)
    BY <1>5 DEF WordStarts
  <2> HIDE DEF p
  <2>2. Q = R
    BY <2>1
  <2>3. at[k] = Max(R) /\ first[k] = p
    BY <1>5 DEF p
  <2>4. SubSeq(s, p, at[k]) = Word(p)
    <3> HIDE DEF Q, R
    <3>1. at[k] = Max(Q)
      BY <2>2, <2>3
    <3>2. QED
      BY <3>1 DEF Q
  <2> HIDE DEF first
  <2>5. QED
    BY <2>3, <2>4 DEF p
<1>8. Cardinality(starts) = size
  <2>1. first \in Bijection(1..size, starts)
    <3> HIDE DEF first, starts
    <3>1. \A k, l \in 1..size : k # l => first[k] # first[l]
      <4>1. ASSUME NEW k \in 1..size, NEW l \in 1..size, k # l PROVE first[k] # first[l]
        <5>1. k < l \/ l < k
          BY <4>1
        <5>2. \A p \in starts : p \in Nat
          BY DEF starts
        <5>3. first[k] \in Nat /\ first[l] \in Nat
          BY <1>6, <5>2
        <5>4. first[k] < first[l] \/ first[l] < first[k]
          BY <1>6, <5>1
        <5>5. QED
          BY <5>3, <5>4
      <4>2. QED
        BY <4>1
    <3>2. first \in [1..size -> starts] /\ \A p \in starts : \E k \in 1..size : first[k] = p
      BY <1>6
    <3>3. QED
      BY <3>1, <3>2, Zenon DEF Bijection, Injection, Surjection, IsInjective
  <2>2. ExistsBijection(1..size, starts)
    <3> HIDE DEF first, starts
    <3> QED
      BY <2>1 DEF ExistsBijection
  <2> HIDE DEF starts
  <2>3. QED
    BY <1>1, <2>2, FS_CountingElements
<1>9. CASE r.null
  <2>1. r.words = <<>> /\ failing <= size
    BY <1>1, <1>3, <1>9
  <2>2. failing <= Cardinality(starts)
    BY <1>8, <2>1
  <2>3. SplitMatches(r, s, b, failing)
    BY <1>9, <2>1, <2>2, Zenon DEF SplitMatches
  <2>4. QED
    BY <2>3 DEF r
<1>10. CASE ~ r.null
  <2> DEFINE words == r.words
  <2>1. words = [k \in 1..size |-> SubSeq(s, from[k] + 1, at[k])]
    BY <1>2, <1>3, <1>10
  <2>2. Len(words) = size /\ \A k \in 1..size : words[k] = SubSeq(s, from[k] + 1, at[k])
    <3> DEFINE X == {SubSeq(s, from[k] + 1, at[k]) : k \in 1..size}
    <3> HIDE DEF words
    <3>1. words \in [1..size -> X]
      BY <2>1
    <3> HIDE DEF X
    <3>2. Len(words) = size
      BY <1>1, <3>1
    <3>3. QED
      BY <2>1, <3>2
  <2> HIDE DEF words, starts, Word, first
  <2>3. \E at1 \in [1..Len(words) -> starts] :
           /\ \A p \in starts : \E k \in 1..Len(words) : at1[k] = p
           /\ \A k, l \in 1..Len(words) : k < l => at1[k] < at1[l]
           /\ \A k \in 1..Len(words) : words[k] = Word(at1[k])
    <3>1. \A k \in 1..Len(words) : words[k] = Word(first[k])
      BY <1>7, <2>2
    <3>2. QED
      BY <1>6, <2>2, <3>1
  <2>4. SplitMatches(r, s, b, failing)
    BY <1>10, <2>3 DEF SplitMatches, words, starts, Word
  <2>5. QED
    BY <2>4 DEF r
<1>11. QED
  BY <1>9, <1>10

----------------------------------------------------------------------------
(* The string functions. *)

(* A task is one of those MCInit chooses. *)
TaskOK ==
    \/ task = [kind |-> "memory"]
    \/ task \in NumberTasks \/ task \in AtoiTasks \/ task \in PrintfTasks
    \/ task \in SearchTasks \/ task \in SubStrTasks \/ task \in TrimTasks
    \/ task \in SplitTasks \/ task \in MapTasks \/ task \in LongTasks

(* The tasks of each kind. *)
TaskOfKind ==
    /\ task.kind = "number" => task \in NumberTasks
    /\ task.kind = "atoi" => task \in AtoiTasks
    /\ task.kind = "printf" => task \in PrintfTasks
    /\ task.kind = "search" => task \in SearchTasks
    /\ task.kind = "substr" => task \in SubStrTasks
    /\ task.kind = "trim" => task \in TrimTasks
    /\ task.kind = "split" => task \in SplitTasks
    /\ task.kind = "map" => task \in MapTasks
    /\ task.kind = "long" => task \in LongTasks

\* What is called is told by its kind.
LEMMA KindTells == ASSUME TaskOK PROVE TaskOfKind
<1>1. task = [kind |-> "memory"] => task.kind = "memory"
  OBVIOUS
<1>2. task \in NumberTasks => task.kind = "number"
  BY DEF NumberTasks
<1>3. task \in AtoiTasks => task.kind = "atoi"
  BY DEF AtoiTasks
<1>4. task \in PrintfTasks => task.kind = "printf"
  BY DEF PrintfTasks
<1>5. task \in SearchTasks => task.kind = "search"
  BY DEF SearchTasks
<1>6. task \in SubStrTasks => task.kind = "substr"
  BY DEF SubStrTasks
<1>7. task \in TrimTasks => task.kind = "trim"
  BY DEF TrimTasks
<1>8. task \in SplitTasks => task.kind = "split"
  BY DEF SplitTasks
<1>9. task \in MapTasks => task.kind = "map"
  BY DEF MapTasks
<1>10. task \in LongTasks => task.kind = "long"
  BY DEF LongTasks
<1>11. QED
  BY <1>1, <1>2, <1>3, <1>4, <1>5, <1>6, <1>7, <1>8, <1>9, <1>10 DEF TaskOK, TaskOfKind

\* The strings of a task are texts.
LEMMA LetterStrings ==
    ASSUME NEW s \in Strings(Letters, MaxLen) PROVE s \in Text0 /\ s \in Seq(Letters) /\ Len(s) \in Nat
<1>1. s \in Seq(Letters) /\ Len(s) \in Nat
  BY LengthsAssumption, StringsAreSequences
<1>2. \A x \in Letters : x \in Nat \ {0}
  BY LettersAssumption
<1>3. s \in Seq(Nat \ {0})
  <2>1. \A k \in 1..Len(s) : s[k] \in Nat \ {0}
    BY <1>1, <1>2
  <2>2. QED
    BY <1>1, <2>1
<1>4. QED
  BY <1>1, <1>3 DEF Text0

\* The search functions.
LEMMA CallSearchMatches == ASSUME TaskOK, CallSearch PROVE Searched'
<1> DEFINE s == task.s
           t == task.t
           b == task.b
           k == task.n
           r == SearchResult(s, t, b, k)
<1>1. task.kind = "search" /\ task' = task /\ result' = <<r>>
  BY DEF CallSearch, Gives, SearchResult
<1>2. task \in SearchTasks
  BY <1>1, KindTells DEF TaskOfKind
<1>3. s \in Text0 /\ t \in Text0 /\ b \in Nat /\ k \in Nat
  <2>1. /\ s \in Strings(Letters, MaxLen) /\ t \in Strings(Letters, MaxLen)
        /\ b \in {0} \cup Letters /\ k \in 0..MaxLen + 1
    BY <1>2 DEF SearchTasks
  <2>2. s \in Text0 /\ t \in Text0
    BY <2>1, LetterStrings
  <2> HIDE DEF s, t, b, k
  <2>3. b \in Nat /\ k \in Nat
    BY <2>1, LettersAssumption, LengthsAssumption
  <2>4. QED
    BY <2>2, <2>3
<1>4. SearchMatches(r, s, t, b, k)
  <2> HIDE DEF s, t, b, k
  <2> QED
    BY <1>3, SearchesMatch
<1>5. result'[1] = r
  BY <1>1
<1>6. task'.s = s /\ task'.t = t /\ task'.b = b /\ task'.n = k
  BY <1>1
<1> HIDE DEF r, s, t, b, k
<1>7. QED
  BY <1>4, <1>5, <1>6, Zenon DEF SearchMatches, Searched, Places, Occurrences

\* ft_substr.
LEMMA CallSubStrMatches == ASSUME TaskOK, CallSubStr PROVE CutOut'
<1> DEFINE s == task.s
           a == task.start
           k == task.len
           r == SubStr(s, a, k)
<1>1. task.kind = "substr" /\ task' = task /\ result' = <<r>>
  BY DEF CallSubStr, Gives
<1>2. task \in SubStrTasks
  BY <1>1, KindTells DEF TaskOfKind
<1>3. s \in Text0 /\ a \in Nat /\ k \in Nat
  <2>1. s \in Strings(Letters, MaxLen) /\ a \in 0..MaxLen + 1 /\ k \in 0..MaxLen + 1 \cup {Huge}
    BY <1>2 DEF SubStrTasks
  <2>2. s \in Text0
    BY <2>1, LetterStrings
  <2> HIDE DEF s, a, k
  <2>3. a \in Nat /\ k \in Nat
    BY <2>1, LengthsAssumption DEF Huge
  <2>4. QED
    BY <2>2, <2>3
<1>4. Fits(r) /\ r.text = SubSeq(s, a + 1, Min({Len(s), a + k}))
  <2> HIDE DEF s, a, k
  <2> QED
    BY <1>3, SubStrCuts
<1>5. result'[1] = r /\ task'.kind = "substr" /\ task'.s = s /\ task'.start = a /\ task'.len = k
  BY <1>1
<1> HIDE DEF r, s, a, k
<1>6. ~ Result("trim")'
  BY <1>5 DEF Result
<1>7. QED
  BY <1>4, <1>5, <1>6 DEF CutOut, Fits

\* ft_strtrim.
LEMMA CallTrimMatches == ASSUME TaskOK, CallTrim PROVE CutOut'
<1> DEFINE s == task.s
           set == task.set
           before == task.before
           r == StrTrim(s, set, before, Huge)
           kept == {k \in 1..Len(s) : ~Contains(set, s[k])}
<1>1. task.kind = "trim" /\ task' = task /\ result' = <<r>>
  BY DEF CallTrim, Gives
<1>2. task \in TrimTasks
  BY <1>1, KindTells DEF TaskOfKind
<1>3. s \in Text0 /\ set \in Text0 /\ Len(before) \in Nat \ {0} /\ Huge \in Nat
  <2>1. /\ s \in Strings(Letters, MaxLen) /\ set \in Strings(Letters, MaxLen)
        /\ before \in Strings({0} \cup Letters, MaxLen) /\ before # <<>>
    BY <1>2 DEF TrimTasks
  <2>2. s \in Text0 /\ set \in Text0
    BY <2>1, LetterStrings
  <2> HIDE DEF s, set, before
  <2>3. before \in Seq({0} \cup Letters)
    BY <2>1, LengthsAssumption, StringsAreSequences
  <2>4. Len(before) \in Nat \ {0}
    BY <2>1, <2>3
  <2>5. Huge \in Nat
    BY LengthsAssumption DEF Huge
  <2>6. QED
    BY <2>2, <2>4, <2>5
<1>4. Fits(r) /\ r.text = IF kept = {} THEN <<>> ELSE SubSeq(s, Min(kept), Max(kept))
  <2> HIDE DEF s, set, before
  <2> QED
    BY <1>3, StrTrimCuts
<1>5. result'[1] = r /\ task'.kind = "trim" /\ task'.s = s /\ task'.set = set
  BY <1>1
<1> HIDE DEF r, s, set, before
<1>6. ~ Result("substr")'
  BY <1>5 DEF Result
<1>7. QED
  BY <1>4, <1>5, <1>6 DEF CutOut, Fits

\* ft_split.
LEMMA CallSplitMatches == ASSUME TaskOK, CallSplit PROVE WordsFound'
<1> DEFINE s == task.s
           b == task.b
           failing == task.failing
           r == Split(s, b, failing)
<1>1. task.kind = "split" /\ task' = task /\ result' = <<r>>
  BY DEF CallSplit, Gives
<1>2. task \in SplitTasks
  BY <1>1, KindTells DEF TaskOfKind
<1>3. Len(s) \in Nat /\ failing \in Int
  <2>1. s \in Strings(Letters, MaxLen) /\ failing \in None..MaxLen + 1
    BY <1>2 DEF SplitTasks
  <2>2. Len(s) \in Nat
    BY <2>1, LetterStrings
  <2>3. QED
    BY <2>1, <2>2
<1>4. SplitMatches(r, s, b, failing)
  <2> HIDE DEF s, b, failing
  <2> QED
    BY <1>3, SplitReturnsWords
<1>5. result'[1] = r /\ task'.s = s /\ task'.b = b /\ task'.failing = failing
  BY <1>1
<1> HIDE DEF r, s, b, failing
<1>6. QED
  BY <1>4, <1>5, Zenon DEF WordsFound

\* ft_lstmap.
LEMMA CallMapMatches == ASSUME TaskOK, CallMap PROVE ListMapped'
<1> DEFINE list == task.list
           failing == task.failing
           r == LstMap(list, [x \in Letters |-> x + 10], failing)
<1>1. task.kind = "map" /\ task' = task /\ result' = <<r>>
  BY DEF CallMap, Gives
<1>2. task \in MapTasks
  BY <1>1, KindTells DEF TaskOfKind
<1>3. list \in Seq(Letters) /\ failing \in Int
  <2>1. list \in Strings(Letters, MaxLen) /\ failing \in None..MaxLen
    BY <1>2 DEF MapTasks
  <2>2. QED
    BY <2>1, LetterStrings
<1>4. MapMatches(r, list, failing)
  <2>1. Letters \in SUBSET Nat
    BY LettersAssumption
  <2> HIDE DEF list, failing
  <2>2. QED
    BY <1>3, <2>1, LstMapKeeps
<1>5. result'[1] = r /\ task'.list = list /\ task'.failing = failing
  BY <1>1
<1> HIDE DEF r, list, failing
<1>6. QED
  BY <1>4, <1>5, Zenon DEF ListMapped, MapMatches

(* The tasks never change: with what they are, StringsMatchReference is inductive. *)
StringsInv == TaskOK /\ StringsMatchReference

\* It holds before any call.
LEMMA StringsInitInv == MCInit => StringsInv
<1> SUFFICES ASSUME MCInit PROVE StringsInv
  OBVIOUS
<1>1. TaskOK
  BY DEF MCInit, TaskOK
<1>2. result = <<>>
  BY DEF MCInit
<1>3. \A kind : ~ Result(kind)
  BY <1>2 DEF Result
<1>4. QED
  BY <1>1, <1>3 DEF StringsInv, StringsMatchReference, Searched, CutOut, WordsFound, ListMapped

\* A call gives a result of its own kind only.
LEMMA GivesItsKind ==
    ASSUME NEW kind, NEW value, Gives(kind, value), TaskOK
    PROVE  /\ TaskOK' /\ task'.kind = kind
           /\ kind # "search" => Searched'
           /\ kind \notin {"substr", "trim"} => CutOut'
           /\ kind # "split" => WordsFound'
           /\ kind # "map" => ListMapped'
<1>1. task' = task /\ task.kind = kind
  BY DEF Gives
<1>2. TaskOK'
  BY <1>1 DEF TaskOK, NumberTasks, AtoiTasks, PrintfTasks, SearchTasks, SubStrTasks, TrimTasks, SplitTasks, MapTasks, LongTasks
<1>3. \A other : other # kind => ~ Result(other)'
  BY <1>1 DEF Result
<1>4. QED
  BY <1>1, <1>2, <1>3 DEF Searched, CutOut, WordsFound, ListMapped

\* Every call keeps it.
LEMMA StringsNextInv == StringsInv /\ [MCNext]_vars => StringsInv'
<1> SUFFICES ASSUME StringsInv, [MCNext]_vars PROVE StringsInv'
  OBVIOUS
<1>0. TaskOK /\ Searched /\ CutOut /\ WordsFound /\ ListMapped
  BY DEF StringsInv, StringsMatchReference
<1>1. CASE UNCHANGED <<task, result>>
  <2>1. task' = task /\ result' = result
    BY <1>1
  <2>2. TaskOK'
    BY <1>0, <2>1 DEF TaskOK, NumberTasks, AtoiTasks, PrintfTasks, SearchTasks, SubStrTasks, TrimTasks, SplitTasks, MapTasks, LongTasks
  <2>3. Searched'
    BY <1>0, <2>1, Zenon DEF Searched, Result
  <2>4. CutOut'
    BY <1>0, <2>1, Zenon DEF CutOut, Result
  <2>5. WordsFound'
    BY <1>0, <2>1, Zenon DEF WordsFound, Result
  <2>6. ListMapped'
    BY <1>0, <2>1, Zenon DEF ListMapped, Result
  <2>7. QED
    BY <2>2, <2>3, <2>4, <2>5, <2>6 DEF StringsInv, StringsMatchReference
<1>2. CASE CallNumber
  BY <1>0, <1>2, GivesItsKind DEF CallNumber, StringsInv, StringsMatchReference
<1>3. CASE CallAtoi
  BY <1>0, <1>3, GivesItsKind DEF CallAtoi, StringsInv, StringsMatchReference
<1>4. CASE CallPrintf
  BY <1>0, <1>4, GivesItsKind DEF CallPrintf, StringsInv, StringsMatchReference
<1>5. CASE CallLong
  BY <1>0, <1>5, GivesItsKind DEF CallLong, StringsInv, StringsMatchReference
<1>6. CASE CallSearch
  <2>1. Searched'
    BY <1>0, <1>6, CallSearchMatches
  <2>2. QED
    BY <1>0, <1>6, <2>1, GivesItsKind DEF CallSearch, StringsInv, StringsMatchReference
<1>7. CASE CallSubStr
  <2>1. CutOut'
    BY <1>0, <1>7, CallSubStrMatches
  <2>2. QED
    BY <1>0, <1>7, <2>1, GivesItsKind DEF CallSubStr, StringsInv, StringsMatchReference
<1>8. CASE CallTrim
  <2>1. CutOut'
    BY <1>0, <1>8, CallTrimMatches
  <2>2. QED
    BY <1>0, <1>8, <2>1, GivesItsKind DEF CallTrim, StringsInv, StringsMatchReference
<1>9. CASE CallSplit
  <2>1. WordsFound'
    BY <1>0, <1>9, CallSplitMatches
  <2>2. QED
    BY <1>0, <1>9, <2>1, GivesItsKind DEF CallSplit, StringsInv, StringsMatchReference
<1>10. CASE CallMap
  <2>1. ListMapped'
    BY <1>0, <1>10, CallMapMatches
  <2>2. QED
    BY <1>0, <1>10, <2>1, GivesItsKind DEF CallMap, StringsInv, StringsMatchReference
<1>11. QED
  BY <1>1, <1>2, <1>3, <1>4, <1>5, <1>6, <1>7, <1>8, <1>9, <1>10 DEF MCNext, Memory, vars

\* The string functions keep to their man pages, for every alphabet and every length.
THEOREM StringFunctionsMatch == MCSpec => []StringsMatchReference
<1>1. MCSpec => []StringsInv
  BY StringsInitInv, StringsNextInv, PTL DEF MCSpec
<1>2. StringsInv => StringsMatchReference
  BY DEF StringsInv
<1>3. QED
  BY <1>1, <1>2, PTL

----------------------------------------------------------------------------
(* Powers and quotients. *)

\* Power is exponentiation.
LEMMA PowerIs ==
    ASSUME NEW b \in Nat \ {0}
    PROVE  /\ Power(b, 0) = 1
           /\ \A k \in Nat : Power(b, k) \in Nat \ {0} /\ Power(b, k + 1) = b * Power(b, k)
<1> DEFINE Body(h, k) == IF k = 0 THEN 1 ELSE b * h[k - 1]
           f == CHOOSE f1 : f1 = [k \in Nat |-> Body(f1, k)]
           step == [p \in Nat \X Nat |-> b * p[2]]
<1>1. \A k \in Nat : \A y \in Nat : step[<<k, y>>] = b * y /\ step[<<k, y>>] \in Nat
  OBVIOUS
<1>2. PICK g \in [Nat -> Nat] : Steps(g, Nat, 1, step)
  <2> HIDE DEF step
  <2>1. 1 \in Nat /\ 0 \in Nat /\ Nat \in SUBSET Nat /\ \A k \in Nat \ {0} : k - 1 \in Nat
    OBVIOUS
  <2>2. \A k \in Nat \ {0} : \A y \in Nat : step[<<k, y>>] \in Nat
    BY <1>1
  <2>3. QED
    BY <2>1, <2>2, StepsSolved
<1>3. g = [k \in Nat |-> Body(g, k)]
  <2>1. ASSUME NEW k \in Nat PROVE g[k] = Body(g, k)
    <3>1. k # 0 => g[k - 1] \in Nat
      OBVIOUS
    <3> HIDE DEF step
    <3>2. QED
      BY <1>1, <1>2, <3>1 DEF Steps
  <2> HIDE DEF Body
  <2>2. QED
    BY <2>1
<1>4. f = [k \in Nat |-> Body(f, k)]
  <2> HIDE DEF Body
  <2> QED
    BY <1>3
<1>5. \A k \in Nat : Power(b, k) = f[k]
  BY DEF Power
<1> HIDE DEF f
<1>6. \A k \in Nat : f[k] = Body(f, k)
  <2> HIDE DEF Body
  <2> QED
    BY <1>4
<1>7. f[0] = 1 /\ \A k \in Nat : f[k + 1] = b * f[k]
  BY <1>6
<1> DEFINE P == {k \in Nat : f[k] \in Nat \ {0}}
<1>8. Nat = P
  <2>1. ASSUME NEW k \in Nat, \A l \in Nat : l < k => l \in P PROVE k \in P
    <3>1. CASE k = 0
      BY <1>7, <3>1
    <3>2. CASE k # 0
      <4>1. k - 1 \in P /\ f[k] = b * f[k - 1]
        BY <1>6, <2>1, <3>2
      <4>2. f[k - 1] \in Nat \ {0}
        BY <4>1
      <4>3. b * f[k - 1] \in Nat \ {0}
        BY <4>2
      <4>4. QED
        BY <4>1, <4>3
    <3>3. QED
      BY <3>1, <3>2
  <2> HIDE DEF P
  <2>2. P \in SUBSET Nat
    BY DEF P
  <2>3. QED
    BY <2>1, <2>2, Induction
<1>9. \A k \in Nat : f[k] \in Nat \ {0} /\ k + 1 \in Nat
  BY <1>8
<1> HIDE DEF P
<1>10. QED
  BY <1>5, <1>7, <1>9

\* Powers of the same base multiply.
LEMMA PowerAdds ==
    ASSUME NEW b \in Nat \ {0}, NEW k \in Nat, NEW l \in Nat
    PROVE  Power(b, k + l) = Power(b, k) * Power(b, l)
<1> DEFINE P == {m \in Nat : Power(b, k + m) = Power(b, k) * Power(b, m)}
<1>1. ASSUME NEW m \in Nat, \A x \in Nat : x < m => x \in P PROVE m \in P
  <2>1. CASE m = 0
    BY <2>1, PowerIs
  <2>2. CASE m # 0
    <3> DEFINE x == m - 1
    <3>1. x \in Nat /\ x < m /\ m = x + 1 /\ k + m = (k + x) + 1 /\ k + x \in Nat
      BY <2>2
    <3> HIDE DEF x
    <3>2. Power(b, k + x) = Power(b, k) * Power(b, x)
      BY <1>1, <3>1
    <3>3. Power(b, m) = b * Power(b, x) /\ Power(b, k + m) = b * Power(b, k + x)
      BY <3>1, PowerIs
    <3>4. Power(b, k) \in Nat /\ Power(b, x) \in Nat
      BY <3>1, PowerIs
    <3>5. \A u, v \in Nat : b * (u * v) = u * (b * v)
      OBVIOUS
    <3>6. QED
      BY <3>2, <3>3, <3>4, <3>5
  <2>3. QED
    BY <2>1, <2>2
<1>2. P \in SUBSET Nat
  OBVIOUS
<1>3. Nat = P
  <2> HIDE DEF P
  <2> QED
    BY <1>1, <1>2, Induction
<1>4. QED
  BY <1>3

\* A power of at least 2 exceeds its exponent, and powers of a greater exponent are not less.
LEMMA PowerGrows ==
    ASSUME NEW b \in Nat, b >= 2, NEW k \in Nat
    PROVE  /\ Power(b, k) > k
           /\ \A l \in Nat : k <= l => Power(b, k) <= Power(b, l)
           /\ \A l \in Nat : k < l => Power(b, k) < Power(b, l)
<1>1. b \in Nat \ {0}
  OBVIOUS
<1> DEFINE P == {m \in Nat : Power(b, m) > m}
<1>2. ASSUME NEW m \in Nat, \A x \in Nat : x < m => x \in P PROVE m \in P
  <2>1. CASE m = 0
    BY <1>1, <2>1, PowerIs
  <2>2. CASE m # 0
    <3> DEFINE x == m - 1
    <3>1. x \in Nat /\ x < m /\ m = x + 1
      BY <2>2
    <3> HIDE DEF x
    <3>2. Power(b, x) > x /\ Power(b, m) = b * Power(b, x) /\ Power(b, x) \in Nat
      BY <1>1, <1>2, <3>1, PowerIs
    <3>3. \A u \in Nat : b * u >= u + u
      OBVIOUS
    <3>4. QED
      BY <3>1, <3>2, <3>3
  <2>3. QED
    BY <2>1, <2>2
<1>3. P \in SUBSET Nat
  OBVIOUS
<1>4. Nat = P
  <2> HIDE DEF P
  <2> QED
    BY <1>2, <1>3, Induction
<1>5. ASSUME NEW l \in Nat, k <= l
      PROVE  Power(b, k) <= Power(b, l) /\ (k < l => Power(b, k) < Power(b, l))
  <2> DEFINE x == l - k
  <2>1. x \in Nat /\ l = k + x
    BY <1>5
  <2> HIDE DEF x
  <2>2. Power(b, l) = Power(b, k) * Power(b, x) /\ Power(b, k) \in Nat \ {0}
    BY <1>1, <2>1, PowerAdds, PowerIs
  <2>3. Power(b, x) > x /\ Power(b, x) \in Nat
    BY <1>1, <1>4, <2>1, PowerIs
  <2>4. \A u \in Nat \ {0}, v \in Nat \ {0} : u <= u * v /\ (v > 1 => u < u * v)
    OBVIOUS
  <2>5. QED
    BY <2>1, <2>2, <2>3, <2>4
<1>6. QED
  BY <1>4, <1>5

----------------------------------------------------------------------------
(* Numerals. *)

(* The numeral of k in base b has w digits. *)
Width(k, b, w) ==
    /\ w \in Nat \ {0} /\ k < Power(b, w)
    /\ w = 1 \/ Power(b, w - 1) <= k

\* A numeral has one width, and no more digits than a long has bits.
LEMMA WidthExists ==
    ASSUME NEW b \in Nat, b >= 2, NEW k \in 0..Power(2, LongBits) - 1
    PROVE  \E w \in 1..LongBits : Width(k, b, w)
<1> DEFINE W == {w \in Nat \ {0} : k < Power(b, w)}
<1>0. b \in Nat \ {0} /\ 2 \in Nat \ {0}
  OBVIOUS
<1>1. LongBits \in Nat \ {0}
  BY WidthsAssumption
<1>2. \A l \in Nat : Power(b, l) \in Nat \ {0} /\ Power(2, l) \in Nat \ {0}
  BY <1>0, PowerIs
<1>3. Power(2, LongBits) <= Power(b, LongBits)
  <2> DEFINE P == {l \in Nat : Power(2, l) <= Power(b, l)}
  <2>1. ASSUME NEW l \in Nat, \A x \in Nat : x < l => x \in P PROVE l \in P
    <3>1. CASE l = 0
      BY <1>0, <3>1, PowerIs
    <3>2. CASE l # 0
      <4> DEFINE x == l - 1
      <4>1. x \in Nat /\ x < l /\ l = x + 1
        BY <3>2
      <4> HIDE DEF x
      <4>2. Power(2, x) <= Power(b, x)
        BY <2>1, <4>1
      <4>3. Power(2, l) = 2 * Power(2, x) /\ Power(b, l) = b * Power(b, x)
        BY <1>0, <4>1, PowerIs
      <4>4. \A u, v \in Nat : u <= v => 2 * u <= b * v
        <5>1. ASSUME NEW u \in Nat, NEW v \in Nat, u <= v PROVE 2 * u <= b * v
          <6>1. b * v >= 2 * v
            OBVIOUS
          <6>2. QED
            BY <5>1, <6>1
        <5>2. QED
          BY <5>1
      <4>5. QED
        BY <1>2, <4>1, <4>2, <4>3, <4>4
    <3>3. QED
      BY <3>1, <3>2
  <2>2. P \in SUBSET Nat
    OBVIOUS
  <2>3. Nat = P
    <3> HIDE DEF P
    <3> QED
      BY <2>1, <2>2, Induction
  <2>4. QED
    BY <1>1, <2>3
<1>4. LongBits \in W
  BY <1>1, <1>2, <1>3
<1>5. PICK w \in W : \A x \in W : w <= x
  <2>1. W \in SUBSET Nat /\ W # {}
    BY <1>4
  <2> HIDE DEF W
  <2>2. QED
    BY <2>1, LeastNat
<1>6. w \in 1..LongBits
  BY <1>1, <1>4, <1>5
<1>7. w = 1 \/ Power(b, w - 1) <= k
  <2>1. SUFFICES ASSUME w # 1, ~(Power(b, w - 1) <= k) PROVE FALSE
    OBVIOUS
  <2>2. w - 1 \in Nat \ {0} /\ k < Power(b, w - 1)
    BY <1>2, <1>6, <2>1
  <2>3. w - 1 \in W
    BY <2>2
  <2>4. QED
    BY <1>5, <2>3
<1>8. QED
  BY <1>5, <1>6, <1>7 DEF Width

\* A number has one width.
LEMMA WidthUnique ==
    ASSUME NEW b \in Nat, b >= 2, NEW k \in Nat, NEW v, NEW w, Width(k, b, v), Width(k, b, w)
    PROVE  v = w
<1>1. v \in Nat \ {0} /\ w \in Nat \ {0}
  BY DEF Width
<1>2. \A l \in Nat : Power(b, l) \in Nat
  <2>1. b \in Nat \ {0}
    OBVIOUS
  <2>2. QED
    BY <2>1, PowerIs
<1>3. ASSUME NEW x \in Nat \ {0}, NEW y \in Nat \ {0}, Width(k, b, x), Width(k, b, y), x < y
      PROVE  FALSE
  <2>1. y - 1 \in Nat /\ x <= y - 1 /\ y # 1
    BY <1>3
  <2>2. Power(b, x) <= Power(b, y - 1)
    BY <2>1, PowerGrows
  <2>3. k < Power(b, x) /\ Power(b, y - 1) <= k
    BY <1>3, <2>1 DEF Width
  <2>4. QED
    BY <1>2, <2>1, <2>2, <2>3
<1>4. QED
  BY <1>1, <1>3

\* The numeral is made of that many digits.
LEMMA NumeralIs ==
    ASSUME NEW b \in Nat, b >= 2, NEW digit, NEW k \in 0..Power(2, LongBits) - 1,
           NEW w, Width(k, b, w)
    PROVE  /\ w \in 1..LongBits
           /\ Numeral(k, b, digit) = [d \in 1..w |-> digit[(k \div Power(b, w - d)) % b]]
<1>1. k \in Nat
  <2>1. Power(2, LongBits) \in Nat
    BY WidthsAssumption, PowerIs
  <2>2. QED
    BY <2>1
<1> DEFINE v == CHOOSE w1 \in 1..LongBits :
                    k < Power(b, w1) /\ (w1 = 1 \/ Power(b, w1 - 1) <= k)
<1>2. v \in 1..LongBits /\ Width(k, b, v)
  <2>1. \E w1 \in 1..LongBits : k < Power(b, w1) /\ (w1 = 1 \/ Power(b, w1 - 1) <= k)
    BY WidthExists DEF Width
  <2>2. v \in 1..LongBits /\ k < Power(b, v) /\ (v = 1 \/ Power(b, v - 1) <= k)
    BY <2>1
  <2> HIDE DEF v
  <2>3. QED
    BY <2>2, WidthsAssumption DEF Width
<1>3. Numeral(k, b, digit) = [d \in 1..v |-> digit[(k \div Power(b, v - d)) % b]]
  BY DEF Numeral
<1> HIDE DEF v
<1>4. v = w
  BY <1>1, <1>2, WidthUnique
<1>5. QED
  BY <1>2, <1>3, <1>4

(* The numbers of an unsigned long, and the letters of the digits. *)
ULongs == 0..Power(2, LongBits) - 1
(* The tables of digits. *)
Digits == [0..15 -> Nat]

\* Both alphabets have a letter for each digit.
LEMMA DigitLetters == Lower \in Digits /\ Upper \in Digits
BY DEF Lower, Upper, Digits, Zero

\* What an unsigned long is divided by leaves one.
LEMMA ULongsDivided ==
    ASSUME NEW k \in ULongs, NEW b \in Nat \ {0}
    PROVE  k \in Nat /\ k \div b \in ULongs /\ k \div b <= k /\ k % b \in 0..(b - 1)
<1>1. Power(2, LongBits) \in Nat
  <2>1. 2 \in Nat \ {0}
    OBVIOUS
  <2>2. QED
    BY <2>1, WidthsAssumption, PowerIs
<1>2. k \in Nat
  BY <1>1 DEF ULongs
<1> DEFINE q == k \div b
<1>3. q \in Nat /\ k % b \in 0..(b - 1) /\ k = b * q + (k % b)
  BY <1>2, DivMod
<1> HIDE DEF q
<1>4. b * q >= q
  BY <1>3
<1>5. q <= k
  BY <1>3, <1>4
<1>6. q \in ULongs
  BY <1>1, <1>3, <1>5 DEF ULongs
<1>7. QED
  BY <1>2, <1>3, <1>5, <1>6 DEF q

\* What is appended comes last.
LEMMA AppendedIs ==
    ASSUME NEW S, NEW t \in Seq(S), NEW x \in S
    PROVE  /\ t \o <<x>> \in Seq(S) /\ Len(t \o <<x>>) = Len(t) + 1
           /\ \A d \in 1..Len(t) : (t \o <<x>>)[d] = t[d]
           /\ (t \o <<x>>)[Len(t) + 1] = x
OBVIOUS

\* A numeral is a text of its width.
LEMMA NumeralText ==
    ASSUME NEW b \in 2..16, NEW digit \in Digits, NEW k \in ULongs
    PROVE  \E w \in 1..LongBits :
              /\ Width(k, b, w)
              /\ Numeral(k, b, digit) \in Seq(Nat) /\ Len(Numeral(k, b, digit)) = w
              /\ \A d \in 1..w : /\ (k \div Power(b, w - d)) % b \in 0..(b - 1)
                                 /\ Numeral(k, b, digit)[d] = digit[(k \div Power(b, w - d)) % b]
<1>1. b \in Nat /\ b >= 2 /\ b \in Nat \ {0} /\ k \in 0..Power(2, LongBits) - 1
  BY DEF ULongs
<1>2. PICK w \in 1..LongBits : Width(k, b, w)
  BY <1>1, WidthExists
<1> DEFINE at == [d \in 1..w |-> digit[(k \div Power(b, w - d)) % b]]
<1>3. Numeral(k, b, digit) = at
  BY <1>1, <1>2, NumeralIs
<1>4. ASSUME NEW d \in 1..w
      PROVE  (k \div Power(b, w - d)) % b \in 0..(b - 1) /\ at[d] \in Nat
  <2>1. w - d \in Nat
    BY <1>2
  <2>2. Power(b, w - d) \in Nat \ {0}
    BY <1>1, <2>1, PowerIs
  <2>3. k \div Power(b, w - d) \in ULongs
    BY <2>2, ULongsDivided
  <2>4. (k \div Power(b, w - d)) % b \in 0..(b - 1)
    BY <1>1, <2>3, ULongsDivided
  <2> DEFINE x == (k \div Power(b, w - d)) % b
  <2>5. at[d] = digit[x]
    OBVIOUS
  <2> HIDE DEF x, at
  <2>6. x \in 0..15
    BY <2>4 DEF x
  <2>7. QED
    BY <2>4, <2>5, <2>6 DEF x, Digits
<1>5. at \in [1..w -> Nat]
  BY <1>4
<1>6. at \in Seq(Nat) /\ Len(at) = w
  <2> HIDE DEF at
  <2> QED
    BY <1>2, <1>5
<1>7. QED
  BY <1>2, <1>3, <1>4, <1>6

\* A number below the base is one digit.
LEMMA OneDigit ==
    ASSUME NEW b \in 2..16, NEW digit \in Digits, NEW k \in ULongs, k < b
    PROVE  Width(k, b, 1) /\ Numeral(k, b, digit) = <<digit[k]>>
<1>1. b \in Nat /\ b >= 2 /\ b \in Nat \ {0} /\ k \in 0..Power(2, LongBits) - 1 /\ k \in Nat
  BY ULongsDivided DEF ULongs
<1>2. Power(b, 0) = 1 /\ Power(b, 1) = b
  <2>1. Power(b, 0) = 1 /\ Power(b, 0 + 1) = b * Power(b, 0)
    BY <1>1, PowerIs
  <2>2. QED
    BY <2>1
<1>3. Width(k, b, 1)
  BY <1>1, <1>2 DEF Width
<1>4. Numeral(k, b, digit) = [d \in 1..1 |-> digit[(k \div Power(b, 1 - d)) % b]]
  <2> DEFINE w == 1
  <2> HIDE DEF w
  <2>1. Width(k, b, w)
    BY <1>3 DEF w
  <2>2. Numeral(k, b, digit) = [d \in 1..w |-> digit[(k \div Power(b, w - d)) % b]]
    BY <1>1, <2>1, NumeralIs
  <2>3. QED
    BY <2>2 DEF w
<1>5. \A d \in 1..1 : (k \div Power(b, 1 - d)) % b = k
  <2>1. (k \div 1) % b = k
    BY <1>1
  <2>2. QED
    BY <1>2, <2>1
<1>6. Numeral(k, b, digit) = [d \in 1..1 |-> digit[k]]
  BY <1>4, <1>5
<1>7. QED
  BY <1>3, <1>6

\* A greater number has the digits of its quotient and the digit of its remainder.
LEMMA MoreDigits ==
    ASSUME NEW b \in 2..16, NEW digit \in Digits, NEW k \in ULongs, k >= b
    PROVE  /\ \A w : Width(k, b, w) => w >= 2 /\ Width(k \div b, b, w - 1)
           /\ Numeral(k, b, digit) = Numeral(k \div b, b, digit) \o <<digit[k % b]>>
<1>1. b \in Nat /\ b >= 2 /\ b \in Nat \ {0} /\ k \in Nat /\ k \div b \in ULongs
  BY ULongsDivided
<1>2. ASSUME NEW w, Width(k, b, w) PROVE w >= 2 /\ Width(k \div b, b, w - 1)
  <2>1. w \in Nat \ {0} /\ k < Power(b, w)
    BY <1>2 DEF Width
  <2>2. w # 1
    <3>1. Power(b, 0) = 1 /\ Power(b, 0 + 1) = b * Power(b, 0)
      BY <1>1, PowerIs
    <3>2. QED
      BY <1>1, <2>1, <3>1
  <2> DEFINE v == w - 1
  <2>3. v \in Nat \ {0} /\ w = v + 1 /\ Power(b, v) <= k
    BY <1>2, <2>1, <2>2 DEF Width
  <2> HIDE DEF v
  <2>4. Power(b, v) \in Nat /\ Power(b, w) = b * Power(b, v)
    BY <1>1, <2>3, PowerIs
  <2>5. k \div b < Power(b, v)
    BY <1>1, <2>1, <2>4, QuotientBelow
  <2>6. v = 1 \/ Power(b, v - 1) <= k \div b
    <3>1. SUFFICES ASSUME v # 1 PROVE Power(b, v - 1) <= k \div b
      OBVIOUS
    <3> DEFINE u == v - 1
    <3>2. u \in Nat /\ v = u + 1
      BY <2>3
    <3> HIDE DEF u
    <3>3. Power(b, u) \in Nat /\ Power(b, v) = b * Power(b, u)
      BY <1>1, <3>2, PowerIs
    <3>4. ~(k \div b < Power(b, u))
      BY <1>1, <2>3, <3>3, QuotientBelow
    <3>5. k \div b \in Nat
      BY <1>1, ULongsDivided
    <3>6. QED
      BY <3>3, <3>4, <3>5 DEF u
  <2>7. Width(k \div b, b, v)
    BY <2>3, <2>5, <2>6 DEF Width
  <2>8. QED
    BY <2>3, <2>7 DEF v
<1> DEFINE text == Numeral(k, b, digit)
           front == Numeral(k \div b, b, digit)
           x == digit[k % b]
<1>3. PICK w \in 1..LongBits :
          /\ Width(k, b, w)
          /\ text \in Seq(Nat) /\ Len(text) = w
          /\ \A d \in 1..w : text[d] = digit[(k \div Power(b, w - d)) % b]
  BY NumeralText
<1>4. PICK v \in 1..LongBits :
          /\ Width(k \div b, b, v)
          /\ front \in Seq(Nat) /\ Len(front) = v
          /\ \A d \in 1..v : front[d] = digit[((k \div b) \div Power(b, v - d)) % b]
  BY <1>1, NumeralText
<1>5. v = w - 1 /\ w >= 2
  <2>1. k \div b \in Nat
    BY <1>1, ULongsDivided
  <2>2. w >= 2 /\ Width(k \div b, b, w - 1)
    BY <1>2, <1>3
  <2>3. QED
    BY <1>1, <1>4, <2>1, <2>2, WidthUnique
<1>6. \A d \in 1..v : text[d] = front[d]
  <2>1. ASSUME NEW d \in 1..v PROVE text[d] = front[d]
    <3> DEFINE p == Power(b, v - d)
    <3>1. v - d \in Nat /\ w - d = (v - d) + 1 /\ d \in 1..w
      BY <1>5
    <3>2. p \in Nat \ {0} /\ Power(b, w - d) = b * p
      BY <1>1, <3>1, PowerIs
    <3>3. text[d] = digit[(k \div Power(b, w - d)) % b] /\ front[d] = digit[((k \div b) \div p) % b]
      BY <1>3, <1>4, <3>1
    <3> HIDE DEF p, text, front
    <3>4. (k \div b) \div p = k \div (b * p)
      BY <1>1, <3>2, DividedTwice
    <3>5. QED
      BY <3>2, <3>3, <3>4
  <2>2. QED
    BY <2>1
<1>7. text[w] = x
  <2>1. w \in 1..w /\ w - w = 0
    BY <1>3
  <2>2. Power(b, w - w) = 1
    BY <1>1, <2>1, PowerIs
  <2>3. k \div 1 = k
    BY <1>1
  <2>4. text[w] = digit[(k \div Power(b, w - w)) % b]
    BY <1>3, <2>1
  <2> HIDE DEF text
  <2>5. QED
    BY <2>2, <2>3, <2>4
<1>8. x \in Nat
  <2>1. k % b \in 0..(b - 1)
    BY <1>1, ULongsDivided
  <2> DEFINE y == k % b
  <2> HIDE DEF y
  <2>2. y \in 0..15
    BY <2>1 DEF y
  <2>3. digit[y] \in Nat
    BY <2>2 DEF Digits
  <2>4. QED
    BY <2>3 DEF y
<1>9. text = front \o <<x>>
  <2> HIDE DEF text, front, x
  <2>1. Len(front) = v /\ v + 1 = w
    BY <1>3, <1>4, <1>5
  <2>2. text \in Seq(Nat) /\ front \in Seq(Nat) /\ x \in Nat /\ Len(text) = Len(front) + 1
    BY <1>3, <1>4, <1>8, <2>1
  <2>3. \A d \in 1..Len(front) : text[d] = front[d]
    BY <1>6, <2>1
  <2>4. text[Len(front) + 1] = x
    BY <1>7, <2>1
  <2>5. QED
    <3> DEFINE u == front \o <<x>>
    <3>1. /\ u \in Seq(Nat) /\ Len(u) = Len(front) + 1
          /\ \A d \in 1..Len(front) : u[d] = front[d]
          /\ u[Len(front) + 1] = x
      BY <2>2, AppendedIs
    <3> HIDE DEF u
    <3>2. Len(u) = Len(text) /\ Len(front) = v /\ Len(u) = v + 1
      BY <2>1, <2>2, <3>1
    <3>3. \A d \in 1..Len(u) : d \in 1..v \/ d = v + 1
      BY <3>2
    <3>4. \A d \in 1..Len(u) : u[d] = text[d]
      BY <2>3, <2>4, <3>1, <3>2, <3>3
    <3>5. u = text
      BY <2>2, <3>1, <3>2, <3>4, SeqEqual
    <3>6. QED
      BY <3>5 DEF u
<1>10. QED
  BY <1>2, <1>9

----------------------------------------------------------------------------
(* ft_put.... *)

(* What can be printed, with its count. *)
Outputs == [text : Seq(Nat), count : Nat]

\* Printing one thing after another.
LEMMA ThenPrints ==
    ASSUME NEW p \in Outputs, NEW q \in Outputs
    PROVE  Then(p, q) \in Outputs /\ Then(p, q).text = p.text \o q.text
           /\ Then(p, q).count = p.count + q.count
BY DEF Then, Printed, Outputs

\* The functions that print the digits of a number print its numeral and count its digits.
LEMMA PutDigitsWrites ==
    ASSUME NEW b \in 2..16, NEW digit \in Digits, NEW k \in ULongs
    PROVE  PutDigits(k, b, digit) = Printed(Numeral(k, b, digit), Len(Numeral(k, b, digit)))
<1> DEFINE Body(h, x) == IF x < b THEN PutChar(digit[x])
                         ELSE Then(h[x \div b], PutChar(digit[x % b]))
           f == CHOOSE f1 : f1 = [x \in Nat |-> Body(f1, x)]
           Stop == 0..(b - 1)
           a == [x \in Stop |-> PutChar(digit[x])]
           next == [x \in Nat |-> x \div b]
           step == [p \in Nat \X Outputs |-> Then(p[2], PutChar(digit[p[1] % b]))]
           m == [x \in Nat |-> x]
           Shown(x) == Numeral(x, b, digit)
<1>1. b \in Nat \ {0} /\ b >= 2
  OBVIOUS
<1>2. ASSUME NEW x \in 0..15 PROVE digit[x] \in Nat /\ PutChar(digit[x]) \in Outputs
  BY DEF PutChar, Printed, Outputs, Digits
<1>3. ASSUME NEW x \in Nat, ~(x < b)
      PROVE  x \div b \in Nat /\ x \div b < x /\ x % b \in 0..15 /\ x % b \in 0..(b - 1)
  <2> DEFINE q == x \div b
             r == x % b
  <2>1. q \in Nat /\ r \in 0..(b - 1) /\ x = b * q + r
    BY <1>1, DivMod
  <2> HIDE DEF q, r
  <2>2. b * q >= 2 * q
    BY <1>1, <2>1
  <2>3. q # 0
    BY <1>3, <2>1
  <2>4. QED
    BY <2>1, <2>2, <2>3 DEF q, r
<1>4. Descent(Nat, Outputs, Stop, a, next, step, m)
  <2>1. Stop \in SUBSET Nat /\ \A x \in Nat : m[x] \in Nat
    OBVIOUS
  <2>2. \A x \in Stop : a[x] \in Outputs
    BY <1>2
  <2>3. \A x \in Nat \ Stop : next[x] \in Nat /\ m[next[x]] < m[x]
    <3>1. ASSUME NEW x \in Nat \ Stop PROVE next[x] \in Nat /\ m[next[x]] < m[x]
      <4>1. ~(x < b)
        OBVIOUS
      <4>2. x \div b \in Nat /\ x \div b < x
        BY <1>3, <4>1
      <4>3. next[x] = x \div b
        OBVIOUS
      <4> HIDE DEF next
      <4>4. QED
        BY <4>2, <4>3
    <3>2. QED
      BY <3>1
  <2>4. \A x \in Nat \ Stop : \A y \in Outputs : step[<<x, y>>] \in Outputs
    <3>1. ASSUME NEW x \in Nat \ Stop, NEW y \in Outputs PROVE step[<<x, y>>] \in Outputs
      <4>1. ~(x < b)
        OBVIOUS
      <4>2. PutChar(digit[x % b]) \in Outputs
        BY <1>2, <1>3, <4>1
      <4>3. Then(y, PutChar(digit[x % b])) \in Outputs
        BY <4>2, ThenPrints
      <4>4. step[<<x, y>>] = Then(y, PutChar(digit[x % b]))
        OBVIOUS
      <4>5. QED
        BY <4>3, <4>4
    <3>2. QED
      BY <3>1
  <2> HIDE DEF Stop, a, next, step, m
  <2>5. QED
    BY <2>1, <2>2, <2>3, <2>4 DEF Descent
<1>5. PICK g \in [Nat -> Outputs] : Descends(g, Nat, Stop, a, next, step)
  <2>1. <<>> \in Seq(Nat) /\ 0 \in Nat
    OBVIOUS
  <2>2. Printed(<<>>, 0) \in Outputs
    BY <2>1 DEF Printed, Outputs
  <2>3. Outputs # {}
    BY <2>2
  <2> HIDE DEF Stop, a, next, step, m
  <2>4. QED
    BY <1>4, <2>3, DescentSolved
<1>6. g = [x \in Nat |-> Body(g, x)]
  <2>1. ASSUME NEW x \in Nat PROVE g[x] = Body(g, x)
    <3>1. CASE x < b
      <4>1. x \in Stop /\ a[x] = PutChar(digit[x])
        BY <3>1
      <4> HIDE DEF Stop, a, next, step
      <4>2. g[x] = a[x]
        BY <1>5, <4>1 DEF Descends
      <4>3. QED
        BY <3>1, <4>1, <4>2
    <3>2. CASE ~(x < b)
      <4>1. x \notin Stop /\ next[x] = x \div b /\ x \div b \in Nat
        BY <1>3, <3>2
      <4>2. \A y \in Outputs : step[<<x, y>>] = Then(y, PutChar(digit[x % b]))
        OBVIOUS
      <4> HIDE DEF Stop, a, next, step
      <4>3. g[x] = step[<<x, g[x \div b]>>]
        BY <1>5, <4>1 DEF Descends
      <4>4. g[x \div b] \in Outputs
        BY <4>1
      <4>5. QED
        BY <3>2, <4>2, <4>3, <4>4
    <3>3. QED
      BY <3>1, <3>2
  <2> HIDE DEF Body
  <2>2. QED
    BY <2>1
<1>7. f = [x \in Nat |-> Body(f, x)]
  <2> HIDE DEF Body
  <2> QED
    BY <1>6
<1>8. PutDigits(k, b, digit) = f[k]
  BY DEF PutDigits
<1> HIDE DEF f, a, next, step, m, Stop
<1>9. \A x \in Nat : f[x] = Body(f, x)
  <2> HIDE DEF Body
  <2> QED
    BY <1>7
<1> DEFINE P == {x \in ULongs : f[x] = Printed(Shown(x), Len(Shown(x)))}
<1>10. ULongs = P
  <2>1. ASSUME NEW x \in ULongs, \A y \in ULongs : y < x => y \in P PROVE x \in P
    <3>1. x \in Nat
      BY <1>1, ULongsDivided
    <3>2. CASE x < b
      <4>1. Shown(x) = <<digit[x]>>
        BY <3>2, OneDigit
      <4>2. f[x] = PutChar(digit[x])
        BY <1>9, <3>1, <3>2
      <4>3. Len(<<digit[x]>>) = 1
        OBVIOUS
      <4> HIDE DEF Shown
      <4>4. QED
        BY <4>1, <4>2, <4>3 DEF PutChar
    <3>3. CASE ~(x < b)
      <4> DEFINE q == x \div b
                 r == x % b
                 front == Shown(q)
                 l == digit[r]
      <4>0. x >= b
        BY <3>1, <3>3
      <4>1. Shown(x) = front \o <<l>>
        BY <4>0, MoreDigits
      <4>2. q \in ULongs /\ q < x /\ r \in 0..15
        BY <1>1, <1>3, <3>1, <3>3, ULongsDivided
      <4>3. front \in Seq(Nat)
        BY <4>2, NumeralText
      <4>4. f[x] = Then(f[q], PutChar(l))
        BY <1>9, <3>1, <3>3
      <4> HIDE DEF q, r
      <4>5. l \in Nat
        BY <1>2, <4>2
      <4> HIDE DEF l, Shown
      <4>6. f[q] = Printed(front, Len(front))
        BY <2>1, <4>2
      <4> HIDE DEF front
      <4>7. Len(front \o <<l>>) = Len(front) + 1
        BY <4>3, <4>5
      <4>8. f[x] = Printed(front \o <<l>>, Len(front) + 1)
        BY <4>4, <4>6 DEF Then, PutChar, Printed
      <4>9. f[x] = Printed(Shown(x), Len(Shown(x)))
        BY <4>1, <4>7, <4>8
      <4>10. QED
        BY <4>9
    <3>4. QED
      BY <3>2, <3>3
  <2>2. P \in SUBSET ULongs
    OBVIOUS
  <2>3. ULongs \in SUBSET Nat
    BY <1>1, ULongsDivided
  <2> HIDE DEF P
  <2>4. QED
    BY <2>1, <2>2, <2>3, Induction
<1>11. QED
  BY <1>8, <1>10

\* ft_itoa counts the digits of the numeral.
LEMMA CountDigitsCounts ==
    ASSUME NEW k \in ULongs PROVE CountDigits(k) = Len(Numeral(k, 10, Lower))
<1> DEFINE Body(h, x) == IF x > 9 THEN 1 + h[x \div 10] ELSE 1
           f == CHOOSE f1 : f1 = [x \in Nat |-> Body(f1, x)]
           Stop == 0..9
           a == [x \in Stop |-> 1]
           next == [x \in Nat |-> x \div 10]
           step == [p \in Nat \X Nat |-> 1 + p[2]]
           m == [x \in Nat |-> x]
           Shown(x) == Numeral(x, 10, Lower)
<1>1. 10 \in 2..16 /\ 10 \in Nat \ {0} /\ Lower \in Digits
  BY DigitLetters
<1>2. Descent(Nat, Nat, Stop, a, next, step, m)
  <2>1. Stop \in SUBSET Nat /\ (\A x \in Nat : m[x] \in Nat) /\ (\A x \in Stop : a[x] \in Nat)
    OBVIOUS
  <2>2. \A x \in Nat \ Stop : next[x] \in Nat /\ m[next[x]] < m[x]
    OBVIOUS
  <2>3. \A x \in Nat \ Stop : \A y \in Nat : step[<<x, y>>] \in Nat
    OBVIOUS
  <2> HIDE DEF Stop, a, next, step, m
  <2>4. QED
    BY <2>1, <2>2, <2>3 DEF Descent
<1>3. PICK g \in [Nat -> Nat] : Descends(g, Nat, Stop, a, next, step)
  <2>1. Nat # {}
    OBVIOUS
  <2> HIDE DEF Stop, a, next, step, m
  <2>2. QED
    BY <1>2, <2>1, DescentSolved
<1>4. g = [x \in Nat |-> Body(g, x)]
  <2>1. ASSUME NEW x \in Nat PROVE g[x] = Body(g, x)
    <3>1. x \in Stop <=> ~(x > 9)
      OBVIOUS
    <3>2. x \in Stop => a[x] = 1
      OBVIOUS
    <3>3. next[x] = x \div 10 /\ x \div 10 \in Nat
      OBVIOUS
    <3>4. \A y \in Nat : step[<<x, y>>] = 1 + y
      OBVIOUS
    <3> HIDE DEF Stop, a, next, step
    <3>5. g[x] = IF x \in Stop THEN a[x] ELSE step[<<x, g[x \div 10]>>]
      BY <1>3, <3>3 DEF Descends
    <3>6. QED
      BY <3>1, <3>2, <3>3, <3>4, <3>5
  <2> HIDE DEF Body
  <2>2. QED
    BY <2>1
<1>5. f = [x \in Nat |-> Body(f, x)]
  <2> HIDE DEF Body
  <2> QED
    BY <1>4
<1>6. CountDigits(k) = f[k]
  BY DEF CountDigits
<1> HIDE DEF f, a, next, step, m, Stop
<1>7. \A x \in Nat : f[x] = Body(f, x)
  <2> HIDE DEF Body
  <2> QED
    BY <1>5
<1> DEFINE P == {x \in ULongs : f[x] = Len(Shown(x))}
<1>8. ULongs = P
  <2>1. ASSUME NEW x \in ULongs, \A y \in ULongs : y < x => y \in P PROVE x \in P
    <3>1. x \in Nat
      BY <1>1, ULongsDivided
    <3>2. CASE x < 10
      <4>1. Shown(x) = <<Lower[x]>>
        BY <1>1, <3>2, OneDigit
      <4>2. f[x] = 1
        BY <1>7, <3>1, <3>2
      <4>3. Len(<<Lower[x]>>) = 1
        OBVIOUS
      <4> HIDE DEF Shown
      <4>4. QED
        BY <4>1, <4>2, <4>3
    <3>3. CASE ~(x < 10)
      <4> DEFINE q == x \div 10
                 front == Shown(q)
                 l == Lower[x % 10]
      <4>0. x >= 10
        BY <3>1, <3>3
      <4>1. Shown(x) = front \o <<l>>
        BY <1>1, <4>0, MoreDigits
      <4>2. q \in ULongs /\ q < x
        <5>1. q \in ULongs
          BY <1>1, ULongsDivided
        <5>2. QED
          BY <3>1, <3>3, <5>1
      <4>3. front \in Seq(Nat)
        BY <1>1, <4>2, NumeralText
      <4>4. f[x] = 1 + f[q]
        BY <1>7, <3>1, <3>3
      <4>5. l \in Nat
        <5>1. x % 10 \in 0..15
          BY <3>1
        <5>2. QED
          BY <1>1, <5>1 DEF Digits
      <4> HIDE DEF q, l, Shown
      <4>6. f[q] = Len(front)
        BY <2>1, <4>2
      <4> HIDE DEF front
      <4>7. Len(front \o <<l>>) = Len(front) + 1 /\ Len(front) \in Nat
        BY <4>3, <4>5
      <4>8. f[x] = Len(Shown(x))
        BY <4>1, <4>4, <4>6, <4>7
      <4>9. QED
        BY <4>8
    <3>4. QED
      BY <3>1, <3>2, <3>3
  <2>2. P \in SUBSET ULongs
    OBVIOUS
  <2>3. ULongs \in SUBSET Nat
    BY <1>1, ULongsDivided
  <2> HIDE DEF P
  <2>4. QED
    BY <2>1, <2>2, <2>3, Induction
<1>9. QED
  BY <1>6, <1>8

----------------------------------------------------------------------------
(* Signed and unsigned numbers. *)

(* What the widths of int and long come to: h is half of m, the number of ints, and top is *)
(* half of the number of longs, a multiple of m. *)
WidthsAre(h, m, top, times) ==
    /\ h \in Nat /\ h >= 128 /\ m \in Nat \ {0} /\ m = 2 * h
    /\ top \in Nat \ {0} /\ times \in Nat \ {0} /\ top = m * times /\ top >= m
    /\ Power(2, IntBits - 1) = h /\ Power(2, IntBits) = m
    /\ Power(2, LongBits - 1) = top /\ Power(2, LongBits) = 2 * top
    /\ LongMax = top - 1
    /\ ULongs = 0..2 * top - 1

\* The numbers of an int and of a long.
LEMMA Widths == \E h, m, top, times : WidthsAre(h, m, top, times)
<1> DEFINE h == Power(2, IntBits - 1)
           m == Power(2, IntBits)
           top == Power(2, LongBits - 1)
           times == Power(2, LongBits - 1 - IntBits)
<1>1. 2 \in Nat \ {0} /\ 2 \in Nat
  OBVIOUS
<1>2. /\ IntBits - 1 \in Nat /\ IntBits \in Nat /\ LongBits - 1 \in Nat
      /\ LongBits - 1 - IntBits \in Nat /\ IntBits = (IntBits - 1) + 1
      /\ LongBits = (LongBits - 1) + 1 /\ LongBits - 1 = IntBits + (LongBits - 1 - IntBits)
      /\ 7 <= IntBits - 1
  BY WidthsAssumption
<1>3. h \in Nat \ {0} /\ m \in Nat \ {0} /\ top \in Nat \ {0} /\ times \in Nat \ {0}
  BY <1>1, <1>2, PowerIs
<1>4. m = 2 * h /\ Power(2, LongBits) = 2 * top
  BY <1>1, <1>2, PowerIs
<1>5. top = m * times
  BY <1>1, <1>2, PowerAdds
<1>6. Power(2, 7) = 128
  <2>1. Power(2, 0) = 1 /\ \A k \in Nat : Power(2, k + 1) = 2 * Power(2, k)
    BY <1>1, PowerIs
  <2>2. Power(2, 1) = 2
    <3>1. Power(2, 0 + 1) = 2 * Power(2, 0)
      BY <2>1
    <3>2. QED
      BY <2>1, <3>1
  <2>3. Power(2, 2) = 4
    <3>1. Power(2, 1 + 1) = 2 * Power(2, 1)
      BY <2>1
    <3>2. QED
      BY <2>2, <3>1
  <2>4. Power(2, 3) = 8
    <3>1. Power(2, 2 + 1) = 2 * Power(2, 2)
      BY <2>1
    <3>2. QED
      BY <2>3, <3>1
  <2>5. Power(2, 4 + 3) = Power(2, 4) * Power(2, 3) /\ Power(2, 3 + 1) = 2 * Power(2, 3)
    BY <1>1, <2>1, PowerAdds
  <2>6. Power(2, 4) = 16
    BY <2>4, <2>5
  <2>7. Power(2, 4 + 3) = 128
    BY <2>4, <2>5, <2>6
  <2>8. QED
    BY <2>7
<1>7. h >= 128
  <2>1. Power(2, 7) <= h
    BY <1>1, <1>2, PowerGrows
  <2>2. QED
    BY <1>6, <2>1
<1>8. m * times >= m
  BY <1>3
<1>9. LongMax = top - 1 /\ ULongs = 0..2 * top - 1
  BY <1>4 DEF LongMax, ULongs
<1> HIDE DEF h, m, top, times
<1>10. WidthsAre(h, m, top, times)
  BY <1>3, <1>4, <1>5, <1>7, <1>8, <1>9 DEF WidthsAre, h, m, top
<1>11. QED
  BY <1>10

\* An unsigned number is what is left of a multiple.
LEMMA UnsignedIs ==
    ASSUME NEW bits \in Nat, NEW z \in Int, NEW r \in 0..Power(2, bits) - 1, NEW k \in Int,
           k = Power(2, bits) * z + r
    PROVE  Unsigned(k, bits) = r
<1>1. Power(2, bits) \in Nat \ {0}
  <2>1. 2 \in Nat \ {0}
    OBVIOUS
  <2>2. QED
    BY <2>1, PowerIs
<1> DEFINE w == Power(2, bits)
<1>2. k % w = r
  <2> HIDE DEF w
  <2>1. w \in Nat \ {0} /\ r \in 0..(w - 1) /\ k = w * z + r
    BY <1>1 DEF w
  <2>2. QED
    BY <2>1, QuotientIs
<1>3. QED
  BY <1>2 DEF Unsigned

\* A number that fits is its own unsigned number.
LEMMA UnsignedFits ==
    ASSUME NEW bits \in Nat, NEW k \in 0..Power(2, bits) - 1 PROVE Unsigned(k, bits) = k
<1>1. Power(2, bits) \in Nat
  <2>1. 2 \in Nat \ {0}
    OBVIOUS
  <2>2. QED
    BY <2>1, PowerIs
<1>2. k \in Int /\ 0 \in Int /\ k = Power(2, bits) * 0 + k
  BY <1>1
<1>3. QED
  BY <1>2, UnsignedIs

\* Signed gives the only number in range that differs by a multiple of 2^bits.
LEMMA SignedIs ==
    ASSUME NEW bits \in Nat \ {0}, NEW k \in Int
    PROVE  /\ Unsigned(k, bits) \in 0..Power(2, bits) - 1
           /\ Signed(k, bits) \in -Power(2, bits - 1)..Power(2, bits - 1) - 1
           /\ \E z \in Int : k = Power(2, bits) * z + Signed(k, bits)
           /\ \E z \in Int : Unsigned(k, bits) = Power(2, bits) * z + Signed(k, bits)
<1> DEFINE w == Power(2, bits)
           h == Power(2, bits - 1)
           u == k % w
           q == k \div w
           s == IF u < h THEN u ELSE u - w
<1>1. w \in Nat \ {0} /\ h \in Nat \ {0} /\ w = 2 * h
  <2>1. 2 \in Nat \ {0} /\ bits - 1 \in Nat /\ bits = (bits - 1) + 1
    OBVIOUS
  <2>2. QED
    BY <2>1, PowerIs
<1>2. Unsigned(k, bits) = u /\ Signed(k, bits) = s
  BY DEF Unsigned, Signed
<1> HIDE DEF w, h
<1>3. q \in Int /\ u \in 0..(w - 1) /\ k = w * q + u
  BY <1>1, DivModInt
<1> HIDE DEF q, u
<1>4. s \in -h..(h - 1)
  BY <1>1, <1>3
<1>5. (k = w * q + s /\ u = w * 0 + s) \/ (k = w * (q + 1) + s /\ u = w * 1 + s)
  BY <1>1, <1>3
<1>6. q + 1 \in Int /\ q \in Int
  BY <1>3
<1> HIDE DEF s
<1>7. QED
  BY <1>2, <1>3, <1>4, <1>5, <1>6 DEF w, h

\* A signed number is the one in range that differs by a multiple.
LEMMA SignedUnique ==
    ASSUME NEW bits \in Nat \ {0}, NEW z \in Int, NEW s \in -Power(2, bits - 1)..Power(2, bits - 1) - 1,
           NEW k \in Int, k = Power(2, bits) * z + s
    PROVE  Signed(k, bits) = s
<1> DEFINE w == Power(2, bits)
           h == Power(2, bits - 1)
<1>1. w \in Nat \ {0} /\ h \in Nat \ {0} /\ w = 2 * h
  <2>1. 2 \in Nat \ {0} /\ bits - 1 \in Nat /\ bits = (bits - 1) + 1
    OBVIOUS
  <2>2. QED
    BY <2>1, PowerIs
<1>2. s \in -h..(h - 1) /\ k = w * z + s
  OBVIOUS
<1>3. Signed(k, bits) = LET u == k % w IN IF u < h THEN u ELSE u - w
  BY DEF Signed, Unsigned
<1> HIDE DEF w, h
<1>4. CASE s >= 0
  <2>1. s \in 0..(w - 1) /\ s < h
    BY <1>1, <1>2, <1>4
  <2>2. k % w = s
    BY <1>1, <1>2, <2>1, QuotientIs
  <2>3. QED
    BY <1>3, <2>1, <2>2
<1>5. CASE s < 0
  <2> DEFINE r == s + w
             y == z - 1
  <2>1. r \in 0..(w - 1) /\ ~(r < h) /\ y \in Int /\ r - w = s
    BY <1>1, <1>2, <1>5
  <2>2. k = w * y + r
    BY <1>1, <1>2
  <2> HIDE DEF r, y
  <2>3. k % w = r
    <3>1. w \in Nat \ {0} /\ y \in Int /\ r \in 0..(w - 1) /\ k \in Int
      BY <1>1, <2>1
    <3> DEFINE x == w * y + r
    <3>2. x \in Int /\ x = w * y + r
      BY <3>1
    <3> HIDE DEF x
    <3>3. x % w = r
      BY <3>1, <3>2, QuotientIs
    <3>4. QED
      BY <2>2, <3>2, <3>3
  <2>4. QED
    BY <1>3, <2>1, <2>3
<1>6. QED
  BY <1>2, <1>1, <1>4, <1>5

\* A number that fits is its own signed number.
LEMMA SignedFits ==
    ASSUME NEW bits \in Nat \ {0}, NEW k \in -Power(2, bits - 1)..Power(2, bits - 1) - 1
    PROVE  Signed(k, bits) = k
<1>1. Power(2, bits) \in Nat /\ Power(2, bits - 1) \in Nat
  <2>1. 2 \in Nat \ {0} /\ bits - 1 \in Nat
    OBVIOUS
  <2>2. QED
    BY <2>1, PowerIs
<1>2. k \in Int /\ 0 \in Int /\ k = Power(2, bits) * 0 + k
  BY <1>1
<1>3. QED
  BY <1>2, SignedUnique

----------------------------------------------------------------------------
(* ft_itoa. *)

\* A remainder of b * p has the quotient and the remainder that follow.
LEMMA RemainderOfProduct ==
    ASSUME NEW k \in Nat, NEW b \in Nat \ {0}, NEW p \in Nat \ {0}
    PROVE  /\ (k % (b * p)) \div p = (k \div p) % b
           /\ (k % (b * p)) % p = k % p
           /\ k % (b * p) \in Nat
<1> DEFINE q == k \div p
           r == k % p
           t == q \div b
           s == q % b
           rest == p * s + r
           w == b * p
<1>1. q \in Nat /\ r \in 0..(p - 1) /\ k = p * q + r
  BY DivMod
<1> HIDE DEF q, r
<1>2. t \in Nat /\ s \in 0..(b - 1) /\ q = b * t + s
  BY <1>1, DivMod
<1> HIDE DEF t, s
<1>3. p * q = p * (b * t) + p * s
  BY <1>1, <1>2
<1>4. p * (b * t) = w * t
  BY <1>2
<1>5. rest \in 0..(w - 1)
  <2>1. s <= b - 1 /\ p * s \in Nat
    BY <1>2
  <2>2. p * s <= p * (b - 1)
    BY <1>2, <2>1
  <2>3. p * (b - 1) = w - p
    OBVIOUS
  <2>4. QED
    BY <1>1, <2>1, <2>2, <2>3
<1>6. w \in Nat \ {0} /\ rest \in Int
  BY <1>1, <1>2
<1>7. k = w * t + rest
  BY <1>1, <1>2, <1>3, <1>4
<1>8. rest = p * s + r
  OBVIOUS
<1> HIDE DEF rest, w
<1>9. k % w = rest
  BY <1>2, <1>5, <1>6, <1>7, QuotientIs
<1>10. rest \div p = s /\ rest % p = r
  BY <1>1, <1>2, <1>6, <1>8, QuotientIs
<1>11. rest \in Nat
  BY <1>5
<1>12. QED
  BY <1>9, <1>10, <1>11 DEF w, s, q, r

\* No power of ten but the first is a power of two.
LEMMA NotPowerOfTwo ==
    ASSUME NEW e \in Nat, NEW k \in Nat, Power(2, k) >= 2 PROVE Power(10, e) # Power(2, k)
<1>1. 2 \in Nat \ {0} /\ 10 \in Nat \ {0}
  OBVIOUS
<1> DEFINE P == {l \in Nat : Power(2, l) % 5 # 0}
<1>2. ASSUME NEW l \in Nat, \A x \in Nat : x < l => x \in P PROVE l \in P
  <2>1. CASE l = 0
    <3>1. Power(2, 0) = 1
      BY <1>1, PowerIs
    <3>2. QED
      BY <2>1, <3>1
  <2>2. CASE l # 0
    <3> DEFINE x == l - 1
    <3>1. x \in Nat /\ x < l /\ l = x + 1
      BY <2>2
    <3> HIDE DEF x
    <3>2. Power(2, x) % 5 # 0
      BY <1>2, <3>1
    <3>3. Power(2, l) = 2 * Power(2, x) /\ Power(2, x) \in Nat
      BY <1>1, <3>1, PowerIs
    <3>4. \A y \in Nat : y % 5 # 0 => (2 * y) % 5 # 0
      OBVIOUS
    <3>5. QED
      BY <3>2, <3>3, <3>4
  <2>3. QED
    BY <2>1, <2>2
<1>3. P \in SUBSET Nat
  OBVIOUS
<1>4. Nat = P
  <2> HIDE DEF P
  <2> QED
    BY <1>2, <1>3, Induction
<1>5. Power(2, k) % 5 # 0
  BY <1>4
<1>6. CASE e = 0
  <2>1. Power(10, 0) = 1
    BY <1>1, PowerIs
  <2>2. QED
    BY <1>6, <2>1
<1>7. CASE e # 0
  <2> DEFINE x == e - 1
  <2>1. x \in Nat /\ e = x + 1
    BY <1>7
  <2> HIDE DEF x
  <2>2. Power(10, e) = 10 * Power(10, x) /\ Power(10, x) \in Nat
    BY <1>1, <2>1, PowerIs
  <2>3. \A y \in Nat : (10 * y) % 5 = 0
    OBVIOUS
  <2>4. QED
    BY <1>5, <2>2, <2>3
<1>8. QED
  BY <1>6, <1>7

\* The divisor of ft_itoa does not overflow.
LEMMA DevIs ==
    ASSUME NEW k \in 0..Power(2, IntBits - 1), NEW l \in Nat, l >= 1, Power(10, l - 1) <= k \/ l = 1
    PROVE  Dev(l) = Power(10, l - 1)
<1>1. PICK h, m, top, times : WidthsAre(h, m, top, times)
  BY Widths
<1>2. 10 \in Nat \ {0} /\ l - 1 \in Nat /\ IntBits - 1 \in Nat /\ IntBits \in Nat \ {0}
  BY WidthsAssumption
<1>3. Power(10, l - 1) \in Nat \ {0}
  BY <1>2, PowerIs
<1>4. Power(10, l - 1) < h
  <2>1. CASE l = 1
    <3>1. Power(10, 0) = 1 /\ l - 1 = 0
      BY <1>2, <2>1, PowerIs
    <3>2. QED
      BY <1>1, <3>1 DEF WidthsAre
  <2>2. CASE l # 1
    <3>1. Power(10, l - 1) <= h
      BY <1>1, <1>3, <2>2 DEF WidthsAre
    <3>2. Power(2, IntBits - 1) >= 2
      BY <1>1 DEF WidthsAre
    <3>3. Power(10, l - 1) # h
      BY <1>1, <1>2, <3>2, NotPowerOfTwo DEF WidthsAre
    <3>4. QED
      BY <1>1, <1>3, <3>1, <3>3 DEF WidthsAre
  <2>3. QED
    BY <2>1, <2>2
<1>5. Power(10, l - 1) \in -Power(2, IntBits - 1)..Power(2, IntBits - 1) - 1
  BY <1>1, <1>3, <1>4 DEF WidthsAre
<1>6. QED
  BY <1>2, <1>5, SignedFits DEF Dev

\* ft_itoa takes the digits off from the left.
LEMMA DigitsFromIs ==
    ASSUME NEW k \in 0..Power(2, IntBits - 1)
    PROVE  DigitsFrom(k, Len(Numeral(k, 10, Lower))) = Numeral(k, 10, Lower)
<1> DEFINE text == Numeral(k, 10, Lower)
<1>1. PICK h, m, top, times : WidthsAre(h, m, top, times)
  BY Widths
<1>2. 10 \in 2..16 /\ 10 \in Nat \ {0} /\ Lower \in Digits
  BY DigitLetters
<1>3. k \in ULongs /\ k \in Nat
  BY <1>1 DEF WidthsAre
<1>4. PICK w \in 1..LongBits :
         /\ Width(k, 10, w)
         /\ text \in Seq(Nat) /\ Len(text) = w
         /\ \A d \in 1..w : /\ (k \div Power(10, w - d)) % 10 \in 0..9
                            /\ text[d] = Lower[(k \div Power(10, w - d)) % 10]
  <2>1. PICK w \in 1..LongBits :
         /\ Width(k, 10, w)
         /\ text \in Seq(Nat) /\ Len(text) = w
         /\ \A d \in 1..w : /\ (k \div Power(10, w - d)) % 10 \in 0..(10 - 1)
                            /\ text[d] = Lower[(k \div Power(10, w - d)) % 10]
    BY <1>2, <1>3, NumeralText
  <2>2. 10 - 1 = 9
    OBVIOUS
  <2> HIDE DEF text
  <2>3. QED
    BY <2>1, <2>2
<1> HIDE DEF text
<1>5. w \in Nat /\ w >= 1
  BY <1>4, WidthsAssumption
<1>6. ASSUME NEW x \in 0..w - 1
      PROVE  Power(10, x) \in Nat \ {0} /\ Dev(x + 1) = Power(10, x)
  <2>1. x \in Nat /\ x + 1 \in Nat /\ x + 1 >= 1 /\ (x + 1) - 1 = x
    BY <1>5
  <2>2. Power(10, x) \in Nat \ {0}
    BY <1>2, <2>1, PowerIs
  <2>3. x = 0 \/ Power(10, x) <= k
    <3>1. SUFFICES ASSUME x # 0 PROVE Power(10, x) <= k
      OBVIOUS
    <3>2. w # 1 /\ w - 1 \in Nat /\ x <= w - 1
      BY <1>5, <2>1, <3>1
    <3>3. Power(10, w - 1) <= k
      BY <1>4, <3>2 DEF Width
    <3>4. 10 \in Nat /\ 10 >= 2
      OBVIOUS
    <3>5. Power(10, x) <= Power(10, w - 1)
      BY <2>1, <3>2, <3>4, PowerGrows
    <3>6. Power(10, w - 1) \in Nat
      BY <1>2, <3>2, PowerIs
    <3>7. QED
      BY <1>3, <2>2, <3>3, <3>5, <3>6
  <2> DEFINE l == x + 1
  <2>4. l \in Nat /\ l >= 1 /\ (Power(10, l - 1) <= k \/ l = 1) /\ l - 1 = x
    BY <2>1, <2>3
  <2> HIDE DEF l
  <2>5. Dev(l) = Power(10, l - 1)
    BY <2>4, DevIs
  <2>6. QED
    BY <2>2, <2>4, <2>5 DEF l
<1> DEFINE D == 0..w
           Body(h1, x) == IF x = 0 THEN k ELSE h1[x - 1] % Dev(w - x + 1)
           f == CHOOSE f1 : f1 = [x \in D |-> Body(f1, x)]
           g == [x \in D |-> k % Power(10, w - x)]
<1>7. g = [x \in D |-> Body(g, x)]
  <2>1. ASSUME NEW x \in D PROVE g[x] = Body(g, x)
    <3>1. CASE x = 0
      <4>1. g[x] = k % Power(10, w)
        BY <1>5, <3>1
      <4>2. k < Power(10, w) /\ Power(10, w) \in Nat
        BY <1>2, <1>4, <1>5, PowerIs DEF Width
      <4>3. k % Power(10, w) = k
        BY <1>3, <4>2
      <4>4. QED
        BY <3>1, <4>1, <4>3
    <3>2. CASE x # 0
      <4> DEFINE p == Power(10, w - x)
                 y == w - x
      <4>1. y \in 0..w - 1 /\ x - 1 \in D /\ w - (x - 1) = y + 1 /\ w - x + 1 = y + 1
        BY <1>5, <3>2
      <4>2. p \in Nat \ {0} /\ Dev(y + 1) = p /\ Power(10, y + 1) = 10 * p
        <5>1. p = Power(10, y) /\ y \in Nat /\ y \in 0..w - 1
          BY <1>5, <4>1
        <5> HIDE DEF p, y
        <5>2. p \in Nat \ {0} /\ Dev(y + 1) = p
          BY <1>6, <5>1
        <5>3. Power(10, y + 1) = 10 * Power(10, y)
          BY <1>2, <5>1, PowerIs
        <5>4. QED
          BY <5>1, <5>2, <5>3
      <4>3. g[x] = k % p /\ g[x - 1] = k % (10 * p)
        BY <4>1, <4>2
      <4> HIDE DEF p, y, g
      <4>4. (k % (10 * p)) % p = k % p
        BY <1>2, <1>3, <4>2, RemainderOfProduct
      <4>5. QED
        BY <3>2, <4>1, <4>2, <4>3, <4>4
    <3>3. QED
      BY <3>1, <3>2
  <2> HIDE DEF Body, D
  <2>2. QED
    BY <2>1
<1>8. f = [x \in D |-> Body(f, x)]
  <2> HIDE DEF D, Body, g
  <2> QED
    BY <1>7
<1>9. DigitsFrom(k, w) = [x \in 1..w |-> Zero + f[x - 1] \div Dev(w - x + 1)]
  BY DEF DigitsFrom
<1> HIDE DEF f, g
<1> DEFINE P == {x \in D : f[x] = g[x]}
<1>10. D = P
  <2>1. ASSUME NEW x \in D, \A y \in D : y < x => y \in P PROVE x \in P
    <3>1. f[x] = Body(f, x) /\ g[x] = Body(g, x)
      <4> HIDE DEF D, Body
      <4> QED
        BY <1>7, <1>8
    <3>2. CASE x = 0
      BY <3>1, <3>2
    <3>3. CASE x # 0
      <4>1. x - 1 \in D /\ x - 1 < x
        BY <1>5, <3>3
      <4>2. f[x - 1] = g[x - 1]
        BY <2>1, <4>1
      <4>3. QED
        BY <3>1, <3>3, <4>2
    <3>4. QED
      BY <3>2, <3>3
  <2>2. P \in SUBSET D /\ D \in SUBSET Nat
    BY <1>5
  <2> HIDE DEF P, D
  <2>3. QED
    BY <2>1, <2>2, Induction
<1>11. \A x \in 1..w : Zero + f[x - 1] \div Dev(w - x + 1) = text[x]
  <2>1. ASSUME NEW x \in 1..w PROVE Zero + f[x - 1] \div Dev(w - x + 1) = text[x]
    <3> DEFINE p == Power(10, w - x)
               y == w - x
               l == (k \div p) % 10
    <3>1. y \in 0..w - 1 /\ x - 1 \in D /\ w - (x - 1) = y + 1 /\ w - x + 1 = y + 1
      BY <1>5
    <3>2. p \in Nat \ {0} /\ Dev(y + 1) = p /\ Power(10, y + 1) = 10 * p
      <4>1. p = Power(10, y) /\ y \in Nat /\ y \in 0..w - 1
        BY <1>5, <3>1
      <4> HIDE DEF p, y
      <4>2. p \in Nat \ {0} /\ Dev(y + 1) = p
        BY <1>6, <4>1
      <4>3. Power(10, y + 1) = 10 * Power(10, y)
        BY <1>2, <4>1, PowerIs
      <4>4. QED
        BY <4>1, <4>2, <4>3
    <3>3. f[x - 1] = k % (10 * p)
      <4>1. f[x - 1] = g[x - 1]
        BY <1>10, <3>1
      <4>2. g[x - 1] = k % Power(10, y + 1)
        BY <3>1 DEF g
      <4> HIDE DEF p
      <4>3. QED
        BY <3>2, <4>1, <4>2
    <3>4. l \in 0..9 /\ text[x] = Lower[l]
      BY <1>4
    <3> HIDE DEF p, y
    <3>5. (k % (10 * p)) \div p = l
      BY <1>2, <1>3, <3>2, RemainderOfProduct
    <3> HIDE DEF l
    <3>6. Lower[l] = Zero + l
      BY <3>4 DEF Lower
    <3>7. f[x - 1] \div Dev(w - x + 1) = l
      BY <3>1, <3>2, <3>3, <3>5
    <3>8. QED
      BY <3>4, <3>6, <3>7
  <2>2. QED
    BY <2>1
<1>12. text = [x \in 1..w |-> text[x]]
  BY <1>4
<1>13. DigitsFrom(k, w) = text
  <2> HIDE DEF D
  <2> QED
    BY <1>9, <1>11, <1>12
<1>14. QED
  BY <1>4, <1>13 DEF text

----------------------------------------------------------------------------
(* Numbers in decimal and in hexadecimal. *)

\* The bases and the letters that are used.
LEMMA Bases == 10 \in 2..16 /\ 16 \in 2..16 /\ Lower \in Digits /\ Upper \in Digits
BY DigitLetters

\* An unsigned number in decimal.
LEMMA DecimalOfNat ==
    ASSUME NEW k \in ULongs
    PROVE  /\ Decimal(k) = Numeral(k, 10, Lower)
           /\ Decimal(k) \in Seq(Nat) /\ Len(Decimal(k)) \in Nat \ {0}
           /\ PutUInt(k) = Printed(Decimal(k), Len(Decimal(k)))
<1> DEFINE text == Numeral(k, 10, Lower)
<1>1. k \in Nat
  BY ULongsDivided, Bases
<1>2. Decimal(k) = text
  BY <1>1 DEF Decimal
<1>3. text \in Seq(Nat) /\ Len(text) \in Nat \ {0}
  <2>1. \E w \in 1..LongBits : text \in Seq(Nat) /\ Len(text) = w
    BY Bases, NumeralText
  <2> HIDE DEF text
  <2>2. QED
    BY <2>1, WidthsAssumption
<1>4. PutUInt(k) = Printed(text, Len(text))
  BY Bases, PutDigitsWrites DEF PutUInt
<1> HIDE DEF text
<1>5. QED
  BY <1>2, <1>3, <1>4 DEF text

\* A negative number in decimal: a sign and the magnitude.
LEMMA DecimalOfNegative ==
    ASSUME NEW k \in ULongs \ {0}, NEW x \in Int, x = -k
    PROVE  /\ Decimal(x) = <<Minus>> \o Decimal(k)
           /\ Decimal(x) \in Seq(Nat) /\ Len(Decimal(x)) = 1 + Len(Decimal(k))
<1>0. 10 \in Nat \ {0}
  OBVIOUS
<1>1. k \in Nat /\ x < 0 /\ -x = k
  <2>1. k \in Nat
    BY <1>0, ULongsDivided
  <2>2. QED
    BY <2>1
<1>2. Decimal(x) = <<Minus>> \o Numeral(k, 10, Lower)
  BY <1>1 DEF Decimal
<1>3. Decimal(k) = Numeral(k, 10, Lower) /\ Decimal(k) \in Seq(Nat)
  BY DecimalOfNat
<1>4. Minus \in Nat
  BY DEF Minus
<1>5. \A s \in Seq(Nat) : <<Minus>> \o s \in Seq(Nat) /\ Len(<<Minus>> \o s) = 1 + Len(s)
  BY <1>4
<1>6. QED
  BY <1>2, <1>3, <1>5

\* The magnitude of an int, and what is written for it.
LEMMA Magnitude ==
    ASSUME NEW k \in -Power(2, IntBits - 1)..Power(2, IntBits - 1) - 1
    PROVE  /\ k \in Int
           /\ k >= 0 => k \in ULongs /\ k \in 0..Power(2, IntBits - 1) /\ Unsigned(k, IntBits) = k
           /\ k < 0 => /\ -k \in ULongs \ {0} /\ -k \in 0..Power(2, IntBits - 1)
                       /\ Unsigned(-k, IntBits) = -k
<1>1. PICK h, m, top, times : WidthsAre(h, m, top, times)
  BY Widths
<1>2. k \in -h..(h - 1) /\ h \in Nat /\ m = 2 * h /\ m <= top /\ top \in Nat /\ h >= 128
  BY <1>1 DEF WidthsAre
<1>3. IntBits \in Nat
  BY WidthsAssumption
<1>4. CASE k >= 0
  <2>1. k \in 0..(m - 1) /\ k \in 0..2 * top - 1 /\ k \in 0..h
    BY <1>2, <1>4
  <2>2. k \in 0..Power(2, IntBits) - 1 /\ k \in ULongs /\ k \in 0..Power(2, IntBits - 1)
    BY <1>1, <2>1 DEF WidthsAre
  <2>3. QED
    BY <1>2, <1>3, <1>4, <2>2, UnsignedFits
<1>5. CASE k < 0
  <2> DEFINE x == -k
  <2>1. x \in 0..(m - 1) /\ x \in 0..2 * top - 1 /\ x \in 0..h /\ x # 0
    BY <1>2, <1>5
  <2> HIDE DEF x
  <2>2. x \in 0..Power(2, IntBits) - 1 /\ x \in ULongs /\ x \in 0..Power(2, IntBits - 1)
    BY <1>1, <2>1 DEF WidthsAre
  <2>3. Unsigned(x, IntBits) = x
    BY <1>3, <2>2, UnsignedFits
  <2>4. QED
    BY <1>2, <1>5, <2>1, <2>2, <2>3 DEF x
<1>6. QED
  BY <1>2, <1>4, <1>5

\* An int is written in decimal, the smallest one too.
LEMMA PutIntWrites ==
    ASSUME NEW k \in -Power(2, IntBits - 1)..Power(2, IntBits - 1) - 1
    PROVE  PutInt(k) = Printed(Decimal(k), Len(Decimal(k)))
<1>1. CASE k >= 0
  BY <1>1, Magnitude, DecimalOfNat DEF PutInt
<1>2. CASE k < 0
  <2> DEFINE x == -k
  <2>1. k \in Int /\ ~(k >= 0)
    BY <1>2, Magnitude
  <2>2. k = -x /\ x \in ULongs \ {0} /\ Unsigned(x, IntBits) = x
    BY <1>2, Magnitude
  <2>3. PutInt(k) = Then(PutChar(Minus), PutUInt(Unsigned(x, IntBits)))
    BY <2>1 DEF PutInt
  <2> HIDE DEF x
  <2>4. /\ Decimal(k) = <<Minus>> \o Decimal(x)
        /\ Len(Decimal(k)) = 1 + Len(Decimal(x))
    BY <2>1, <2>2, DecimalOfNegative
  <2>5. PutUInt(x) = Printed(Decimal(x), Len(Decimal(x)))
    BY <2>2, DecimalOfNat
  <2>6. PutInt(k) = Printed(<<Minus>> \o Decimal(x), 1 + Len(Decimal(x)))
    BY <2>2, <2>3, <2>5 DEF Then, PutChar, Printed
  <2>7. QED
    BY <2>4, <2>6
<1>3. QED
  BY <1>1, <1>2, Magnitude

\* ft_itoa writes an int in decimal and allocates exactly what it needs.
LEMMA ItoaWrites ==
    ASSUME NEW k \in -Power(2, IntBits - 1)..Power(2, IntBits - 1) - 1
    PROVE  Itoa(k) = [room |-> Len(Decimal(k)) + 1, text |-> Decimal(k)]
<1>1. ASSUME NEW x \in ULongs, x \in 0..Power(2, IntBits - 1)
      PROVE  CountDigits(x) = Len(Decimal(x)) /\ DigitsFrom(x, CountDigits(x)) = Decimal(x)
  <2>1. Decimal(x) = Numeral(x, 10, Lower)
    BY DecimalOfNat
  <2>2. CountDigits(x) = Len(Decimal(x))
    BY <2>1, CountDigitsCounts
  <2>3. DigitsFrom(x, Len(Numeral(x, 10, Lower))) = Numeral(x, 10, Lower)
    BY <1>1, DigitsFromIs
  <2>4. QED
    BY <2>1, <2>2, <2>3
<1>2. CASE k >= 0
  <2>1. k \in ULongs /\ k \in 0..Power(2, IntBits - 1) /\ Unsigned(k, IntBits) = k /\ ~(k < 0)
    BY <1>2, Magnitude
  <2>2. Itoa(k) = [room |-> CountDigits(k) + Len(<<>>) + 1,
                   text |-> <<>> \o DigitsFrom(k, CountDigits(k))]
    BY <2>1 DEF Itoa
  <2>3. Decimal(k) \in Seq(Nat) /\ Len(Decimal(k)) \in Nat
    BY <2>1, DecimalOfNat
  <2>4. <<>> \o Decimal(k) = Decimal(k) /\ Len(<<>>) = 0
    BY <2>3
  <2>5. QED
    BY <1>1, <2>1, <2>2, <2>3, <2>4
<1>3. CASE k < 0
  <2> DEFINE x == -k
  <2>1. k \in Int /\ k = -x /\ x \in ULongs \ {0} /\ x \in 0..Power(2, IntBits - 1)
        /\ Unsigned(x, IntBits) = x
    BY <1>3, Magnitude
  <2>2. Itoa(k) = [room |-> CountDigits(Unsigned(x, IntBits)) + Len(<<Minus>>) + 1,
                   text |-> <<Minus>> \o DigitsFrom(Unsigned(x, IntBits), CountDigits(Unsigned(x, IntBits)))]
    BY <1>3 DEF Itoa
  <2> HIDE DEF x
  <2>3. Decimal(k) = <<Minus>> \o Decimal(x) /\ Len(Decimal(k)) = 1 + Len(Decimal(x))
    BY <2>1, DecimalOfNegative
  <2>4. CountDigits(x) = Len(Decimal(x)) /\ DigitsFrom(x, CountDigits(x)) = Decimal(x)
    BY <1>1, <2>1
  <2>5. Len(<<Minus>>) = 1 /\ Len(Decimal(x)) \in Nat
    BY <2>1, DecimalOfNat
  <2>6. Itoa(k) = [room |-> Len(Decimal(x)) + 1 + 1, text |-> <<Minus>> \o Decimal(x)]
    BY <2>1, <2>2, <2>4, <2>5
  <2>7. Len(Decimal(x)) + 1 + 1 = Len(Decimal(k)) + 1
    BY <2>3, <2>5
  <2>8. QED
    BY <2>3, <2>6, <2>7
<1>4. QED
  BY <1>2, <1>3, Magnitude

\* A long is written in decimal; only its count is wrong.
LEMMA PutLongWrites ==
    ASSUME NEW k \in -LongMax..LongMax
    PROVE  /\ PutLongInt(k).text = Decimal(k) /\ Signed(k, LongBits) = k
           /\ Decimal(k) \in Seq(Nat) /\ PutLongInt(k) \in Outputs
<1>1. PICK h, m, top, times : WidthsAre(h, m, top, times)
  BY Widths
<1>2. LongMax = top - 1 /\ top \in Nat \ {0} /\ k \in Int
  BY <1>1 DEF WidthsAre
<1>3. Signed(k, LongBits) = k
  <2>1. LongBits \in Nat \ {0}
    BY WidthsAssumption
  <2>2. k \in -top..(top - 1)
    BY <1>2
  <2>3. k \in -Power(2, LongBits - 1)..Power(2, LongBits - 1) - 1
    BY <1>1, <2>2 DEF WidthsAre
  <2>4. QED
    BY <2>1, <2>3, SignedFits
<1>4. ASSUME NEW x \in ULongs
      PROVE  /\ PutUInt(x).text = Decimal(x) /\ Decimal(x) \in Seq(Nat)
  <2>1. PutUInt(x) = Printed(Decimal(x), Len(Decimal(x))) /\ Decimal(x) \in Seq(Nat)
    BY DecimalOfNat
  <2>2. QED
    BY <2>1 DEF Printed
<1>5. CASE k >= 0
  <2>1. k \in 0..2 * top - 1
    BY <1>2, <1>5
  <2>2. k \in ULongs
    BY <1>1, <2>1 DEF WidthsAre
  <2>3. PutLongInt(k) = Printed(PutUInt(k).text, 1)
    BY <1>2, <1>5 DEF PutLongInt
  <2>4. PutLongInt(k) = Printed(Decimal(k), 1) /\ Decimal(k) \in Seq(Nat)
    BY <1>4, <2>2, <2>3
  <2>5. QED
    BY <1>3, <2>4 DEF Printed, Outputs
<1>6. CASE k < 0
  <2> DEFINE x == -k
  <2>1. x \in 0..2 * top - 1 /\ x # 0 /\ k = -x
    BY <1>2, <1>6
  <2>2. PutLongInt(k) = Then(PutChar(Minus), Printed(PutUInt(x).text, 1))
    BY <1>6 DEF PutLongInt
  <2> HIDE DEF x
  <2>3. x \in ULongs \ {0}
    BY <1>1, <2>1 DEF WidthsAre
  <2>4. Decimal(k) = <<Minus>> \o Decimal(x) /\ Decimal(k) \in Seq(Nat)
    BY <1>2, <2>1, <2>3, DecimalOfNegative
  <2>5. PutLongInt(k) = Printed(Decimal(k), 1 + 1)
    BY <1>4, <2>2, <2>3, <2>4 DEF Then, PutChar, Printed
  <2>6. QED
    BY <1>3, <2>4, <2>5 DEF Printed, Outputs
<1>7. QED
  BY <1>2, <1>5, <1>6

\* What is written in base 16, and as an address.
LEMMA HexWrites ==
    ASSUME NEW k \in Int
    PROVE  /\ PutHexLow(k) = Printed(Numeral(Unsigned(k, IntBits), 16, Lower),
                                     Len(Numeral(Unsigned(k, IntBits), 16, Lower)))
           /\ PutHexUpper(k) = Printed(Numeral(Unsigned(k, IntBits), 16, Upper),
                                       Len(Numeral(Unsigned(k, IntBits), 16, Upper)))
           /\ Unsigned(k, IntBits) \in ULongs /\ Unsigned(k, LongBits) \in ULongs
           /\ Unsigned(k, IntBits) \in 0..Power(2, IntBits) - 1
<1>1. PICK h, m, top, times : WidthsAre(h, m, top, times)
  BY Widths
<1>2. IntBits \in Nat \ {0} /\ LongBits \in Nat \ {0}
  BY WidthsAssumption
<1> DEFINE u == Unsigned(k, IntBits)
           v == Unsigned(k, LongBits)
<1>3. u \in 0..Power(2, IntBits) - 1 /\ v \in 0..Power(2, LongBits) - 1
  BY <1>2, SignedIs
<1> HIDE DEF u, v
<1>4. u \in 0..(m - 1) /\ v \in ULongs
  BY <1>1, <1>3 DEF WidthsAre, ULongs
<1>5. u \in 0..2 * top - 1
  BY <1>1, <1>4 DEF WidthsAre
<1>6. u \in ULongs
  BY <1>1, <1>5 DEF WidthsAre
<1>7. PutHexLow(k) = PutDigits(u, 16, Lower) /\ PutHexUpper(k) = PutDigits(u, 16, Upper)
  BY DEF PutHexLow, PutHexUpper, u
<1>8. QED
  BY <1>3, <1>4, <1>6, <1>7, Bases, PutDigitsWrites DEF u, v

----------------------------------------------------------------------------
(* ft_atoi. *)

(* p[x] is the value of the first x digits of k. *)
DigitPrefixes(p, k) ==
    LET text == Numeral(k, 10, Lower)
    IN  /\ p[0] = 0 /\ p[Len(text)] = k
        /\ \A x \in 0..Len(text) : p[x] \in 0..k
        /\ \A x \in 1..Len(text) : /\ IsDigit(text[x]) /\ text[x] \in Nat
                                   /\ p[x] = p[x - 1] * 10 + (text[x] - Zero)

\* The digits of a numeral sum up to the number, without ever exceeding it.
LEMMA DigitPrefixesExist == ASSUME NEW k \in ULongs PROVE \E p : DigitPrefixes(p, k)
<1> DEFINE text == Numeral(k, 10, Lower)
<1>1. 10 \in 2..16 /\ 10 \in Nat \ {0} /\ Lower \in Digits /\ 10 - 1 = 9
  BY DigitLetters
<1>2. k \in Nat
  BY <1>1, ULongsDivided
<1>3. PICK w \in 1..LongBits :
         /\ Width(k, 10, w)
         /\ text \in Seq(Nat) /\ Len(text) = w
         /\ \A d \in 1..w : /\ (k \div Power(10, w - d)) % 10 \in 0..(10 - 1)
                            /\ text[d] = Lower[(k \div Power(10, w - d)) % 10]
  BY <1>1, NumeralText
<1> HIDE DEF text
<1>4. w \in Nat /\ w >= 1
  BY <1>3, WidthsAssumption
<1> DEFINE p == [x \in 0..w |-> k \div Power(10, w - x)]
<1>5. \A x \in 0..w : w - x \in Nat /\ Power(10, w - x) \in Nat \ {0}
  <2>1. \A x \in 0..w : w - x \in Nat
    BY <1>4
  <2>2. QED
    BY <1>1, <2>1, PowerIs
<1>6. p[0] = 0
  <2>1. p[0] = k \div Power(10, w)
    BY <1>4
  <2>2. k < Power(10, w) /\ Power(10, w) \in Nat \ {0}
    BY <1>1, <1>3, <1>4, PowerIs DEF Width
  <2>3. k \div Power(10, w) = 0
    BY <1>2, <2>2
  <2>4. QED
    BY <2>1, <2>3
<1>7. p[w] = k
  <2>1. p[w] = k \div Power(10, w - w) /\ w - w = 0
    BY <1>4
  <2>2. Power(10, 0) = 1
    BY <1>1, PowerIs
  <2>3. k \div 1 = k
    BY <1>2
  <2> HIDE DEF p
  <2>4. QED
    BY <2>1, <2>2, <2>3
<1>8. ASSUME NEW x \in 0..w PROVE p[x] \in 0..k
  <2>1. p[x] = k \div Power(10, w - x)
    OBVIOUS
  <2>2. k \div Power(10, w - x) \in ULongs /\ k \div Power(10, w - x) <= k
    BY <1>5, ULongsDivided
  <2>3. p[x] \in Nat
    BY <1>1, <2>1, <2>2, ULongsDivided
  <2> HIDE DEF p
  <2>4. QED
    BY <1>2, <2>1, <2>2, <2>3
<1>9. ASSUME NEW x \in 1..w
      PROVE  IsDigit(text[x]) /\ text[x] \in Nat /\ p[x] = p[x - 1] * 10 + (text[x] - Zero)
  <2> DEFINE y == w - x
             b == Power(10, y)
             q == k \div b
             l == q % 10
  <2>1. y \in Nat /\ w - (x - 1) = y + 1 /\ x \in 0..w /\ x - 1 \in 0..w
    BY <1>4
  <2>2. p[x] = q /\ p[x - 1] = k \div Power(10, y + 1)
    BY <2>1
  <2>3. l \in 0..9 /\ text[x] = Lower[l]
    BY <1>1, <1>3
  <2> HIDE DEF y, l, p
  <2>4. b \in Nat \ {0} /\ Power(10, y + 1) = 10 * b
    BY <1>1, <2>1, PowerIs
  <2> HIDE DEF b
  <2>5. 10 * b = b * 10
    BY <2>4
  <2>6. q \div 10 = k \div (b * 10)
    BY <1>1, <1>2, <2>4, DividedTwice
  <2>7. q \in Nat
    BY <1>2, <2>4, DivMod
  <2> HIDE DEF q
  <2>8. q = 10 * (q \div 10) + (q % 10)
    BY <2>7
  <2>9. p[x - 1] = q \div 10
    BY <2>2, <2>4, <2>5, <2>6
  <2>10. text[x] = 48 + l
    BY <2>3 DEF Lower, Zero
  <2>11. p[x] = p[x - 1] * 10 + l
    BY <2>2, <2>7, <2>8, <2>9 DEF l
  <2>12. text[x] - Zero = l /\ text[x] \in 48..57
    BY <2>3, <2>10 DEF Zero
  <2>13. QED
    BY <2>11, <2>12 DEF IsDigit
<1>10. DigitPrefixes(p, k)
  <2> HIDE DEF p
  <2> QED
    BY <1>3, <1>6, <1>7, <1>8, <1>9 DEF DigitPrefixes, text
<1>11. QED
  BY <1>10

\* The loop of ft_atoi sums up the digits, and gives up when a long cannot hold the sum.
LEMMA AccumulateReads ==
    ASSUME NEW k \in ULongs, NEW after \in Seq(Nat), after # <<>> => ~IsDigit(after[1]),
           NEW sign
    PROVE  Accumulate(Numeral(k, 10, Lower) \o after, sign) =
              IF k > LongMax THEN (IF sign = 1 THEN -1 ELSE 0)
              ELSE Signed(Signed(k, IntBits) * sign, IntBits)
<1> DEFINE text == Numeral(k, 10, Lower)
           s == text \o after
           w == Len(text)
           D == 0..Len(s)
           Body(h1, x) == IF x = 0 THEN 0
                          ELSE Unsigned(h1[x - 1] * 10 + (s[x] - Zero), LongBits)
           f == CHOOSE f1 : f1 = [x \in D |-> Body(f1, x)]
           step == [y \in D \X Nat |-> Unsigned(y[2] * 10 + (s[y[1]] - Zero), LongBits)]
<1>1. PICK p : DigitPrefixes(p, k)
  BY DigitPrefixesExist
<1>2. k \in Nat /\ LongBits \in Nat \ {0} /\ k <= Power(2, LongBits) - 1
      /\ Power(2, LongBits) \in Nat
  <2>1. k \in Nat
    BY Bases, ULongsDivided
  <2>2. 2 \in Nat \ {0} /\ LongBits \in Nat \ {0}
    BY WidthsAssumption
  <2>3. Power(2, LongBits) \in Nat
    BY <2>2, PowerIs
  <2>4. QED
    BY <2>1, <2>2, <2>3 DEF ULongs
<1>3. text \in Seq(Nat) /\ w \in Nat /\ w >= 1
  <2>1. Decimal(k) = text
    BY DecimalOfNat
  <2>2. Decimal(k) \in Seq(Nat) /\ Len(Decimal(k)) \in Nat \ {0}
    BY DecimalOfNat
  <2> HIDE DEF text
  <2>3. QED
    BY <2>1, <2>2
<1>4. /\ p[0] = 0 /\ p[w] = k /\ (\A x \in 0..w : p[x] \in 0..k)
      /\ \A x \in 1..w : /\ IsDigit(text[x]) /\ text[x] \in Nat
                         /\ p[x] = p[x - 1] * 10 + (text[x] - Zero)
  BY <1>1 DEF DigitPrefixes
<1> HIDE DEF text
<1>5. /\ s \in Seq(Nat) /\ Len(s) = w + Len(after) /\ Len(s) \in Nat /\ w <= Len(s)
      /\ (\A x \in 1..w : s[x] = text[x]) /\ (\A x \in 1..Len(s) : s[x] \in Nat)
      /\ (w # Len(s) => s[w + 1] = after[1] /\ after # <<>>)
  BY <1>3
<1> HIDE DEF s
<1>6. \A x \in D : \A y \in Nat : x # 0 =>
         /\ step[<<x, y>>] = Unsigned(y * 10 + (s[x] - Zero), LongBits)
         /\ step[<<x, y>>] \in Nat
  <2>1. ASSUME NEW x \in D, NEW y \in Nat, x # 0
        PROVE  /\ step[<<x, y>>] = Unsigned(y * 10 + (s[x] - Zero), LongBits)
               /\ step[<<x, y>>] \in Nat
    <3>1. step[<<x, y>>] = Unsigned(y * 10 + (s[x] - Zero), LongBits)
      OBVIOUS
    <3> DEFINE z == y * 10 + (s[x] - Zero)
    <3>2. z \in Int
      <4>1. s[x] \in Nat
        BY <1>5, <2>1
      <4>2. QED
        BY <4>1 DEF Zero
    <3> HIDE DEF z
    <3>3. Unsigned(z, LongBits) \in 0..Power(2, LongBits) - 1
      BY <1>2, <3>2, SignedIs
    <3>4. Unsigned(z, LongBits) \in Nat
      BY <1>2, <3>3
    <3>5. QED
      BY <3>1, <3>4 DEF z
  <2>2. QED
    BY <2>1
<1>7. PICK g \in [D -> Nat] : Steps(g, D, 0, step)
  <2>1. D \in SUBSET Nat /\ 0 \in D /\ (\A x \in D \ {0} : x - 1 \in D) /\ 0 \in Nat
    BY <1>5
  <2>2. \A x \in D \ {0} : \A y \in Nat : step[<<x, y>>] \in Nat
    BY <1>6
  <2> HIDE DEF D, step
  <2>3. QED
    BY <2>1, <2>2, StepsSolved
<1>8. g = [x \in D |-> Body(g, x)]
  <2>1. ASSUME NEW x \in D PROVE g[x] = Body(g, x)
    <3>1. x # 0 => x - 1 \in D
      BY <1>5
    <3>2. x # 0 => g[x - 1] \in Nat
      BY <3>1
    <3> HIDE DEF step
    <3>3. QED
      BY <1>6, <1>7, <3>1, <3>2 DEF Steps
  <2> HIDE DEF D, Body
  <2>2. QED
    BY <2>1
<1>9. f = [x \in D |-> Body(f, x)]
  <2> HIDE DEF D, Body
  <2> QED
    BY <1>8
<1> DEFINE S == {x \in 0..Len(s) : x = Len(s) \/ ~IsDigit(s[x + 1]) \/ f[x] > LongMax}
           stop == Min(S)
<1>10. Accumulate(s, sign) =
          IF f[stop] > LongMax THEN (IF sign = 1 THEN -1 ELSE 0)
          ELSE Signed(Signed(f[stop], IntBits) * sign, IntBits)
  BY DEF Accumulate
<1> HIDE DEF f, step
<1>11. \A x \in D : f[x] = Body(f, x)
  <2> HIDE DEF D, Body
  <2> QED
    BY <1>9
<1> DEFINE P == {x \in 0..w : f[x] = p[x]}
<1>12. 0..w = P
  <2>1. ASSUME NEW x \in 0..w, \A y \in 0..w : y < x => y \in P PROVE x \in P
    <3>1. x \in D
      BY <1>5
    <3>2. CASE x = 0
      BY <1>4, <1>11, <3>1, <3>2
    <3>3. CASE x # 0
      <4>1. x - 1 \in 0..w /\ x - 1 < x /\ x \in 1..w
        BY <1>3, <3>3
      <4>2. f[x - 1] = p[x - 1]
        BY <2>1, <4>1
      <4>3. s[x] = text[x]
        BY <1>5, <4>1
      <4>4. f[x] = Unsigned(p[x - 1] * 10 + (text[x] - Zero), LongBits)
        BY <1>11, <3>1, <3>3, <4>2, <4>3
      <4>5. f[x] = Unsigned(p[x], LongBits)
        BY <1>4, <4>1, <4>4
      <4>6. p[x] \in 0..k
        BY <1>4
      <4>7. p[x] \in 0..Power(2, LongBits) - 1
        BY <1>2, <4>6
      <4>8. f[x] = p[x]
        BY <1>2, <4>5, <4>7, UnsignedFits
      <4>9. QED
        BY <4>8
    <3>4. QED
      BY <3>2, <3>3
  <2>2. P \in SUBSET (0..w) /\ 0..w \in SUBSET Nat
    BY <1>3
  <2> HIDE DEF P
  <2>3. QED
    BY <2>1, <2>2, Induction
<1>13. \A x \in 0..w : f[x] = p[x]
  BY <1>12
<1>14. w \in S
  <2>1. w = Len(s) \/ ~IsDigit(s[w + 1])
    BY <1>5
  <2>2. QED
    BY <1>3, <1>5, <2>1
<1>15. stop \in S /\ stop \in 0..w
  <2>1. S \in SUBSET Nat /\ S # {}
    BY <1>5, <1>14
  <2> HIDE DEF S
  <2>2. stop \in S /\ stop \in Nat /\ \A x \in S : stop <= x
    BY <2>1, MinOfNat
  <2>3. stop <= w
    BY <1>14, <2>2
  <2> HIDE DEF stop
  <2>4. QED
    BY <1>3, <2>2, <2>3
<1> HIDE DEF stop
<1>16. stop # w => f[stop] > LongMax
  <2>1. SUFFICES ASSUME stop # w PROVE f[stop] > LongMax
    OBVIOUS
  <2>2. stop < w /\ stop + 1 \in 1..w /\ stop # Len(s)
    <3>1. stop \in 0..w /\ w \in Nat /\ Len(s) \in Nat /\ w <= Len(s)
      BY <1>3, <1>5, <1>15
    <3> HIDE DEF S, w
    <3>2. QED
      BY <2>1, <3>1
  <2>3. IsDigit(s[stop + 1])
    BY <1>4, <1>5, <2>2
  <2>4. QED
    BY <1>15, <2>2, <2>3
<1>17. f[stop] = p[stop] /\ p[stop] \in 0..k /\ LongMax \in Int
  <2>1. LongMax \in Int
    <3>1. PICK h, m, top, times : WidthsAre(h, m, top, times)
      BY Widths
    <3>2. QED
      BY <3>1 DEF WidthsAre
  <2>2. QED
    BY <1>4, <1>13, <1>15, <2>1
<1>18. CASE k > LongMax
  <2>1. f[stop] > LongMax
    <3>1. CASE stop = w
      BY <1>4, <1>17, <1>18, <3>1
    <3>2. QED
      BY <1>16, <3>1
  <2>2. QED
    BY <1>10, <1>18, <2>1 DEF s, text
<1>19. CASE ~(k > LongMax)
  <2>1. ~(f[stop] > LongMax)
    BY <1>2, <1>17, <1>19
  <2>2. stop = w /\ f[stop] = k
    BY <1>4, <1>16, <1>17, <2>1
  <2>3. QED
    BY <1>10, <1>19, <2>1, <2>2 DEF s, text
<1>20. QED
  BY <1>18, <1>19

\* Joining texts is associative.
LEMMA TextsRegroup ==
    ASSUME NEW s \in Seq(Nat), NEW t \in Seq(Nat), NEW u \in Seq(Nat)
    PROVE  (s \o t) \o u = s \o (t \o u)
OBVIOUS

\* Leading blanks are skipped.
LEMMA SkipSpacesSkips ==
    ASSUME NEW blanks \in Seq(Nat), \A x \in 1..Len(blanks) : IsSpace(blanks[x]),
           NEW t \in Seq(Nat), t # <<>>, ~IsSpace(t[1])
    PROVE  SkipSpaces(blanks \o t) = t
<1> DEFINE s == blanks \o t
           w == Len(blanks)
           S == {x \in 0..Len(s) : x = Len(s) \/ ~IsSpace(s[x + 1])}
           skipped == Min(S)
<1>1. /\ s \in Seq(Nat) /\ w \in Nat /\ Len(s) = w + Len(t) /\ Len(t) \in Nat \ {0}
      /\ (\A x \in 1..w : s[x] = blanks[x]) /\ \A x \in 1..Len(t) : s[w + x] = t[x]
  OBVIOUS
<1>2. SkipSpaces(s) = SubSeq(s, skipped + 1, Len(s))
  BY DEF SkipSpaces
<1> HIDE DEF s
<1>3. s[w + 1] = t[1] /\ w \in 0..Len(s) /\ w < Len(s)
  BY <1>1
<1>4. w \in S
  BY <1>3
<1>5. \A x \in S : w <= x
  <2>1. ASSUME NEW x \in S, x < w PROVE FALSE
    <3>1. x + 1 \in 1..w /\ x # Len(s)
      BY <1>1, <2>1
    <3>2. IsSpace(s[x + 1])
      BY <1>1, <3>1
    <3>3. QED
      BY <3>1, <3>2
  <2>2. \A x \in S : x \in Int
    OBVIOUS
  <2> HIDE DEF S
  <2>3. QED
    BY <1>1, <2>1, <2>2
<1>6. skipped = w
  <2>1. S \in SUBSET Int
    OBVIOUS
  <2> HIDE DEF S
  <2>2. QED
    BY <1>4, <1>5, <2>1, MinIs
<1>7. SubSeq(s, w + 1, Len(s)) = t
  <2> DEFINE u == SubSeq(s, w + 1, Len(s))
  <2>1. u \in Seq(Nat) /\ Len(u) = Len(t) /\ \A x \in 1..Len(t) : u[x] = t[x]
    <3>1. w + 1 \in Nat /\ Len(s) \in Nat /\ w + 1 >= 1 /\ w + 1 <= Len(s)
      BY <1>1
    <3>2. /\ u \in Seq(Nat)
          /\ Len(u) = Len(s) - (w + 1) + 1
          /\ \A x \in 1..(Len(s) - (w + 1) + 1) : u[x] = s[(w + 1) + x - 1]
      <4>1. Len(s) <= Len(s)
        BY <1>1
      <4> DEFINE a == w + 1
                 b == Len(s)
      <4>2. a \in Nat /\ b \in Nat /\ a >= 1 /\ b <= Len(s) /\ a <= b
        BY <3>1, <4>1
      <4> HIDE DEF a, b
      <4>3. /\ SubSeq(s, a, b) \in Seq(Nat)
            /\ Len(SubSeq(s, a, b)) = b - a + 1
            /\ \A x \in 1..(b - a + 1) : SubSeq(s, a, b)[x] = s[a + x - 1]
        BY <1>1, <4>2, PartOf
      <4>4. QED
        BY <4>3 DEF a, b
    <3>3. Len(s) - (w + 1) + 1 = Len(t) /\ \A x \in 1..Len(t) : (w + 1) + x - 1 = w + x
      BY <1>1
    <3> HIDE DEF u
    <3>4. QED
      BY <1>1, <3>2, <3>3
  <2> HIDE DEF u
  <2>2. u = t
    BY <2>1, SeqEqual
  <2>3. QED
    BY <2>2 DEF u
<1>8. QED
  BY <1>2, <1>6, <1>7 DEF s

\* What is read for a number that a long holds or not is what the C library reads.
LEMMA LongCut ==
    ASSUME NEW k \in ULongs, NEW sign \in {1, -1}
    PROVE  (IF k > LongMax THEN (IF sign = 1 THEN -1 ELSE 0)
            ELSE Signed(Signed(k, IntBits) * sign, IntBits))
           = Signed(Max({-LongMax - 1, Min({LongMax, sign * k})}), IntBits)
<1>1. PICK h, m, top, times : WidthsAre(h, m, top, times)
  BY Widths
<1>2. /\ LongMax = top - 1 /\ top \in Nat \ {0} /\ h \in Nat /\ h >= 128 /\ m = 2 * h
      /\ times \in Nat \ {0} /\ top = m * times /\ m \in Nat \ {0}
      /\ Power(2, IntBits - 1) = h /\ Power(2, IntBits) = m
  BY <1>1 DEF WidthsAre
<1>3. IntBits \in Nat \ {0} /\ k \in Nat
  BY WidthsAssumption, Bases, ULongsDivided
<1> DEFINE v == sign * k
           long == Max({-LongMax - 1, Min({LongMax, v})})
<1>4. v \in Int /\ (sign = 1 => v = k) /\ (sign = -1 => v = -k)
  BY <1>3
<1> HIDE DEF v
<1>5. long = IF v > LongMax THEN LongMax ELSE IF v < -LongMax - 1 THEN -LongMax - 1 ELSE v
  <2> DEFINE a == -LongMax - 1
             b == Min({LongMax, v})
  <2>1. a \in Int /\ LongMax \in Int /\ LongMax >= a
    BY <1>2
  <2>2. b = IF LongMax <= v THEN LongMax ELSE v
    BY <1>4, <2>1, MinOfTwo
  <2> HIDE DEF a, b
  <2>3. b \in Int
    BY <1>4, <2>1, <2>2
  <2>4. Max({a, b}) = IF a >= b THEN a ELSE b
    BY <2>1, <2>3, MaxOfTwo
  <2>5. (IF a >= b THEN a ELSE b)
        = IF v > LongMax THEN LongMax ELSE IF v < a THEN a ELSE v
    BY <1>4, <2>1, <2>2
  <2>6. QED
    BY <2>4, <2>5 DEF a, b
<1> HIDE DEF long
<1>6. CASE k > LongMax /\ sign = 1
  <2>1. long = LongMax /\ long \in Int
    BY <1>2, <1>4, <1>5, <1>6
  <2>2. -1 \in -h..(h - 1)
    BY <1>2
  <2>3. long = m * times + (-1)
    BY <1>2, <2>1
  <2> DEFINE s == -1
  <2>4. s \in -Power(2, IntBits - 1)..Power(2, IntBits - 1) - 1 /\ long = Power(2, IntBits) * times + s
    BY <1>2, <2>2, <2>3
  <2>5. times \in Int
    BY <1>2
  <2> HIDE DEF s
  <2>6. Signed(long, IntBits) = s
    BY <1>3, <2>1, <2>4, <2>5, SignedUnique
  <2>7. QED
    BY <1>6, <2>6 DEF s, long, v
<1>7. CASE k > LongMax /\ sign = -1
  <2>1. long = -top
    BY <1>2, <1>3, <1>4, <1>5, <1>7
  <2> DEFINE y == -times
             s == 0
  <2>2. y \in Int /\ long \in Int
    BY <1>2, <2>1
  <2>3. m * y = -(m * times)
    BY <1>2
  <2>4. s \in -Power(2, IntBits - 1)..Power(2, IntBits - 1) - 1 /\ long = Power(2, IntBits) * y + s
    BY <1>2, <2>1, <2>2, <2>3
  <2> HIDE DEF s, y
  <2>5. Signed(long, IntBits) = s
    BY <1>3, <2>2, <2>4, SignedUnique
  <2>6. sign # 1
    BY <1>7
  <2>7. QED
    BY <1>7, <2>5, <2>6 DEF s, long, v
<1>8. CASE ~(k > LongMax)
  <2>1. long = v
    BY <1>2, <1>3, <1>4, <1>5, <1>8
  <2> DEFINE x == Signed(k, IntBits)
             y == x * sign
             s == Signed(y, IntBits)
  <2>2. PICK a \in Int : k = Power(2, IntBits) * a + x
    BY <1>3, SignedIs
  <2>3. x \in Int
    <3>1. x \in -Power(2, IntBits - 1)..Power(2, IntBits - 1) - 1
      BY <1>3, SignedIs
    <3>2. x \in -h..(h - 1)
      BY <1>2, <3>1
    <3> HIDE DEF x
    <3>3. QED
      BY <1>2, <3>2
  <2> HIDE DEF x
  <2>4. y \in Int
    BY <2>3
  <2>5. sign * k = m * (sign * a) + y
    <3>1. k = m * a + x
      BY <1>2, <2>2
    <3>2. CASE sign = 1
      BY <1>2, <2>3, <3>1, <3>2
    <3>3. CASE sign = -1
      <4>1. m * (sign * a) = -(m * a) /\ y = -x /\ sign * k = -k
        BY <1>2, <1>3, <2>3, <3>3
      <4>2. QED
        BY <1>2, <1>3, <2>3, <3>1, <4>1
    <3>4. QED
      BY <3>2, <3>3
  <2> HIDE DEF y
  <2>6. PICK z \in Int : y = m * z + s
    BY <1>2, <1>3, <2>4, SignedIs
  <2>7. s \in -Power(2, IntBits - 1)..Power(2, IntBits - 1) - 1
    BY <1>3, <2>4, SignedIs
  <2> HIDE DEF s
  <2>8. s \in Int
    <3>1. s \in -h..(h - 1)
      BY <1>2, <2>7
    <3>2. QED
      BY <1>2, <3>1
  <2> DEFINE q == sign * a + z
  <2>9. sign * a \in Int /\ q \in Int
    OBVIOUS
  <2>10. m * q = m * (sign * a) + m * z
    BY <1>2, <2>9
  <2>11. v = m * q + s
    BY <1>2, <2>5, <2>6, <2>8, <2>9, <2>10 DEF v
  <2> HIDE DEF q
  <2>12. Signed(v, IntBits) = s
    BY <1>2, <1>3, <1>4, <2>7, <2>9, <2>11, SignedUnique
  <2>13. QED
    BY <1>8, <2>1, <2>12 DEF s, y, x, long, v
<1>9. QED
  BY <1>6, <1>7, <1>8

\* ft_atoi reads what the C library's atoi reads.
LEMMA AtoiReads ==
    ASSUME NEW k \in ULongs, NEW after \in Seq(Nat), after # <<>> => ~IsDigit(after[1]),
           NEW blanks \in Seq(Nat), \A x \in 1..Len(blanks) : IsSpace(blanks[x]),
           NEW sgn \in {<<>>, <<Plus>>, <<Minus>>}
    PROVE  Atoi(blanks \o sgn \o Numeral(k, 10, Lower) \o after)
           = LET value == IF sgn = <<Minus>> THEN -k ELSE k
                 long == Max({-LongMax - 1, Min({LongMax, value})})
             IN  Signed(long, IntBits)
<1> DEFINE text == Numeral(k, 10, Lower)
           s == text \o after
           t == sgn \o s
           sign == IF sgn = <<Minus>> THEN -1 ELSE 1
<1>1. text \in Seq(Nat) /\ Len(text) \in Nat \ {0}
  <2>1. Decimal(k) = text
    BY DecimalOfNat
  <2>2. Decimal(k) \in Seq(Nat) /\ Len(Decimal(k)) \in Nat \ {0}
    BY DecimalOfNat
  <2> HIDE DEF text
  <2>3. QED
    BY <2>1, <2>2
<1>2. IsDigit(text[1])
  <2>1. PICK p : DigitPrefixes(p, k)
    BY DigitPrefixesExist
  <2>2. 1 \in 1..Len(text)
    BY <1>1
  <2>3. QED
    BY <2>1, <2>2 DEF DigitPrefixes
<1>3. Plus \in Nat /\ Minus \in Nat /\ sgn \in Seq(Nat) /\ <<Plus>> # <<Minus>>
  <2>1. Plus \in Nat /\ Minus \in Nat /\ Plus # Minus
    BY DEF Plus, Minus
  <2>2. <<Plus>>[1] = Plus /\ <<Minus>>[1] = Minus
    OBVIOUS
  <2>3. <<>> \in Seq(Nat) /\ <<Plus>> \in Seq(Nat) /\ <<Minus>> \in Seq(Nat)
    BY <2>1
  <2>4. QED
    BY <2>1, <2>2, <2>3
<1>4. /\ Accumulate(s, sign) = Signed(Max({-LongMax - 1, Min({LongMax, sign * k})}), IntBits)
  <2>1. Accumulate(s, sign) = IF k > LongMax THEN (IF sign = 1 THEN -1 ELSE 0)
                              ELSE Signed(Signed(k, IntBits) * sign, IntBits)
    BY AccumulateReads
  <2>2. sign \in {1, -1}
    OBVIOUS
  <2> HIDE DEF sign, s
  <2>3. QED
    BY <2>1, <2>2, LongCut
<1> HIDE DEF text
<1>5. s \in Seq(Nat) /\ s # <<>> /\ s[1] = text[1] /\ Head(s) = text[1] /\ Len(s) \in Nat \ {0}
  BY <1>1
<1>6. blanks \o sgn \o text \o after = blanks \o t
  <2>1. (blanks \o sgn) \o text = blanks \o (sgn \o text)
    BY <1>1, <1>3, TextsRegroup
  <2>2. (blanks \o (sgn \o text)) \o after = blanks \o ((sgn \o text) \o after)
    <3>1. sgn \o text \in Seq(Nat)
      BY <1>1, <1>3
    <3>2. QED
      BY <3>1, TextsRegroup
  <2>3. (sgn \o text) \o after = sgn \o (text \o after)
    BY <1>1, <1>3, TextsRegroup
  <2>4. QED
    BY <2>1, <2>2, <2>3
<1> HIDE DEF s
<1>7. /\ t \in Seq(Nat) /\ t # <<>>
      /\ sgn = <<>> => t = s
      /\ sgn = <<Plus>> => t[1] = Plus /\ Head(t) = Plus /\ Tail(t) = s
      /\ sgn = <<Minus>> => t[1] = Minus /\ Head(t) = Minus /\ Tail(t) = s
  <2>1. CASE sgn = <<>>
    BY <1>3, <1>5, <2>1
  <2>2. ASSUME NEW b \in Nat
        PROVE  /\ <<b>> \o s \in Seq(Nat) /\ <<b>> \o s # <<>> /\ (<<b>> \o s)[1] = b
               /\ Head(<<b>> \o s) = b /\ Tail(<<b>> \o s) = s
    <3> DEFINE u == <<b>> \o s
    <3>1. u \in Seq(Nat) /\ Len(u) = 1 + Len(s) /\ u[1] = b /\ \A x \in 1..Len(s) : u[x + 1] = s[x]
      BY <1>5
    <3> HIDE DEF u
    <3>2. u # <<>> /\ Head(u) = b
      BY <1>5, <3>1
    <3>3. Tail(u) \in Seq(Nat) /\ Len(Tail(u)) = Len(s) /\ \A x \in 1..Len(s) : Tail(u)[x] = s[x]
      BY <1>5, <3>1, <3>2
    <3>4. Tail(u) = s
      BY <1>5, <3>3, SeqEqual
    <3>5. QED
      BY <3>1, <3>2, <3>4 DEF u
  <2>3. CASE sgn = <<Plus>>
    BY <1>3, <2>2, <2>3
  <2>4. CASE sgn = <<Minus>>
    BY <1>3, <2>2, <2>4
  <2>5. QED
    BY <2>1, <2>3, <2>4
<1> HIDE DEF t
<1>8. ~IsSpace(t[1])
  <2>1. sgn = <<>> => IsDigit(t[1])
    BY <1>2, <1>5, <1>7
  <2>2. \A b : IsDigit(b) => ~IsSpace(b)
    BY DEF IsDigit, IsSpace
  <2>3. ~IsSpace(Plus) /\ ~IsSpace(Minus)
    BY DEF Plus, Minus, IsSpace
  <2>4. QED
    BY <1>7, <2>1, <2>2, <2>3
<1>9. SkipSpaces(blanks \o t) = t
  BY <1>7, <1>8, SkipSpacesSkips
<1>10. Atoi(blanks \o t) = Accumulate(s, sign)
  <2> DEFINE signed == t # <<>> /\ Head(t) \in {Minus, Plus}
  <2>1. Atoi(blanks \o t) = Accumulate(IF signed THEN Tail(t) ELSE t,
                                       IF signed /\ Head(t) = Minus THEN -1 ELSE 1)
    BY <1>9 DEF Atoi
  <2>2. CASE sgn = <<>>
    <3>1. ~(Head(t) \in {Minus, Plus})
      <4>1. IsDigit(Head(t))
        BY <1>2, <1>5, <1>7, <2>2
      <4>2. ~IsDigit(Minus) /\ ~IsDigit(Plus)
        BY DEF IsDigit, Minus, Plus
      <4>3. QED
        BY <4>1, <4>2
    <3>2. sign = 1
      BY <2>2
    <3>3. QED
      BY <1>7, <2>1, <2>2, <3>1, <3>2
  <2>3. CASE sgn = <<Plus>>
    <3>1. Plus # Minus /\ sign = 1
      BY <1>3, <2>3 DEF Plus, Minus
    <3>2. QED
      BY <1>7, <2>1, <2>3, <3>1
  <2>4. CASE sgn = <<Minus>>
    <3>1. sign = -1
      BY <2>4
    <3>2. QED
      BY <1>7, <2>1, <2>4, <3>1
  <2>5. QED
    BY <2>2, <2>3, <2>4
<1>11. sign * k = IF sgn = <<Minus>> THEN -k ELSE k
  <2>1. k \in Nat
    BY Bases, ULongsDivided
  <2>2. QED
    BY <2>1
<1> HIDE DEF sign
<1>12. QED
  BY <1>4, <1>6, <1>10, <1>11 DEF text

----------------------------------------------------------------------------
(* ft_printf. *)

(* What the loop of ft_printf does first, and what it goes on with. *)
IsLong(s) == s[2] = LetterL /\ Len(s) > 2
FirstLetter(s) == IF IsLong(s) THEN s[3] ELSE s[2]
FirstKind(s) ==
    IF IsLong(s) /\ FirstLetter(s) = LetterD THEN "long"
    ELSE IF FirstLetter(s) \in Conversions THEN "conversion"
    ELSE IF FirstLetter(s) = Percent THEN "char" ELSE "nothing"
First(s) ==
    IF Head(s) # Percent THEN Directive("char", Head(s)) ELSE Directive(FirstKind(s), FirstLetter(s))
GoesOn(s) ==
    IF Head(s) # Percent THEN Tail(s) ELSE SubSeq(s, IF IsLong(s) THEN 4 ELSE 3, Len(s))

\* Every step of the loop takes something off the format.
LEMMA LoopGoesOn ==
    ASSUME NEW s \in Seq(Nat), s # <<>>
    PROVE  GoesOn(s) \in Seq(Nat) /\ Len(GoesOn(s)) < Len(s) /\ Len(s) \in Nat
<1>1. Len(s) \in Nat \ {0}
  OBVIOUS
<1>2. CASE Head(s) # Percent
  <2>1. Tail(s) \in Seq(Nat) /\ Len(Tail(s)) = Len(s) - 1
    OBVIOUS
  <2>2. QED
    BY <1>1, <1>2, <2>1 DEF GoesOn
<1>3. CASE Head(s) = Percent
  <2> DEFINE a == IF IsLong(s) THEN 4 ELSE 3
  <2>1. a \in Nat /\ a >= 3 /\ Len(s) \in Nat
    OBVIOUS
  <2> HIDE DEF a
  <2>2. SubSeq(s, a, Len(s)) \in Seq(Nat)
        /\ Len(SubSeq(s, a, Len(s))) = IF a <= Len(s) THEN Len(s) - a + 1 ELSE 0
    <3> DEFINE b == Len(s)
    <3>1. b \in Nat /\ b <= Len(s)
      BY <1>1
    <3> HIDE DEF b
    <3>2. SubSeq(s, a, b) \in Seq(Nat) /\ Len(SubSeq(s, a, b)) = IF a <= b THEN b - a + 1 ELSE 0
      BY <2>1, <3>1, PartOf
    <3>3. QED
      BY <3>2 DEF b
  <2>3. GoesOn(s) = SubSeq(s, a, Len(s))
    BY <1>3 DEF GoesOn, a
  <2>4. QED
    BY <1>1, <2>1, <2>2, <2>3
<1>4. QED
  BY <1>2, <1>3

(* What can be a directive; the letter after a percent sign that ends a format is unknown. *)
DirectiveSet ==
    [kind : {"char", "long", "conversion", "nothing"}, letter : Nat \cup {s[2] : s \in Seq(Nat)}]

\* The directives of a format are the first one and those of what it goes on with.
LEMMA DirectivesStep ==
    /\ Directives(<<>>) = <<>>
    /\ \A s \in Seq(Nat) : s # <<>> => Directives(s) = <<First(s)>> \o Directives(GoesOn(s))
    /\ \A s \in Seq(Nat) : Directives(s) \in Seq(DirectiveSet)
<1> DEFINE D == Seq(Nat)
           V == Nat \cup {s[2] : s \in D}
           R == DirectiveSet
           Body(h, s) ==
              IF s = <<>> THEN <<>>
              ELSE IF Head(s) # Percent THEN <<Directive("char", Head(s))>> \o h[Tail(s)]
              ELSE LET long == s[2] = LetterL /\ Len(s) > 2
                       letter == IF long THEN s[3] ELSE s[2]
                       kind == IF long /\ letter = LetterD THEN "long"
                               ELSE IF letter \in Conversions THEN "conversion"
                               ELSE IF letter = Percent THEN "char" ELSE "nothing"
                   IN  <<Directive(kind, letter)>> \o h[SubSeq(s, IF long THEN 4 ELSE 3, Len(s))]
           f == CHOOSE f1 : f1 = [s \in D |-> Body(f1, s)]
           Stop == {<<>>}
           a == [s \in Stop |-> <<>>]
           next == [s \in D |-> GoesOn(s)]
           step == [p \in D \X Seq(R) |-> <<First(p[1])>> \o p[2]]
           m == [s \in D |-> Len(s)]
<1>1. ASSUME NEW h, NEW s
      PROVE  Body(h, s) = IF s = <<>> THEN <<>> ELSE <<First(s)>> \o h[GoesOn(s)]
  <2>1. CASE s = <<>>
    BY <2>1
  <2>2. CASE s # <<>> /\ Head(s) # Percent
    BY <2>2 DEF First, GoesOn
  <2>3. CASE s # <<>> /\ Head(s) = Percent
    BY <2>3 DEF First, GoesOn, FirstKind, FirstLetter, IsLong
  <2>4. QED
    BY <2>1, <2>2, <2>3
<1>2. ASSUME NEW s \in D, s # <<>> PROVE First(s) \in R
  <2>1. Head(s) \in V
    BY <1>2
  <2>2. FirstLetter(s) \in V
    <3>1. CASE IsLong(s)
      <4>1. s[3] \in Nat
        BY <3>1 DEF IsLong
      <4>2. QED
        BY <3>1, <4>1 DEF FirstLetter
    <3>2. CASE ~IsLong(s)
      BY <3>2 DEF FirstLetter
    <3>3. QED
      BY <3>1, <3>2
  <2>3. FirstKind(s) \in {"char", "long", "conversion", "nothing"}
    BY DEF FirstKind
  <2> HIDE DEF V
  <2>4. QED
    BY <2>1, <2>2, <2>3 DEF First, Directive, DirectiveSet, V
<1> HIDE DEF R, Body
<1>3. Descent(D, Seq(R), Stop, a, next, step, m)
  <2>1. Stop \in SUBSET D /\ (\A s \in D : m[s] \in Nat) /\ (\A s \in Stop : a[s] \in Seq(R))
    OBVIOUS
  <2>2. \A s \in D \ Stop : next[s] \in D /\ m[next[s]] < m[s]
    <3>1. ASSUME NEW s \in D \ Stop PROVE next[s] \in D /\ m[next[s]] < m[s]
      <4>1. GoesOn(s) \in D /\ Len(GoesOn(s)) < Len(s) /\ next[s] = GoesOn(s) /\ m[s] = Len(s)
        BY LoopGoesOn
      <4>2. m[GoesOn(s)] = Len(GoesOn(s))
        BY <4>1
      <4> HIDE DEF D, m, next
      <4>3. QED
        BY <4>1, <4>2
    <3>2. QED
      BY <3>1
  <2>3. \A s \in D \ Stop : \A y \in Seq(R) : step[<<s, y>>] \in Seq(R)
    <3>1. ASSUME NEW s \in D \ Stop, NEW y \in Seq(R) PROVE step[<<s, y>>] \in Seq(R)
      <4>1. First(s) \in R
        BY <1>2
      <4>2. <<First(s)>> \o y \in Seq(R)
        BY <4>1
      <4>3. step[<<s, y>>] = <<First(s)>> \o y
        OBVIOUS
      <4>4. QED
        BY <4>2, <4>3
    <3>2. QED
      BY <3>1
  <2> HIDE DEF D, Stop, a, next, step, m
  <2>4. QED
    BY <2>1, <2>2, <2>3 DEF Descent
<1>4. PICK g \in [D -> Seq(R)] : Descends(g, D, Stop, a, next, step)
  <2>1. Seq(R) # {}
    <3>1. <<>> \in Seq(R)
      OBVIOUS
    <3>2. QED
      BY <3>1
  <2> HIDE DEF D, Stop, a, next, step, m
  <2>2. QED
    BY <1>3, <2>1, DescentSolved
<1>5. g = [s \in D |-> Body(g, s)]
  <2>1. ASSUME NEW s \in D PROVE g[s] = Body(g, s)
    <3>1. CASE s = <<>>
      <4>1. s \in Stop /\ a[s] = <<>>
        BY <3>1
      <4> HIDE DEF D, Stop, a, next, step
      <4>2. g[s] = <<>>
        BY <1>4, <4>1 DEF Descends
      <4>3. QED
        BY <1>1, <3>1, <4>2
    <3>2. CASE s # <<>>
      <4>1. s \notin Stop /\ next[s] = GoesOn(s) /\ GoesOn(s) \in D
        BY <3>2, LoopGoesOn
      <4>2. \A y \in Seq(R) : step[<<s, y>>] = <<First(s)>> \o y
        OBVIOUS
      <4> HIDE DEF D, Stop, a, next, step
      <4>3. g[s] = step[<<s, g[GoesOn(s)]>>]
        BY <1>4, <4>1 DEF Descends
      <4>4. g[GoesOn(s)] \in Seq(R)
        BY <4>1
      <4>5. g[s] = <<First(s)>> \o g[GoesOn(s)]
        BY <4>2, <4>3, <4>4
      <4>6. QED
        BY <1>1, <3>2, <4>5
    <3>3. QED
      BY <3>1, <3>2
  <2> HIDE DEF D
  <2>2. QED
    BY <2>1
<1>6. f = [s \in D |-> Body(f, s)]
  <2> HIDE DEF D
  <2> QED
    BY <1>5
<1>7. \A s : Directives(s) = f[s]
  BY DEF Directives, Body
<1> HIDE DEF f
<1>8. \A s \in D : f[s] = Body(f, s)
  <2> HIDE DEF D
  <2> QED
    BY <1>6
<1>9. Directives(<<>>) = <<>>
  <2>1. <<>> \in D
    OBVIOUS
  <2> HIDE DEF D
  <2>2. QED
    BY <1>1, <1>7, <1>8, <2>1
<1>10. ASSUME NEW s \in Seq(Nat), s # <<>>
       PROVE  Directives(s) = <<First(s)>> \o Directives(GoesOn(s))
  BY <1>1, <1>7, <1>8, <1>10
<1>11. \A s \in D : f[s] = g[s]
  <2>1. ASSUME NEW s \in D, s \in Stop \/ f[next[s]] = g[next[s]] PROVE f[s] = g[s]
    <3>1. g[s] = Body(g, s) /\ f[s] = Body(f, s)
      <4> HIDE DEF D
      <4> QED
        BY <1>5, <1>8
    <3>2. CASE s = <<>>
      BY <1>1, <3>1, <3>2
    <3>3. CASE s # <<>>
      <4>1. next[s] = GoesOn(s) /\ s \notin Stop
        BY <3>3
      <4> HIDE DEF next, Stop, D
      <4>2. QED
        BY <1>1, <2>1, <3>1, <3>3, <4>1
    <3>4. QED
      BY <3>2, <3>3
  <2> DEFINE Y == Seq(R)
  <2>2. Descent(D, Y, Stop, a, next, step, m)
    BY <1>3
  <2> HIDE DEF D, V, Stop, a, next, step, m, Y
  <2>3. SameBelow(f, g, D, Stop, next)
    BY <2>1 DEF SameBelow
  <2>4. QED
    BY <2>2, <2>3, DescentAgrees
<1>12. \A s \in Seq(Nat) : Directives(s) \in Seq(DirectiveSet)
  BY <1>7, <1>11 DEF R
<1>13. QED
  BY <1>9, <1>10, <1>12

\* What follows the first bytes of a format.
LEMMA AfterFront ==
    ASSUME NEW front \in Seq(Nat), NEW t \in Seq(Nat)
    PROVE  SubSeq(front \o t, Len(front) + 1, Len(front \o t)) = t
<1> DEFINE s == front \o t
           w == Len(front)
           a == w + 1
           b == Len(s)
           u == SubSeq(s, a, b)
<1>1. s \in Seq(Nat) /\ w \in Nat /\ b = w + Len(t) /\ Len(t) \in Nat /\ \A x \in 1..Len(t) : s[w + x] = t[x]
  OBVIOUS
<1> HIDE DEF s, w
<1>2. a \in Nat /\ b \in Nat /\ a >= 1 /\ b <= Len(s) /\ a = w + 1
  BY <1>1
<1> HIDE DEF a, b
<1>3. /\ u \in Seq(Nat) /\ Len(u) = IF a <= b THEN b - a + 1 ELSE 0
      /\ \A x \in 1..(b - a + 1) : u[x] = s[a + x - 1]
  <2>1. /\ SubSeq(s, a, b) \in Seq(Nat)
        /\ Len(SubSeq(s, a, b)) = IF a <= b THEN b - a + 1 ELSE 0
        /\ \A x \in 1..(b - a + 1) : SubSeq(s, a, b)[x] = s[a + x - 1]
    BY <1>1, <1>2, PartOf
  <2>2. QED
    BY <2>1
<1> HIDE DEF u
<1>4. b - a + 1 = Len(t) /\ Len(u) = Len(t) /\ \A x \in 1..Len(t) : a + x - 1 = w + x
  BY <1>1, <1>2, <1>3
<1>5. \A x \in 1..Len(t) : u[x] = t[x]
  BY <1>1, <1>3, <1>4
<1>6. u = t
  BY <1>3, <1>4, <1>5, SeqEqual
<1>7. QED
  BY <1>6 DEF u, a, b, s, w

\* A character that is not a percent sign is printed.
LEMMA CharFirst ==
    ASSUME NEW x \in Nat \ {Percent}, NEW t \in Seq(Nat)
    PROVE  /\ <<x>> \o t \in Seq(Nat) /\ <<x>> \o t # <<>>
           /\ First(<<x>> \o t) = Directive("char", x) /\ GoesOn(<<x>> \o t) = t
<1> DEFINE s == <<x>> \o t
<1>1. s \in Seq(Nat) /\ Len(s) = 1 + Len(t) /\ s[1] = x /\ \A y \in 1..Len(t) : s[y + 1] = t[y]
  OBVIOUS
<1> HIDE DEF s
<1>2. s # <<>> /\ Head(s) = x
  BY <1>1
<1>3. Tail(s) \in Seq(Nat) /\ Len(Tail(s)) = Len(t) /\ \A y \in 1..Len(t) : Tail(s)[y] = t[y]
  BY <1>1, <1>2
<1>4. Tail(s) = t
  BY <1>3, SeqEqual
<1>5. First(s) = Directive("char", x) /\ GoesOn(s) = t
  BY <1>2, <1>4 DEF First, GoesOn
<1>6. QED
  BY <1>1, <1>2, <1>5 DEF s

\* A percent sign and a letter are one conversion.
LEMMA LetterFirst ==
    ASSUME NEW b \in Nat \ {LetterL}, NEW t \in Seq(Nat)
    PROVE  /\ <<Percent, b>> \o t \in Seq(Nat) /\ <<Percent, b>> \o t # <<>>
           /\ b \in Conversions => First(<<Percent, b>> \o t) = Directive("conversion", b)
           /\ b = Percent => First(<<Percent, b>> \o t) = Directive("char", b)
           /\ GoesOn(<<Percent, b>> \o t) = t
<1> DEFINE front == <<Percent, b>>
           s == front \o t
<1>1. Percent \in Nat /\ Percent \notin Conversions
  BY DEF Percent, Conversions, LetterC, LetterS, LetterP, LetterD, LetterI, LetterU, LetterX, LetterUpperX
<1>2. front \in Seq(Nat) /\ Len(front) = 2
  BY <1>1
<1>3. s \in Seq(Nat) /\ Len(s) = 2 + Len(t) /\ s[1] = Percent /\ s[2] = b /\ Len(t) \in Nat
  BY <1>1
<1>4. SubSeq(s, 3, Len(s)) = t
  <2>1. SubSeq(s, Len(front) + 1, Len(s)) = t
    <3> HIDE DEF front
    <3> QED
      BY <1>2, AfterFront
  <2>2. Len(front) + 1 = 3
    BY <1>2
  <2> HIDE DEF s, front
  <2>3. QED
    BY <2>1, <2>2
<1> HIDE DEF s
<1>5. s # <<>> /\ Head(s) = Percent
  BY <1>3
<1>6. ~IsLong(s) /\ FirstLetter(s) = b
  BY <1>3 DEF IsLong, FirstLetter
<1>7. GoesOn(s) = t
  BY <1>4, <1>5, <1>6 DEF GoesOn
<1>8. First(s) = Directive(FirstKind(s), b)
  BY <1>5, <1>6 DEF First
<1>9. b \in Conversions => FirstKind(s) = "conversion"
  BY <1>6 DEF FirstKind
<1>10. b = Percent => FirstKind(s) = "char"
  BY <1>1, <1>6 DEF FirstKind
<1>11. QED
  BY <1>3, <1>5, <1>7, <1>8, <1>9, <1>10 DEF s

\* %ld is one conversion.
LEMMA LongFirst ==
    ASSUME NEW t \in Seq(Nat)
    PROVE  /\ <<Percent, LetterL, LetterD>> \o t \in Seq(Nat)
           /\ <<Percent, LetterL, LetterD>> \o t # <<>>
           /\ First(<<Percent, LetterL, LetterD>> \o t) = Directive("long", LetterD)
           /\ GoesOn(<<Percent, LetterL, LetterD>> \o t) = t
<1> DEFINE front == <<Percent, LetterL, LetterD>>
           s == front \o t
<1>1. Percent \in Nat /\ LetterL \in Nat /\ LetterD \in Nat
  BY DEF Percent, LetterL, LetterD
<1>2. front \in Seq(Nat) /\ Len(front) = 3
  BY <1>1
<1>3. /\ s \in Seq(Nat) /\ Len(s) = 3 + Len(t) /\ s[1] = Percent /\ s[2] = LetterL /\ s[3] = LetterD
      /\ Len(t) \in Nat
  BY <1>1
<1>4. SubSeq(s, 4, Len(s)) = t
  <2>1. SubSeq(s, Len(front) + 1, Len(s)) = t
    <3> HIDE DEF front
    <3> QED
      BY <1>2, AfterFront
  <2>2. Len(front) + 1 = 4
    BY <1>2
  <2> HIDE DEF s, front
  <2>3. QED
    BY <2>1, <2>2
<1> HIDE DEF s
<1>5. s # <<>> /\ Head(s) = Percent
  BY <1>3
<1>6. IsLong(s) /\ FirstLetter(s) = LetterD
  BY <1>3 DEF IsLong, FirstLetter
<1>7. GoesOn(s) = t
  BY <1>4, <1>5, <1>6 DEF GoesOn
<1>8. First(s) = Directive("long", LetterD)
  BY <1>5, <1>6 DEF First, FirstKind
<1>9. QED
  BY <1>3, <1>5, <1>7, <1>8 DEF s

(* The directive that a part of a format becomes. *)
Dir(part) ==
    CASE part[1] = "text" -> Directive("char", part[2])
      [] part[1] = "%%" -> Directive("char", Percent)
      [] part[1] = "%ld" -> Directive("long", LetterD)
      [] part[1] = "%c" -> Directive("conversion", LetterC)
      [] part[1] = "%s" -> Directive("conversion", LetterS)
      [] part[1] = "%d" -> Directive("conversion", LetterD)
      [] part[1] = "%i" -> Directive("conversion", LetterI)
      [] part[1] = "%u" -> Directive("conversion", LetterU)
      [] part[1] = "%x" -> Directive("conversion", LetterX)
      [] part[1] = "%X" -> Directive("conversion", LetterUpperX)
      [] part[1] = "%p" -> Directive("conversion", LetterP)

(* The kinds of parts. *)
PartKinds == {"text", "%%", "%c", "%s"} \cup Numeric
(* The parts formats are made of: a text does not begin a conversion. *)
FormatParts ==
    ({"text"} \X (Nat \ {Percent})) \cup ({"%%", "%c"} \X Nat) \cup ({"%s"} \X Seq(Nat))
    \cup ({"%s"} \X {NullString}) \cup (Numeric \X (-LongMax..LongMax))

\* The kinds of parts, and what their values are.
LEMMA PartIs ==
    ASSUME NEW part \in FormatParts
    PROVE  /\ part[1] \in PartKinds
           /\ part[1] = "text" => part[2] \in Nat \ {Percent}
           /\ part[1] = "%c" => part[2] \in Nat
           /\ part[1] = "%s" => part[2] = NullString \/ part[2] \in Seq(Nat)
           /\ part[1] \in Numeric => part[2] \in -LongMax..LongMax
<1>1. CASE part \in {"text"} \X (Nat \ {Percent})
  <2>1. part[1] = "text" /\ part[2] \in Nat \ {Percent}
    BY <1>1
  <2>2. QED
    BY <2>1 DEF PartKinds, Numeric
<1>2. CASE part \in {"%%", "%c"} \X Nat
  <2>1. part[1] \in {"%%", "%c"} /\ part[2] \in Nat
    BY <1>2
  <2>2. QED
    BY <2>1 DEF PartKinds, Numeric
<1>3. CASE part \in ({"%s"} \X Seq(Nat)) \cup ({"%s"} \X {NullString})
  <2>1. part[1] = "%s" /\ (part[2] = NullString \/ part[2] \in Seq(Nat))
    BY <1>3
  <2>2. QED
    BY <2>1 DEF PartKinds, Numeric
<1>4. CASE part \in Numeric \X (-LongMax..LongMax)
  <2>1. part[1] \in Numeric /\ part[2] \in -LongMax..LongMax
    BY <1>4
  <2>2. QED
    BY <2>1 DEF PartKinds, Numeric
<1>5. QED
  BY <1>1, <1>2, <1>3, <1>4 DEF FormatParts

\* The parts of MCLibft are among them.
LEMMA PartsAreFormatParts ==
    ASSUME NEW part \in Parts, part # <<"text", Percent>> PROVE part \in FormatParts
<1>1. Letters \subseteq Nat
  BY LettersAssumption
<1>2. \A s \in Strings(Letters, 1) : s \in Seq(Nat)
  <2>1. ASSUME NEW s \in Strings(Letters, 1) PROVE s \in Seq(Nat)
    <3>1. s \in Seq(Letters)
      BY StringsAreSequences
    <3>2. \A x \in 1..Len(s) : s[x] \in Letters
      BY <3>1
    <3>3. \A x \in 1..Len(s) : s[x] \in Nat
      BY <1>1, <3>2
    <3>4. Len(s) \in Nat /\ s = [x \in 1..Len(s) |-> s[x]]
      BY <3>1
    <3>5. QED
      BY <3>3, <3>4
  <2>2. QED
    BY <2>1
<1>3. \A x \in Numbers : x \in -LongMax..LongMax
  <2>1. LongMax \in Nat
    <3>1. PICK h, m, top, times : WidthsAre(h, m, top, times)
      BY Widths
    <3>2. QED
      BY <3>1 DEF WidthsAre
  <2>2. \A x \in Magnitudes : x \in 0..LongMax
    BY MagnitudesAssumption
  <2>3. QED
    BY <2>1, <2>2 DEF Numbers
<1>4. CASE part \in {"text", "%%", "%c"} \X Letters
  <2>1. PICK kind \in {"text", "%%", "%c"}, x \in Letters : part = <<kind, x>>
    BY <1>4
  <2>2. x \in Nat /\ (kind = "text" => x # Percent)
    BY <1>1, <2>1
  <2>3. part \in ({"text"} \X (Nat \ {Percent})) \cup ({"%%", "%c"} \X Nat)
    BY <2>1, <2>2
  <2>4. QED
    BY <2>3 DEF FormatParts
<1>5. CASE part \in ({"%s"} \X Strings(Letters, 1)) \cup ({"%s"} \X {NullString})
  <2>1. part \in ({"%s"} \X Seq(Nat)) \cup ({"%s"} \X {NullString})
    BY <1>2, <1>5
  <2>2. QED
    BY <2>1 DEF FormatParts
<1>6. CASE part \in Numeric \X Numbers
  <2>1. part \in Numeric \X (-LongMax..LongMax)
    BY <1>3, <1>6
  <2>2. QED
    BY <2>1 DEF FormatParts
<1>7. QED
  BY <1>4, <1>5, <1>6 DEF Parts

\* A part of a format is one step of the loop.
LEMMA PartDirected ==
    ASSUME NEW part \in FormatParts, NEW t \in Seq(Nat)
    PROVE  /\ Format(part) \in Seq(Nat) /\ Format(part) \o t \in Seq(Nat)
           /\ Directives(Format(part) \o t) = <<Dir(part)>> \o Directives(t)
<1> DEFINE k == part[1]
           s == Format(part) \o t
<1>1. k \in PartKinds /\ (k = "text" => part[2] \in Nat \ {Percent})
  BY PartIs
<1>2. /\ Format(part) \in Seq(Nat) /\ s \in Seq(Nat) /\ s # <<>>
      /\ First(s) = Dir(part) /\ GoesOn(s) = t
  <2>0. /\ Percent \in Nat /\ Percent # LetterL /\ LetterL \in Nat /\ LetterD \in Nat
        /\ \A b \in Conversions : b \in Nat \ {LetterL}
    BY DEF Percent, Conversions, LetterL, LetterC, LetterS, LetterP, LetterD, LetterI, LetterU, LetterX, LetterUpperX
  <2>1. CASE k = "text"
    <3>1. Format(part) = <<part[2]>> /\ Dir(part) = Directive("char", part[2])
      BY <2>1 DEF Format, Dir
    <3>2. part[2] \in Nat \ {Percent}
      BY <1>1, <2>1
    <3>3. <<part[2]>> \in Seq(Nat)
      BY <3>2
    <3>4. QED
      BY <3>1, <3>2, <3>3, CharFirst
  <2>2. CASE k = "%%"
    <3>1. Format(part) = <<Percent, Percent>> /\ Dir(part) = Directive("char", Percent)
      BY <2>2 DEF Format, Dir
    <3>2. <<Percent, Percent>> \in Seq(Nat)
      BY <2>0
    <3>3. QED
      BY <2>0, <3>1, <3>2, LetterFirst
  <2>3. CASE k = "%ld"
    <3>1. Format(part) = <<Percent, LetterL, LetterD>> /\ Dir(part) = Directive("long", LetterD)
      BY <2>3 DEF Format, Dir
    <3>2. <<Percent, LetterL, LetterD>> \in Seq(Nat)
      BY <2>0
    <3>3. QED
      BY <3>1, <3>2, LongFirst
  <2>4. ASSUME k \in PartKinds \ {"text", "%%", "%ld"}
        PROVE  \E b \in Conversions : Format(part) = <<Percent, b>> /\ Dir(part) = Directive("conversion", b)
    <3>1. /\ k = "%c" => Format(part) = <<Percent, LetterC>> /\ Dir(part) = Directive("conversion", LetterC)
          /\ k = "%s" => Format(part) = <<Percent, LetterS>> /\ Dir(part) = Directive("conversion", LetterS)
          /\ k = "%d" => Format(part) = <<Percent, LetterD>> /\ Dir(part) = Directive("conversion", LetterD)
          /\ k = "%i" => Format(part) = <<Percent, LetterI>> /\ Dir(part) = Directive("conversion", LetterI)
          /\ k = "%u" => Format(part) = <<Percent, LetterU>> /\ Dir(part) = Directive("conversion", LetterU)
          /\ k = "%x" => Format(part) = <<Percent, LetterX>> /\ Dir(part) = Directive("conversion", LetterX)
          /\ k = "%X" => Format(part) = <<Percent, LetterUpperX>>
                         /\ Dir(part) = Directive("conversion", LetterUpperX)
          /\ k = "%p" => Format(part) = <<Percent, LetterP>> /\ Dir(part) = Directive("conversion", LetterP)
      BY DEF Format, Dir
    <3>2. k \in {"%c", "%s", "%d", "%i", "%u", "%x", "%X", "%p"}
      BY <2>4 DEF PartKinds, Numeric
    <3>3. \A b \in {LetterC, LetterS, LetterP, LetterD, LetterI, LetterU, LetterX, LetterUpperX} :
             b \in Conversions
      BY DEF Conversions
    <3> HIDE DEF k
    <3>4. QED
      BY <3>1, <3>2, <3>3
  <2>5. CASE k \in PartKinds \ {"text", "%%", "%ld"}
    <3>1. PICK b \in Conversions : Format(part) = <<Percent, b>> /\ Dir(part) = Directive("conversion", b)
      BY <2>4, <2>5
    <3>2. b \in Nat \ {LetterL}
      BY <2>0
    <3>3. <<Percent, b>> \in Seq(Nat)
      BY <2>0, <3>2
    <3>4. QED
      BY <3>1, <3>2, <3>3, LetterFirst
  <2>6. QED
    BY <1>1, <2>1, <2>2, <2>3, <2>5
<1>3. QED
  BY <1>2, DirectivesStep

(* What a part of a format prints. *)
Out(part) == Perform(Dir(part), IF Arguments(part) = <<>> THEN 0 ELSE part[2])

(* p prints what the part means and counts it, a long apart. *)
Means(p, part) ==
    /\ p = Printed(p.text, p.count) /\ p.text = Meaning(part) /\ p.count \in Nat
    /\ Meaning(part) \in Seq(Nat)
    /\ part[1] # "%ld" => p.count = Len(Meaning(part))

\* What is printed and counted right.
LEMMA PrintedMeans ==
    ASSUME NEW part, NEW t \in Seq(Nat), Meaning(part) = t PROVE Means(Printed(t, Len(t)), part)
<1>1. Len(t) \in Nat
  OBVIOUS
<1>2. QED
  BY <1>1 DEF Means, Printed

\* The function that each conversion calls.
LEMMA FixNormCalls ==
    ASSUME NEW x
    PROVE  /\ FixNorm(LetterC, x) = PutChar(x) /\ FixNorm(LetterS, x) = PutStr(x)
           /\ FixNorm(LetterP, x) = PutMemory(Unsigned(x, LongBits))
           /\ FixNorm(LetterD, x) = PutInt(Signed(x, IntBits))
           /\ FixNorm(LetterI, x) = PutInt(Signed(x, IntBits))
           /\ FixNorm(LetterU, x) = PutUInt(Unsigned(x, IntBits))
           /\ FixNorm(LetterX, x) = PutHexLow(x) /\ FixNorm(LetterUpperX, x) = PutHexUpper(x)
BY DEF FixNorm, LetterC, LetterS, LetterP, LetterD, LetterI, LetterU, LetterX, LetterUpperX

\* Which directives read an argument.
LEMMA PartReads ==
    ASSUME NEW part \in FormatParts
    PROVE  /\ Dir(part).kind \in {"long", "conversion"} => Arguments(part) = <<part[2]>>
           /\ Dir(part).kind \notin {"long", "conversion"} => Arguments(part) = <<>>
<1> DEFINE k == part[1]
<1>1. k \in PartKinds
  BY PartIs
<1>2. CASE k \in {"text", "%%"}
  <2>1. Dir(part).kind = "char" /\ Arguments(part) = <<>>
    BY <1>2 DEF Dir, Directive, Arguments
  <2>2. QED
    BY <2>1
<1>3. CASE k = "%ld"
  <2>1. Dir(part).kind = "long" /\ Arguments(part) = <<part[2]>>
    BY <1>3 DEF Dir, Directive, Arguments
  <2>2. QED
    BY <2>1
<1>4. CASE k \in PartKinds \ {"text", "%%", "%ld"}
  <2>1. Dir(part).kind = "conversion"
    BY <1>4 DEF Dir, Directive, PartKinds, Numeric
  <2>2. Arguments(part) = <<part[2]>>
    BY <1>4 DEF Arguments
  <2>3. QED
    BY <2>1, <2>2
<1>5. QED
  BY <1>1, <1>2, <1>3, <1>4

\* Each conversion prints what its argument means at its width.
LEMMA PartPrints == ASSUME NEW part \in FormatParts PROVE Means(Out(part), part)
<1> DEFINE k == part[1]
           x == part[2]
           out == Out(part)
<1>1. /\ k \in PartKinds /\ (k = "text" => x \in Nat) /\ (k = "%c" => x \in Nat)
      /\ (k = "%s" => x = NullString \/ x \in Seq(Nat))
      /\ (k \in Numeric => x \in -LongMax..LongMax)
  BY PartIs
<1>2. k \in Numeric => x \in Int
  <2>1. PICK h, m, top, times : WidthsAre(h, m, top, times)
    BY Widths
  <2>2. QED
    BY <1>1, <2>1 DEF WidthsAre
<1>3. k \notin {"text", "%%"} => out = Perform(Dir(part), x)
  <2>1. <<x>> # <<>>
    OBVIOUS
  <2>2. QED
    BY <2>1 DEF Out, Arguments
<1>4. \A b, y : Perform(Directive("conversion", b), y) = FixNorm(b, y)
  BY DEF Perform, Directive
<1>5. \A b, y : Perform(Directive("char", b), y) = Printed(<<b>>, 1)
  BY DEF Perform, Directive, PutChar
<1>6. \A b \in Nat : <<b>> \in Seq(Nat) /\ Len(<<b>>) = 1
  OBVIOUS
<1>7. CASE k = "text"
  <2>1. out = Printed(<<x>>, 1) /\ Meaning(part) = <<x>>
    BY <1>5, <1>7 DEF Out, Dir, Meaning
  <2>2. QED
    BY <1>1, <1>6, <1>7, <2>1, PrintedMeans
<1>8. CASE k = "%%"
  <2>1. out = Printed(<<Percent>>, 1) /\ Meaning(part) = <<Percent>>
    BY <1>5, <1>8 DEF Out, Dir, Meaning
  <2>2. Percent \in Nat
    BY DEF Percent
  <2>3. QED
    BY <1>6, <2>1, <2>2, PrintedMeans
<1>9. CASE k = "%c"
  <2>1. Dir(part) = Directive("conversion", LetterC) /\ Meaning(part) = <<x>>
    BY <1>9 DEF Dir, Meaning
  <2>2. FixNorm(LetterC, x) = Printed(<<x>>, 1)
    BY FixNormCalls DEF PutChar
  <2>3. out = Printed(<<x>>, 1)
    BY <1>3, <1>4, <1>9, <2>1, <2>2
  <2>4. QED
    BY <1>1, <1>6, <1>9, <2>1, <2>3, PrintedMeans
<1>10. CASE k = "%s"
  <2> DEFINE null == <<40, 110, 117, 108, 108, 41>>
             t == IF x = NullString THEN null ELSE x
  <2>1. Dir(part) = Directive("conversion", LetterS) /\ Meaning(part) = t
    BY <1>10 DEF Dir, Meaning
  <2>2. null \in Seq(Nat) /\ Len(null) = 6
    OBVIOUS
  <2>3. FixNorm(LetterS, x) = PutStr(x)
    BY FixNormCalls
  <2>4. PutStr(x) = Printed(t, Len(t)) /\ t \in Seq(Nat)
    <3> HIDE DEF null
    <3>1. PutStr(x) = IF x = NullString THEN Printed(null, 6) ELSE Printed(x, Len(x))
      BY DEF PutStr, null
    <3>2. QED
      BY <1>1, <1>10, <2>2, <3>1
  <2> HIDE DEF t
  <2>5. out = Printed(t, Len(t))
    BY <1>3, <1>4, <1>10, <2>1, <2>3, <2>4
  <2>6. QED
    BY <2>1, <2>4, <2>5, PrintedMeans
<1>11. CASE k \in {"%d", "%i"}
  <2> DEFINE y == Signed(x, IntBits)
             t == Decimal(y)
  <2>1. y \in -Power(2, IntBits - 1)..Power(2, IntBits - 1) - 1
    <3>1. IntBits \in Nat \ {0} /\ x \in Int
      BY <1>2, <1>11, WidthsAssumption DEF Numeric
    <3>2. QED
      BY <3>1, SignedIs
  <2>2. Meaning(part) = t /\ Dir(part) \in {Directive("conversion", LetterD), Directive("conversion", LetterI)}
    BY <1>11 DEF Dir, Meaning
  <2>3. FixNorm(LetterD, x) = PutInt(y) /\ FixNorm(LetterI, x) = PutInt(y)
    BY FixNormCalls
  <2> HIDE DEF y
  <2>4. PutInt(y) = Printed(t, Len(t)) /\ t \in Seq(Nat)
    <3>1. t \in Seq(Nat)
      <4>1. CASE y >= 0
        BY <2>1, <4>1, Magnitude, DecimalOfNat
      <4>2. CASE y < 0
        <5> DEFINE z == -y
        <5>1. z \in ULongs \ {0} /\ y \in Int /\ y = -z
          BY <2>1, <4>2, Magnitude
        <5> HIDE DEF z
        <5>2. QED
          BY <5>1, DecimalOfNegative
      <4>3. QED
        BY <2>1, <4>1, <4>2, Magnitude
    <3>2. QED
      BY <2>1, <3>1, PutIntWrites
  <2> HIDE DEF t
  <2>5. out = Printed(t, Len(t))
    BY <1>3, <1>4, <1>11, <2>2, <2>3, <2>4
  <2>6. QED
    BY <2>2, <2>4, <2>5, PrintedMeans
<1>12. CASE k = "%ld"
  <2>1. Dir(part) = Directive("long", LetterD) /\ Meaning(part) = Decimal(x)
    BY <1>12 DEF Dir, Meaning
  <2>2. Perform(Directive("long", LetterD), x) = PutLongInt(Signed(x, LongBits))
    BY DEF Perform, Directive
  <2>3. out = PutLongInt(Signed(x, LongBits))
    BY <1>3, <1>12, <2>1, <2>2
  <2>4. x \in -LongMax..LongMax
    BY <1>1, <1>12 DEF Numeric
  <2>5. out.text = Decimal(x) /\ Decimal(x) \in Seq(Nat) /\ out \in Outputs
    BY <2>3, <2>4, PutLongWrites
  <2>6. out = Printed(out.text, out.count) /\ out.count \in Nat
    BY <2>5 DEF Outputs, Printed
  <2> HIDE DEF out
  <2>7. QED
    BY <1>12, <2>1, <2>5, <2>6 DEF Means, out
<1>13. CASE k = "%u"
  <2> DEFINE y == Unsigned(x, IntBits)
             t == Decimal(y)
  <2>1. y \in ULongs
    BY <1>2, <1>13, HexWrites DEF Numeric
  <2>2. Meaning(part) = t /\ Dir(part) = Directive("conversion", LetterU)
    BY <1>13 DEF Dir, Meaning
  <2>3. FixNorm(LetterU, x) = PutUInt(y)
    BY FixNormCalls
  <2> HIDE DEF y
  <2>4. PutUInt(y) = Printed(t, Len(t)) /\ t \in Seq(Nat)
    BY <2>1, DecimalOfNat
  <2> HIDE DEF t
  <2>5. out = Printed(t, Len(t))
    BY <1>3, <1>4, <1>13, <2>2, <2>3, <2>4
  <2>6. QED
    BY <2>2, <2>4, <2>5, PrintedMeans
<1>14. CASE k = "%x"
  <2> DEFINE y == Unsigned(x, IntBits)
             t == Numeral(y, 16, Lower)
  <2>1. y \in ULongs /\ PutHexLow(x) = Printed(t, Len(t))
    BY <1>2, <1>14, HexWrites DEF Numeric
  <2>2. Meaning(part) = t /\ Dir(part) = Directive("conversion", LetterX)
    BY <1>14 DEF Dir, Meaning
  <2>3. FixNorm(LetterX, x) = PutHexLow(x)
    BY FixNormCalls
  <2> HIDE DEF y
  <2>4. t \in Seq(Nat)
    BY <2>1, Bases, NumeralText
  <2> HIDE DEF t
  <2>5. out = Printed(t, Len(t))
    BY <1>3, <1>4, <1>14, <2>1, <2>2, <2>3
  <2>6. QED
    BY <2>2, <2>4, <2>5, PrintedMeans
<1>15. CASE k = "%X"
  <2> DEFINE y == Unsigned(x, IntBits)
             t == Numeral(y, 16, Upper)
  <2>1. y \in ULongs /\ PutHexUpper(x) = Printed(t, Len(t))
    BY <1>2, <1>15, HexWrites DEF Numeric
  <2>2. Meaning(part) = t /\ Dir(part) = Directive("conversion", LetterUpperX)
    BY <1>15 DEF Dir, Meaning
  <2>3. FixNorm(LetterUpperX, x) = PutHexUpper(x)
    BY FixNormCalls
  <2> HIDE DEF y
  <2>4. t \in Seq(Nat)
    BY <2>1, Bases, NumeralText
  <2> HIDE DEF t
  <2>5. out = Printed(t, Len(t))
    BY <1>3, <1>4, <1>15, <2>1, <2>2, <2>3
  <2>6. QED
    BY <2>2, <2>4, <2>5, PrintedMeans
<1>16. CASE k = "%p"
  <2> DEFINE y == Unsigned(x, LongBits)
             s == Numeral(y, 16, Lower)
             t == <<Zero, 120>> \o s
  <2>1. y \in ULongs
    BY <1>2, <1>16, HexWrites DEF Numeric
  <2>2. Meaning(part) = t /\ Dir(part) = Directive("conversion", LetterP)
    BY <1>16 DEF Dir, Meaning
  <2>3. FixNorm(LetterP, x) = PutMemory(y)
    BY FixNormCalls
  <2> HIDE DEF y
  <2>4. s \in Seq(Nat) /\ PutDigits(y, 16, Lower) = Printed(s, Len(s))
    <3>1. s \in Seq(Nat)
      BY <2>1, Bases, NumeralText
    <3>2. QED
      BY <2>1, <3>1, Bases, PutDigitsWrites
  <2> HIDE DEF s
  <2>5. t \in Seq(Nat) /\ Len(t) = Len(s) + 2
    <3>1. Zero \in Nat
      BY DEF Zero
    <3>2. QED
      BY <2>4, <3>1
  <2>6. PutMemory(y) = Printed(t, Len(s) + 2)
    <3> DEFINE p == PutDigits(y, 16, Lower)
    <3>1. p.text = s /\ p.count = Len(s)
      BY <2>4 DEF Printed
    <3>2. PutMemory(y) = Printed(<<Zero, 120>> \o p.text, p.count + 2)
      BY DEF PutMemory
    <3> HIDE DEF p
    <3>3. QED
      BY <3>1, <3>2
  <2> HIDE DEF t
  <2>7. out = Printed(t, Len(t))
    BY <1>3, <1>4, <1>16, <2>2, <2>3, <2>5, <2>6
  <2>8. QED
    BY <2>2, <2>5, <2>7, PrintedMeans DEF s, y
<1>17. QED
  BY <1>1, <1>7, <1>8, <1>9, <1>10, <1>11, <1>12, <1>13, <1>14, <1>15, <1>16 DEF PartKinds, Numeric

(* F[x] is the first x sequences in one. *)
Flattens(F, seqs, S) ==
    /\ F[0] = <<>> /\ F[Len(seqs)] = FlattenSeq(seqs)
    /\ \A x \in 0..Len(seqs) : F[x] \in Seq(S)
    /\ \A x \in 1..Len(seqs) : F[x] = F[x - 1] \o seqs[x]

\* FlattenSeq joins the sequences one after the other.
LEMMA Flattened ==
    ASSUME NEW S, NEW seqs \in Seq(Seq(S)) PROVE \E F : Flattens(F, seqs, S)
<1> DEFINE w == Len(seqs)
           D == 0..w
           step == [p \in D \X Seq(S) |-> p[2] \o seqs[p[1]]]
<1>1. w \in Nat /\ \A x \in 1..w : seqs[x] \in Seq(S)
  OBVIOUS
<1>2. <<>> \in Seq(S) /\ \A s \in Seq(S) : \A t \in Seq(S) : s \o t \in Seq(S)
  OBVIOUS
<1>3. \A x \in D : \A y \in Seq(S) : step[<<x, y>>] = y \o seqs[x]
  OBVIOUS
<1>4. PICK g \in [D -> Seq(S)] : Steps(g, D, <<>>, step)
  <2>1. D \in SUBSET Nat /\ 0 \in D /\ \A x \in D \ {0} : x - 1 \in D
    BY <1>1
  <2>2. \A x \in D \ {0} : \A y \in Seq(S) : step[<<x, y>>] \in Seq(S)
    <3>1. ASSUME NEW x \in D \ {0}, NEW y \in Seq(S) PROVE step[<<x, y>>] \in Seq(S)
      <4>1. x \in 1..w
        BY <1>1
      <4>2. seqs[x] \in Seq(S)
        BY <1>1, <4>1
      <4> HIDE DEF step, w
      <4>3. QED
        BY <1>2, <1>3, <4>2
    <3>2. QED
      BY <3>1
  <2> HIDE DEF D, step
  <2>3. QED
    BY <1>2, <2>1, <2>2, StepsSolved
<1> HIDE DEF step
<1>5. g[0] = <<>> /\ \A x \in 1..w : g[x] = g[x - 1] \o seqs[x] /\ g[x - 1] \in Seq(S)
  <2>1. g[0] = <<>>
    <3>1. 0 \in D
      BY <1>1
    <3> HIDE DEF D
    <3>2. QED
      BY <1>4, <3>1 DEF Steps
  <2>2. ASSUME NEW x \in 1..w PROVE g[x] = g[x - 1] \o seqs[x] /\ g[x - 1] \in Seq(S)
    <3>1. x \in D /\ x # 0 /\ x - 1 \in D
      BY <1>1
    <3>2. g[x - 1] \in Seq(S)
      BY <1>4, <3>1
    <3> HIDE DEF D
    <3>3. g[x] = step[<<x, g[x - 1]>>]
      BY <1>4, <3>1 DEF Steps
    <3>4. QED
      BY <1>3, <3>1, <3>2, <3>3
  <2>3. QED
    BY <2>1, <2>2
<1>6. g[w] = FlattenSeq(seqs)
  <2>1. CASE w = 0
    <3>1. seqs = <<>>
      BY <2>1
    <3>2. FlattenSeq(seqs) = seqs
      BY <2>1 DEF FlattenSeq
    <3>3. QED
      BY <1>5, <2>1, <3>1, <3>2
  <2>2. CASE w # 0
    <3> DEFINE E == 1..w
               Body(h, x) == IF x = 1 THEN seqs[x] ELSE h[x - 1] \o seqs[x]
               f == CHOOSE f1 : f1 = [x \in E |-> Body(f1, x)]
               h1 == [x \in E |-> g[x]]
    <3>1. FlattenSeq(seqs) = f[w]
      BY <2>2 DEF FlattenSeq
    <3>2. \A x \in E : Body(h1, x) = g[x]
      <4>1. ASSUME NEW x \in E PROVE Body(h1, x) = g[x]
        <5>1. CASE x = 1
          <6>1. g[1] = g[0] \o seqs[1] /\ seqs[1] \in Seq(S) /\ 1 - 1 = 0
            <7>1. 1 \in 1..w
              BY <1>1, <5>1
            <7>2. g[1] = g[1 - 1] \o seqs[1]
              BY <1>5, <7>1
            <7>3. QED
              BY <1>1, <7>1, <7>2
          <6>2. <<>> \o seqs[1] = seqs[1]
            BY <6>1
          <6>3. QED
            BY <1>5, <5>1, <6>1, <6>2
        <5>2. CASE x # 1
          <6>1. x - 1 \in E /\ h1[x - 1] = g[x - 1]
            BY <1>1, <5>2
          <6>2. g[x] = g[x - 1] \o seqs[x]
            BY <1>5
          <6> HIDE DEF h1
          <6>3. QED
            BY <5>2, <6>1, <6>2
        <5>3. QED
          BY <5>1, <5>2
      <4>2. QED
        BY <4>1
    <3>3. h1 = [x \in E |-> Body(h1, x)]
      <4> HIDE DEF Body, E
      <4> QED
        BY <3>2
    <3>4. f = [x \in E |-> Body(f, x)]
      <4> HIDE DEF Body, E, h1
      <4> QED
        BY <3>3
    <3> HIDE DEF f, h1
    <3> DEFINE P == {x \in E : f[x] = g[x]}
    <3>5. E = P
      <4>1. ASSUME NEW x \in E, \A y \in E : y < x => y \in P PROVE x \in P
        <5>1. f[x] = Body(f, x) /\ g[x] = Body(h1, x)
          <6> HIDE DEF Body, E
          <6> QED
            BY <3>2, <3>4
        <5>2. CASE x = 1
          BY <5>1, <5>2
        <5>3. CASE x # 1
          <6>1. x - 1 \in E /\ x - 1 < x
            BY <1>1, <5>3
          <6>2. f[x - 1] = g[x - 1] /\ h1[x - 1] = g[x - 1]
            BY <4>1, <6>1 DEF h1
          <6>3. QED
            BY <5>1, <5>3, <6>2
        <5>4. QED
          BY <5>2, <5>3
      <4>2. P \in SUBSET E /\ E \in SUBSET Nat
        BY <1>1
      <4> HIDE DEF P, E
      <4>3. QED
        BY <4>1, <4>2, Induction
    <3>6. w \in E
      BY <1>1, <2>2
    <3>7. QED
      BY <3>1, <3>5, <3>6
  <2>3. QED
    BY <2>1, <2>2
<1>7. \A x \in 0..w : g[x] \in Seq(S)
  BY <1>4
<1>8. Flattens(g, seqs, S)
  BY <1>5, <1>6, <1>7 DEF Flattens
<1>9. QED
  BY <1>8

(* Each member of F begins the last one. *)
Fronts(F, k) ==
    \A x \in 0..k : Len(F[x]) <= Len(F[k]) /\ \A d \in 1..Len(F[x]) : F[k][d] = F[x][d]

\* What is joined first stays in front.
LEMMA FlattensFront ==
    ASSUME NEW S, NEW seqs \in Seq(Seq(S)), NEW F, Flattens(F, seqs, S)
    PROVE  Fronts(F, Len(seqs))
<1> SUFFICES ASSUME NEW x \in 0..Len(seqs)
             PROVE  /\ Len(F[x]) <= Len(F[Len(seqs)])
                    /\ \A d \in 1..Len(F[x]) : F[Len(seqs)][d] = F[x][d]
  BY DEF Fronts
<1> DEFINE w == Len(seqs)
           D == x..w
           P == {y \in D : Len(F[x]) <= Len(F[y]) /\ \A d \in 1..Len(F[x]) : F[y][d] = F[x][d]}
<1>1. w \in Nat /\ x \in Nat /\ x <= w /\ x \in 0..w /\ \A y \in 1..w : seqs[y] \in Seq(S)
  OBVIOUS
<1>2. /\ \A y \in 0..w : F[y] \in Seq(S)
      /\ \A y \in 1..w : F[y] = F[y - 1] \o seqs[y]
  BY DEF Flattens
<1> HIDE DEF w
<1>3. D = P
  <2>1. ASSUME NEW y \in D, \A z \in D : z < y => z \in P PROVE y \in P
    <3>1. CASE y = x
      <4>1. F[x] \in Seq(S)
        BY <1>1, <1>2
      <4>2. Len(F[x]) <= Len(F[x])
        BY <4>1
      <4>3. QED
        BY <3>1, <4>2
    <3>2. CASE y # x
      <4>1. y - 1 \in D /\ y - 1 < y /\ y \in 1..w /\ y - 1 \in 0..w
        BY <1>1, <3>2
      <4>2. Len(F[x]) <= Len(F[y - 1]) /\ \A d \in 1..Len(F[x]) : F[y - 1][d] = F[x][d]
        BY <2>1, <4>1
      <4> DEFINE s == F[y - 1]
                 t == seqs[y]
                 v == Len(F[x])
      <4>3. F[y] = s \o t /\ s \in Seq(S) /\ t \in Seq(S) /\ v \in Nat
        <5>1. F[y] = s \o t
          BY <1>2, <4>1
        <5>2. s \in Seq(S)
          BY <1>2, <4>1
        <5>3. t \in Seq(S)
          BY <1>1, <4>1
        <5>4. F[x] \in Seq(S)
          BY <1>1, <1>2
        <5>5. v \in Nat
          BY <5>4
        <5>6. QED
          BY <5>1, <5>2, <5>3, <5>5
      <4>4. v <= Len(s) /\ \A d \in 1..v : s[d] = F[x][d]
        BY <4>2
      <4> HIDE DEF s, t, v
      <4>5. Len(s \o t) = Len(s) + Len(t) /\ Len(s) \in Nat /\ Len(t) \in Nat
            /\ \A d \in 1..Len(s) : (s \o t)[d] = s[d]
        BY <4>3
      <4>6. \A d \in 1..v : d \in 1..Len(s)
        BY <4>3, <4>4, <4>5
      <4>7. v <= Len(F[y]) /\ \A d \in 1..v : F[y][d] = F[x][d]
        BY <4>3, <4>4, <4>5, <4>6
      <4>8. QED
        BY <4>7 DEF v
    <3>3. QED
      BY <3>1, <3>2
  <2>2. P \in SUBSET D /\ D \in SUBSET Nat
    BY <1>1
  <2> HIDE DEF P, D
  <2>3. QED
    BY <2>1, <2>2, Induction
<1>4. w \in D
  BY <1>1
<1>5. QED
  BY <1>3, <1>4 DEF w

(* The format, the arguments and the text of the parts together. *)
FormatOf(parts) == FlattenSeq([p \in DOMAIN parts |-> Format(parts[p])])
ArgumentsOf(parts) == FlattenSeq([p \in DOMAIN parts |-> Arguments(parts[p])])
MeaningOf(parts) == FlattenSeq([p \in DOMAIN parts |-> Meaning(parts[p])])

(* The directive of each part. *)
DirectivesOf(parts) == [p \in 1..Len(parts) |-> Dir(parts[p])]

(* The arguments that parts have. *)
ArgumentSet == {part[2] : part \in FormatParts}

\* The parts of a format, one by one.
LEMMA PartsMapped ==
    ASSUME NEW parts \in Seq(FormatParts), NEW S, NEW h, DOMAIN h = 1..Len(parts),
           h = [p \in DOMAIN h |-> h[p]], \A p \in 1..Len(parts) : h[p] \in S
    PROVE  h \in Seq(S) /\ Len(h) = Len(parts) /\ Len(parts) \in Nat
<1>1. Len(parts) \in Nat
  OBVIOUS
<1> DEFINE w == Len(parts)
<1> HIDE DEF w
<1>2. DOMAIN h = 1..w /\ w \in Nat /\ h = [p \in 1..w |-> h[p]] /\ \A p \in 1..w : h[p] \in S
  BY <1>1 DEF w
<1>3. h \in Seq(S) /\ Len(h) = w
  BY <1>2
<1>4. QED
  BY <1>1, <1>3 DEF w

\* The formats, arguments and meanings of the parts are sequences, one for each part.
LEMMA FormatsMapped ==
    ASSUME NEW parts \in Seq(FormatParts)
    PROVE  /\ [p \in DOMAIN parts |-> Format(parts[p])] \in Seq(Seq(Nat))
           /\ Len([p \in DOMAIN parts |-> Format(parts[p])]) = Len(parts)
           /\ [p \in DOMAIN parts |-> Arguments(parts[p])] \in Seq(Seq(ArgumentSet))
           /\ Len([p \in DOMAIN parts |-> Arguments(parts[p])]) = Len(parts)
           /\ [p \in DOMAIN parts |-> Meaning(parts[p])] \in Seq(Seq(Nat))
           /\ Len([p \in DOMAIN parts |-> Meaning(parts[p])]) = Len(parts)
           /\ Len(parts) \in Nat /\ DOMAIN parts = 1..Len(parts)
           /\ \A p \in 1..Len(parts) : parts[p] \in FormatParts
<1> DEFINE fs == [p \in DOMAIN parts |-> Format(parts[p])]
           as == [p \in DOMAIN parts |-> Arguments(parts[p])]
           ms == [p \in DOMAIN parts |-> Meaning(parts[p])]
<1>1. DOMAIN parts = 1..Len(parts) /\ Len(parts) \in Nat /\ \A p \in 1..Len(parts) : parts[p] \in FormatParts
  OBVIOUS
<1>2. \A p \in 1..Len(parts) : Format(parts[p]) \in Seq(Nat) /\ Meaning(parts[p]) \in Seq(Nat)
  <2>1. ASSUME NEW p \in 1..Len(parts)
        PROVE  Format(parts[p]) \in Seq(Nat) /\ Meaning(parts[p]) \in Seq(Nat)
    <3>1. parts[p] \in FormatParts /\ <<>> \in Seq(Nat)
      BY <1>1
    <3>2. Format(parts[p]) \in Seq(Nat)
      BY <3>1, PartDirected
    <3>3. Means(Out(parts[p]), parts[p])
      BY <3>1, PartPrints
    <3>4. QED
      BY <3>2, <3>3 DEF Means
  <2>2. QED
    BY <2>1
<1>3. \A p \in 1..Len(parts) : Arguments(parts[p]) \in Seq(ArgumentSet)
  <2>1. ASSUME NEW p \in 1..Len(parts) PROVE Arguments(parts[p]) \in Seq(ArgumentSet)
    <3>1. parts[p][2] \in ArgumentSet
      BY <1>1 DEF ArgumentSet
    <3>2. <<parts[p][2]>> \in Seq(ArgumentSet) /\ <<>> \in Seq(ArgumentSet)
      BY <3>1
    <3>3. QED
      BY <3>2 DEF Arguments
  <2>2. QED
    BY <2>1
<1>4. fs \in Seq(Seq(Nat)) /\ Len(fs) = Len(parts)
  <2>1. DOMAIN fs = 1..Len(parts) /\ fs = [p \in DOMAIN fs |-> fs[p]]
        /\ \A p \in 1..Len(parts) : fs[p] \in Seq(Nat)
    BY <1>1, <1>2
  <2> HIDE DEF fs
  <2>2. QED
    BY <2>1, PartsMapped
<1>5. as \in Seq(Seq(ArgumentSet)) /\ Len(as) = Len(parts)
  <2>1. DOMAIN as = 1..Len(parts) /\ as = [p \in DOMAIN as |-> as[p]]
        /\ \A p \in 1..Len(parts) : as[p] \in Seq(ArgumentSet)
    BY <1>1, <1>3
  <2> HIDE DEF as
  <2>2. QED
    BY <2>1, PartsMapped
<1>6. ms \in Seq(Seq(Nat)) /\ Len(ms) = Len(parts)
  <2>1. DOMAIN ms = 1..Len(parts) /\ ms = [p \in DOMAIN ms |-> ms[p]]
        /\ \A p \in 1..Len(parts) : ms[p] \in Seq(Nat)
    BY <1>1, <1>2
  <2> HIDE DEF ms
  <2>2. QED
    BY <2>1, PartsMapped
<1>7. QED
  BY <1>1, <1>4, <1>5, <1>6

\* What a part becomes is a directive.
LEMMA DirIsDirective == ASSUME NEW part \in FormatParts PROVE Dir(part) \in DirectiveSet
<1>1. <<>> \in Seq(Nat) /\ Directives(<<>>) = <<>>
  <2>1. <<>> \in Seq(Nat)
    OBVIOUS
  <2>2. QED
    BY <2>1, DirectivesStep
<1> DEFINE d == Dir(part)
           s == Format(part) \o <<>>
<1>2. s \in Seq(Nat) /\ Directives(s) = <<d>> \o <<>>
  <2>1. Format(part) \o <<>> \in Seq(Nat) /\ Directives(Format(part) \o <<>>) = <<Dir(part)>> \o Directives(<<>>)
    BY <1>1, PartDirected
  <2>2. QED
    BY <1>1, <2>1
<1>3. Directives(s) \in Seq(DirectiveSet)
  BY <1>2, DirectivesStep
<1> HIDE DEF d, s
<1>4. <<d>> \o <<>> = <<d>> /\ Len(<<d>>) = 1 /\ <<d>>[1] = d
  OBVIOUS
<1>5. \A q \in Seq(DirectiveSet) : Len(q) = 1 => q[1] \in DirectiveSet
  OBVIOUS
<1>6. QED
  BY <1>2, <1>3, <1>4, <1>5 DEF d

\* The steps of the loop are the directives of the parts, one each.
LEMMA FormatDirected ==
    ASSUME NEW parts \in Seq(FormatParts)
    PROVE  Directives(FormatOf(parts)) = DirectivesOf(parts)
<1> DEFINE w == Len(parts)
           D == 0..w
           fs == [p \in DOMAIN parts |-> Format(parts[p])]
           ds == DirectivesOf(parts)
<1>1. /\ w \in Nat /\ fs \in Seq(Seq(Nat)) /\ Len(fs) = w
      /\ \A p \in 1..w : parts[p] \in FormatParts /\ fs[p] = Format(parts[p])
  BY FormatsMapped
<1>2. ds = [p \in 1..w |-> ds[p]] /\ \A p \in 1..w : ds[p] = Dir(parts[p]) /\ ds[p] \in DirectiveSet
  BY <1>1, DirIsDirective DEF DirectivesOf
<1>3. FormatOf(parts) = FlattenSeq(fs)
  BY DEF FormatOf
<1> HIDE DEF fs, ds, w
<1>4. PICK F : Flattens(F, fs, Nat)
  BY <1>1, Flattened
<1>5. /\ F[0] = <<>> /\ F[w] = FormatOf(parts) /\ (\A x \in D : F[x] \in Seq(Nat))
      /\ \A x \in 1..w : F[x] = F[x - 1] \o fs[x]
  BY <1>1, <1>3, <1>4 DEF Flattens
<1> DEFINE First0(x) == [p \in 1..x |-> ds[p]]
<1>6. \A x \in D : First0(x) \in Seq(DirectiveSet)
  <2>1. ASSUME NEW x \in D PROVE First0(x) \in Seq(DirectiveSet)
    <3>1. x \in Nat /\ \A p \in 1..x : ds[p] \in DirectiveSet
      BY <1>1, <1>2
    <3>2. QED
      BY <3>1
  <2>2. QED
    BY <2>1
<1>7. \A x \in 1..w : First0(x) = First0(x - 1) \o <<ds[x]>>
  <2>1. ASSUME NEW x \in 1..w PROVE First0(x) = First0(x - 1) \o <<ds[x]>>
    <3> DEFINE q == First0(x - 1)
               u == q \o <<ds[x]>>
    <3>1. x - 1 \in D /\ x - 1 \in Nat /\ x \in Nat /\ x \in D /\ ds[x] \in DirectiveSet
      BY <1>1, <1>2
    <3>2. q \in Seq(DirectiveSet) /\ Len(q) = x - 1 /\ \A p \in 1..(x - 1) : q[p] = ds[p]
      BY <1>6, <3>1
    <3> HIDE DEF q
    <3>3. /\ u \in Seq(DirectiveSet) /\ Len(u) = x
          /\ \A p \in 1..(x - 1) : u[p] = ds[p]
          /\ u[x] = ds[x]
      BY <3>1, <3>2, AppendedIs
    <3>4. \A p \in 1..x : u[p] = ds[p]
      BY <3>1, <3>3
    <3>5. u = [p \in 1..x |-> u[p]]
      BY <3>3
    <3> HIDE DEF u
    <3>6. u = First0(x)
      BY <3>4, <3>5
    <3>7. QED
      BY <3>6 DEF u, q
  <2>2. QED
    BY <2>1
<1> DEFINE Rest(x) == \A t \in Seq(Nat) : Directives(F[x] \o t) = First0(x) \o Directives(t)
           P == {x \in D : Rest(x)}
<1>8. D = P
  <2>1. ASSUME NEW x \in D, \A z \in D : z < x => z \in P PROVE x \in P
    <3>1. ASSUME NEW t \in Seq(Nat), x = 0 PROVE Directives(F[x] \o t) = First0(x) \o Directives(t)
      <4>1. F[x] \o t = t
        <5>1. <<>> \o t = t
          OBVIOUS
        <5>2. F[x] = <<>>
          BY <1>5, <3>1
        <5>3. QED
          BY <5>1, <5>2
      <4>2. First0(x) = <<>>
        BY <3>1
      <4>3. Directives(t) \in Seq(DirectiveSet)
        BY DirectivesStep
      <4> HIDE DEF First0
      <4>4. <<>> \o Directives(t) = Directives(t)
        BY <4>3
      <4>5. QED
        BY <4>1, <4>2, <4>4
    <3>2. ASSUME NEW t \in Seq(Nat), x # 0 PROVE Directives(F[x] \o t) = First0(x) \o Directives(t)
      <4> DEFINE f == Format(parts[x])
                 a == F[x - 1]
                 r == f \o t
                 e == Directives(t)
                 q == First0(x - 1)
                 v == ds[x]
      <4>1. x \in 1..w /\ x - 1 \in D /\ x - 1 < x
        BY <1>1, <3>2
      <4>2. f \in Seq(Nat) /\ r \in Seq(Nat) /\ Directives(r) = <<v>> \o e
        BY <1>1, <1>2, <4>1, PartDirected
      <4>3. F[x] = a \o f /\ a \in Seq(Nat)
        BY <1>1, <1>5, <4>1
      <4>4. e \in Seq(DirectiveSet) /\ q \in Seq(DirectiveSet) /\ v \in DirectiveSet
        BY <1>2, <1>6, <4>1, DirectivesStep
      <4>5. First0(x) = q \o <<v>>
        BY <1>7, <4>1
      <4>6. Directives(a \o r) = q \o Directives(r)
        <5>1. x - 1 \in P
          BY <2>1, <4>1
        <5>2. Rest(x - 1)
          BY <5>1
        <5> HIDE DEF First0, r, P
        <5>3. QED
          BY <4>2, <5>2
      <4> HIDE DEF f, a, e, q, v, First0
      <4>7. (a \o f) \o t = a \o r
        BY <4>2, <4>3, TextsRegroup
      <4> HIDE DEF r
      <4>8. q \o (<<v>> \o e) = (q \o <<v>>) \o e
        BY <4>4
      <4>9. Directives(F[x] \o t) = (q \o <<v>>) \o e
        BY <4>2, <4>3, <4>6, <4>7, <4>8
      <4>10. QED
        BY <4>5, <4>9 DEF e
    <3> HIDE DEF First0, D
    <3>3. QED
      BY <3>1, <3>2
  <2>2. P \in SUBSET D /\ D \in SUBSET Nat
    BY <1>1
  <2> HIDE DEF P, D
  <2>3. QED
    BY <2>1, <2>2, Induction
<1>9. w \in D /\ <<>> \in Seq(Nat) /\ Directives(<<>>) = <<>>
  BY <1>1, DirectivesStep
<1>10. Directives(F[w] \o <<>>) = First0(w) \o <<>>
  <2>1. Rest(w)
    BY <1>8, <1>9
  <2> HIDE DEF First0
  <2>2. QED
    BY <1>9, <2>1
<1>11. F[w] \o <<>> = F[w]
  BY <1>5, <1>9
<1>12. First0(w) \o <<>> = First0(w)
  <2>1. First0(w) \in Seq(DirectiveSet)
    BY <1>6, <1>9
  <2> HIDE DEF First0
  <2>2. QED
    BY <2>1
<1>13. First0(w) = ds
  BY <1>2
<1>14. QED
  BY <1>5, <1>10, <1>11, <1>12, <1>13 DEF ds

\* Where an argument is found: used is the number of arguments of the parts so far.
LEMMA ArgumentsUsed ==
    ASSUME NEW parts \in Seq(FormatParts)
    PROVE  \E len \in [0..Len(parts) -> Nat] :
              /\ len[0] = 0
              /\ \A x \in 1..Len(parts) :
                    IF Dir(parts[x]).kind \in {"long", "conversion"}
                    THEN len[x] = len[x - 1] + 1 /\ ArgumentsOf(parts)[len[x]] = parts[x][2]
                    ELSE len[x] = len[x - 1]
<1> DEFINE w == Len(parts)
           as == [p \in DOMAIN parts |-> Arguments(parts[p])]
           reads(x) == Dir(parts[x]).kind \in {"long", "conversion"}
<1>1. /\ w \in Nat /\ as \in Seq(Seq(ArgumentSet)) /\ Len(as) = w
      /\ \A p \in 1..w : parts[p] \in FormatParts /\ as[p] = Arguments(parts[p])
  BY FormatsMapped
<1>2. ArgumentsOf(parts) = FlattenSeq(as)
  BY DEF ArgumentsOf
<1> HIDE DEF as, w
<1>3. PICK F : Flattens(F, as, ArgumentSet)
  BY <1>1, Flattened
<1>4. /\ F[0] = <<>> /\ F[w] = ArgumentsOf(parts) /\ (\A x \in 0..w : F[x] \in Seq(ArgumentSet))
      /\ \A x \in 1..w : F[x] = F[x - 1] \o as[x]
  BY <1>1, <1>2, <1>3 DEF Flattens
<1>5. \A x \in 0..w : Len(F[x]) \in Nat
  <2>1. ASSUME NEW x \in 0..w PROVE Len(F[x]) \in Nat
    <3>1. F[x] \in Seq(ArgumentSet)
      BY <1>4
    <3>2. QED
      BY <3>1
  <2>2. QED
    BY <2>1
<1> DEFINE len == [x \in 0..w |-> Len(F[x])]
<1>6. len[0] = 0
  BY <1>1, <1>4
<1>7. ASSUME NEW x \in 1..w, ~reads(x) PROVE len[x] = len[x - 1]
  <2>1. x - 1 \in 0..w /\ x \in 0..w /\ parts[x] \in FormatParts
    <3>1. w \in Nat
      BY <1>1
    <3>2. x - 1 \in 0..w /\ x \in 0..w
      BY <3>1
    <3>3. QED
      BY <1>1, <3>2
  <2>2. as[x] = <<>>
    BY <1>1, <1>7, <2>1, PartReads
  <2>3. F[x - 1] \in Seq(ArgumentSet)
    BY <1>4, <2>1
  <2>4. F[x - 1] \o <<>> = F[x - 1]
    BY <2>3
  <2>5. F[x] = F[x - 1]
    BY <1>4, <2>2, <2>4
  <2>6. QED
    BY <2>1, <2>5
<1>8. ASSUME NEW x \in 1..w, reads(x)
      PROVE  len[x] = len[x - 1] + 1 /\ ArgumentsOf(parts)[len[x]] = parts[x][2]
  <2> DEFINE y == parts[x][2]
             q == F[x - 1]
  <2>1. x - 1 \in 0..w /\ x \in 0..w /\ parts[x] \in FormatParts
    <3>1. w \in Nat
      BY <1>1
    <3>2. x - 1 \in 0..w /\ x \in 0..w
      BY <3>1
    <3>3. QED
      BY <1>1, <3>2
  <2>2. as[x] = <<y>>
    BY <1>1, <1>8, <2>1, PartReads
  <2>3. q \in Seq(ArgumentSet) /\ y \in ArgumentSet
    BY <1>4, <2>1 DEF ArgumentSet
  <2>4. F[x] = q \o <<y>>
    BY <1>4, <2>2
  <2>5. len[x] = Len(F[x]) /\ len[x - 1] = Len(q)
    BY <2>1
  <2> HIDE DEF q, y, len
  <2>6. Len(F[x]) = Len(q) + 1 /\ F[x][Len(q) + 1] = y /\ Len(q) \in Nat
    <3>1. Len(q) \in Nat
      BY <2>3
    <3>2. QED
      BY <2>3, <2>4, <3>1, AppendedIs
  <2>7. \A d \in 1..Len(F[x]) : F[w][d] = F[x][d]
    <3>1. x \in 0..Len(as)
      BY <1>1, <2>1
    <3>2. \A d \in 1..Len(F[x]) : F[Len(as)][d] = F[x][d]
      <4>1. as \in Seq(Seq(ArgumentSet)) /\ Flattens(F, as, ArgumentSet)
        BY <1>1, <1>3
      <4>2. Fronts(F, Len(as))
        BY <4>1, FlattensFront
      <4>3. QED
        BY <3>1, <4>2 DEF Fronts
    <3>3. QED
      BY <1>1, <3>2
  <2>8. Len(F[x]) \in 1..Len(F[x])
    BY <2>6
  <2>9. F[w][Len(F[x])] = y
    BY <2>6, <2>7, <2>8
  <2>10. QED
    BY <1>4, <2>5, <2>6, <2>9 DEF y
<1>9. len \in [0..w -> Nat]
  BY <1>5
<1> HIDE DEF len
<1>10. /\ len[0] = 0
       /\ \A x \in 1..w : IF reads(x) THEN len[x] = len[x - 1] + 1 /\ ArgumentsOf(parts)[len[x]] = parts[x][2]
                          ELSE len[x] = len[x - 1]
  BY <1>6, <1>7, <1>8
<1>11. QED
  BY <1>9, <1>10 DEF w

\* ft_printf writes what each part means, one after the other, and counts what it writes,
\* unless a long is among the parts.
LEMMA PrintfMeans ==
    ASSUME NEW parts \in Seq(FormatParts)
    PROVE  /\ Printf(FormatOf(parts), ArgumentsOf(parts)).text = MeaningOf(parts)
           /\ (\A p \in DOMAIN parts : parts[p][1] # "%ld") =>
                 Printf(FormatOf(parts), ArgumentsOf(parts)).count = Len(MeaningOf(parts))
<1> DEFINE w == Len(parts)
           D == 0..w
           str == FormatOf(parts)
           args == ArgumentsOf(parts)
           ds == DirectivesOf(parts)
           Reads(k) == ds[k].kind \in {"long", "conversion"}
           used == CHOOSE f : f = [k \in 0..Len(ds) |->
                      IF k = 0 THEN 0 ELSE f[k - 1] + (IF Reads(k) THEN 1 ELSE 0)]
           printed == CHOOSE f : f = [k \in 0..Len(ds) |->
                         IF k = 0 THEN Printed(<<>>, 0)
                         ELSE Then(f[k - 1], Perform(ds[k], IF Reads(k) THEN args[used[k]] ELSE 0))]
<1>1. Printf(str, args) = printed[Len(ds)]
  <2>1. Directives(str) = ds
    BY FormatDirected
  <2> HIDE DEF str, args, ds
  <2>2. QED
    BY <2>1 DEF Printf
<1>2. /\ w \in Nat /\ Len(ds) = w /\ DOMAIN parts = 1..w
      /\ \A p \in 1..w : parts[p] \in FormatParts /\ ds[p] = Dir(parts[p])
  <2>1. w \in Nat /\ DOMAIN parts = 1..w /\ \A p \in 1..w : parts[p] \in FormatParts
    BY FormatsMapped
  <2>2. ds = [p \in 1..w |-> Dir(parts[p])]
    BY DEF DirectivesOf
  <2> HIDE DEF ds, w
  <2>3. Len(ds) = w /\ \A p \in 1..w : ds[p] = Dir(parts[p])
    BY <2>1, <2>2
  <2>4. QED
    BY <2>1, <2>3
<1>3. PICK len \in [D -> Nat] :
         /\ len[0] = 0
         /\ \A x \in 1..w :
               IF Dir(parts[x]).kind \in {"long", "conversion"}
               THEN len[x] = len[x - 1] + 1 /\ args[len[x]] = parts[x][2]
               ELSE len[x] = len[x - 1]
  <2> HIDE DEF args
  <2> QED
    BY ArgumentsUsed DEF args
<1> HIDE DEF w, str, args, ds
<1> DEFINE Body(f, k) == IF k = 0 THEN 0 ELSE f[k - 1] + (IF Reads(k) THEN 1 ELSE 0)
<1>4. len = [k \in D |-> Body(len, k)]
  <2>1. ASSUME NEW k \in D PROVE len[k] = Body(len, k)
    <3>1. CASE k = 0
      BY <1>3, <3>1
    <3>2. CASE k # 0
      <4>1. k \in 1..w /\ k - 1 \in D
        BY <1>2, <3>2
      <4>2. len[k - 1] \in Nat /\ ds[k] = Dir(parts[k])
        BY <1>2, <1>3, <4>1
      <4>3. CASE Reads(k)
        <5>1. len[k] = len[k - 1] + 1
          BY <1>3, <4>1, <4>2, <4>3
        <5>2. QED
          BY <3>2, <4>3, <5>1
      <4>4. CASE ~Reads(k)
        <5>1. len[k] = len[k - 1]
          BY <1>3, <4>1, <4>2, <4>4
        <5>2. QED
          BY <3>2, <4>2, <4>4, <5>1
      <4>5. QED
        BY <4>3, <4>4
    <3>3. QED
      BY <3>1, <3>2
  <2> HIDE DEF Body, D
  <2>2. QED
    BY <1>3, <2>1
<1>5. used = [k \in D |-> Body(used, k)]
  <2>1. used = CHOOSE f : f = [k \in D |-> Body(f, k)]
    BY <1>2
  <2> HIDE DEF Body, used, D
  <2>2. QED
    BY <1>4, <2>1
<1> HIDE DEF used
<1> DEFINE P == {x \in D : used[x] = len[x]}
<1>6. D = P
  <2>1. ASSUME NEW x \in D, \A z \in D : z < x => z \in P PROVE x \in P
    <3>1. used[x] = Body(used, x) /\ len[x] = Body(len, x)
      <4> HIDE DEF Body, D
      <4> QED
        BY <1>4, <1>5
    <3>2. CASE x = 0
      BY <3>1, <3>2
    <3>3. CASE x # 0
      <4>1. x - 1 \in D /\ x - 1 < x
        BY <1>2, <3>3
      <4>2. used[x - 1] = len[x - 1]
        BY <2>1, <4>1
      <4>3. QED
        BY <3>1, <3>3, <4>2
    <3>4. QED
      BY <3>2, <3>3
  <2>2. P \in SUBSET D /\ D \in SUBSET Nat
    BY <1>2
  <2> HIDE DEF P, D
  <2>3. QED
    BY <2>1, <2>2, Induction
<1> DEFINE Given(k) == IF Reads(k) THEN args[used[k]] ELSE 0
<1>7. \A k \in 1..w : Perform(ds[k], Given(k)) = Out(parts[k])
  <2>1. ASSUME NEW k \in 1..w PROVE Perform(ds[k], Given(k)) = Out(parts[k])
    <3>1. k \in D /\ ds[k] = Dir(parts[k]) /\ parts[k] \in FormatParts
      BY <1>2
    <3>2. used[k] = len[k]
      BY <1>6, <3>1
    <3>3. CASE Reads(k)
      <4>1. args[len[k]] = parts[k][2]
        BY <1>3, <3>1, <3>3
      <4>2. Arguments(parts[k]) = <<parts[k][2]>>
        BY <3>1, <3>3, PartReads
      <4>3. <<parts[k][2]>> # <<>>
        OBVIOUS
      <4>4. QED
        BY <3>1, <3>2, <3>3, <4>1, <4>2, <4>3 DEF Out
    <3>4. CASE ~Reads(k)
      <4>1. Arguments(parts[k]) = <<>>
        BY <3>1, <3>4, PartReads
      <4>2. QED
        BY <3>1, <3>4, <4>1 DEF Out
    <3>5. QED
      BY <3>3, <3>4
  <2>2. QED
    BY <2>1
<1>8. \A k \in 1..w : Means(Out(parts[k]), parts[k]) /\ Out(parts[k]) \in Outputs
  <2>1. ASSUME NEW k \in 1..w PROVE Means(Out(parts[k]), parts[k]) /\ Out(parts[k]) \in Outputs
    <3>1. Means(Out(parts[k]), parts[k])
      BY <1>2, PartPrints
    <3>2. Out(parts[k]) \in Outputs
      BY <3>1 DEF Means, Outputs, Printed
    <3>3. QED
      BY <3>1, <3>2
  <2>2. QED
    BY <2>1
<1> DEFINE start0 == Printed(<<>>, 0)
           Body2(f, k) == IF k = 0 THEN start0 ELSE Then(f[k - 1], Perform(ds[k], Given(k)))
           step == [p \in D \X Outputs |-> Then(p[2], Out(parts[p[1]]))]
<1>9. start0 \in Outputs /\ start0.text = <<>> /\ start0.count = 0
  BY DEF Printed, Outputs
<1> HIDE DEF start0
<1>10. PICK g \in [D -> Outputs] : Steps(g, D, start0, step)
  <2>1. D \in SUBSET Nat /\ 0 \in D /\ \A x \in D \ {0} : x - 1 \in D
    BY <1>2
  <2>2. \A x \in D \ {0} : \A y \in Outputs : step[<<x, y>>] \in Outputs
    <3>1. ASSUME NEW x \in D \ {0}, NEW y \in Outputs PROVE step[<<x, y>>] \in Outputs
      <4>1. x \in 1..w
        BY <1>2
      <4>2. Then(y, Out(parts[x])) \in Outputs
        BY <1>8, <4>1, ThenPrints
      <4>3. step[<<x, y>>] = Then(y, Out(parts[x]))
        OBVIOUS
      <4>4. QED
        BY <4>2, <4>3
    <3>2. QED
      BY <3>1
  <2> HIDE DEF D, step
  <2>3. QED
    BY <1>9, <2>1, <2>2, StepsSolved
<1>11. \A x \in D : \A y \in Outputs : step[<<x, y>>] = Then(y, Out(parts[x]))
  OBVIOUS
<1> HIDE DEF step
<1>12. /\ g[0] = start0
       /\ \A x \in 1..w : g[x] = Then(g[x - 1], Out(parts[x])) /\ g[x - 1] \in Outputs
  <2>1. 0 \in D
    BY <1>2
  <2>2. g[0] = start0
    <3> HIDE DEF D
    <3> QED
      BY <1>10, <2>1 DEF Steps
  <2>3. ASSUME NEW x \in 1..w PROVE g[x] = Then(g[x - 1], Out(parts[x])) /\ g[x - 1] \in Outputs
    <3>1. x \in D /\ x - 1 \in D /\ x # 0
      BY <1>2
    <3> HIDE DEF D
    <3>2. g[x - 1] \in Outputs
      BY <1>10, <3>1
    <3>3. g[x] = step[<<x, g[x - 1]>>]
      BY <1>10, <3>1 DEF Steps
    <3>4. QED
      BY <1>11, <3>1, <3>2, <3>3
  <2>4. QED
    BY <2>2, <2>3
<1>13. g = [k \in D |-> Body2(g, k)]
  <2>1. ASSUME NEW k \in D PROVE g[k] = Body2(g, k)
    <3>1. CASE k = 0
      BY <1>12, <3>1
    <3>2. CASE k # 0
      <4>1. k \in 1..w
        BY <1>2, <3>2
      <4> HIDE DEF Given
      <4>2. Perform(ds[k], Given(k)) = Out(parts[k])
        BY <1>7, <4>1
      <4>3. QED
        BY <1>12, <3>2, <4>1, <4>2
    <3>3. QED
      BY <3>1, <3>2
  <2> HIDE DEF Body2, D
  <2>2. QED
    BY <1>10, <2>1
<1>14. printed = [k \in D |-> Body2(printed, k)]
  <2>1. printed = CHOOSE f : f = [k \in D |-> Body2(f, k)]
    BY <1>2 DEF start0
  <2> HIDE DEF Body2, printed, D
  <2>2. QED
    BY <1>13, <2>1
<1> HIDE DEF printed
<1> DEFINE ms == [p \in DOMAIN parts |-> Meaning(parts[p])]
<1>15. /\ ms \in Seq(Seq(Nat)) /\ Len(ms) = w /\ MeaningOf(parts) = FlattenSeq(ms)
       /\ \A p \in 1..w : ms[p] = Meaning(parts[p])
  <2>1. ms \in Seq(Seq(Nat)) /\ Len(ms) = w
    BY FormatsMapped DEF w
  <2>2. MeaningOf(parts) = FlattenSeq(ms)
    BY DEF MeaningOf
  <2>3. \A p \in 1..w : ms[p] = Meaning(parts[p])
    BY <1>2
  <2> HIDE DEF ms
  <2>4. QED
    BY <2>1, <2>2, <2>3
<1> HIDE DEF ms
<1>16. PICK T : Flattens(T, ms, Nat)
  BY <1>15, Flattened
<1>17. /\ T[0] = <<>> /\ T[w] = MeaningOf(parts) /\ (\A x \in D : T[x] \in Seq(Nat))
       /\ \A x \in 1..w : T[x] = T[x - 1] \o Meaning(parts[x])
  BY <1>15, <1>16 DEF Flattens
<1> DEFINE plain == \A p \in 1..w : parts[p][1] # "%ld"
           Q == {x \in D : /\ printed[x] \in Outputs /\ printed[x].text = T[x]
                           /\ plain => printed[x].count = Len(T[x])}
<1>18. D = Q
  <2>1. ASSUME NEW x \in D, \A z \in D : z < x => z \in Q PROVE x \in Q
    <3>1. printed[x] = Body2(printed, x)
      <4> HIDE DEF Body2, D
      <4> QED
        BY <1>14
    <3>2. CASE x = 0
      <4>1. printed[x] = start0 /\ T[x] = <<>>
        BY <1>17, <3>1, <3>2
      <4>2. Len(<<>>) = 0
        OBVIOUS
      <4>3. QED
        BY <1>9, <4>1, <4>2
    <3>3. CASE x # 0
      <4> DEFINE p == printed[x - 1]
                 o == Out(parts[x])
                 m == Meaning(parts[x])
                 s == T[x - 1]
      <4>1. x - 1 \in D /\ x - 1 < x /\ x \in 1..w
        BY <1>2, <3>3
      <4>2. p \in Outputs /\ p.text = s /\ (plain => p.count = Len(s))
        <5>1. x - 1 \in Q
          BY <2>1, <4>1
        <5> HIDE DEF plain
        <5>2. QED
          BY <5>1
      <4>3. printed[x] = Then(p, o)
        <5> HIDE DEF Given
        <5>1. Perform(ds[x], Given(x)) = o
          BY <1>7, <4>1
        <5>2. QED
          BY <3>1, <3>3, <5>1
      <4>4. o \in Outputs /\ o.text = m /\ m \in Seq(Nat) /\ (parts[x][1] # "%ld" => o.count = Len(m))
        BY <1>8, <4>1 DEF Means
      <4>5. T[x] = s \o m /\ s \in Seq(Nat)
        BY <1>17, <4>1
      <4>6. plain => parts[x][1] # "%ld"
        BY <4>1
      <4> HIDE DEF p, o, m, s, plain
      <4>7. /\ printed[x] \in Outputs /\ printed[x].text = s \o m
            /\ printed[x].count = p.count + o.count
        BY <4>2, <4>3, <4>4, ThenPrints
      <4>8. Len(s \o m) = Len(s) + Len(m)
        BY <4>4, <4>5
      <4>9. plain => printed[x].count = Len(T[x])
        BY <4>2, <4>4, <4>5, <4>6, <4>7, <4>8
      <4>10. printed[x] \in Outputs /\ printed[x].text = T[x]
        BY <4>5, <4>7
      <4> HIDE DEF D
      <4>11. QED
        BY <4>9, <4>10
    <3>4. QED
      BY <3>2, <3>3
  <2>2. Q \in SUBSET D /\ D \in SUBSET Nat
    BY <1>2
  <2> HIDE DEF Q, D
  <2>3. QED
    BY <2>1, <2>2, Induction
<1>19. w \in D
  BY <1>2
<1>20. printed[w].text = T[w] /\ (plain => printed[w].count = Len(T[w]))
  <2> HIDE DEF plain, D
  <2> QED
    BY <1>18, <1>19
<1>21. Printf(str, args) = printed[w]
  BY <1>1, <1>2 DEF printed
<1> HIDE DEF D
<1>22. QED
  BY <1>2, <1>17, <1>20, <1>21 DEF str, args

----------------------------------------------------------------------------
(* The number functions. *)

\* What ft_itoa writes, ft_atoi reads back.
LEMMA DecimalReadBack ==
    ASSUME NEW k \in -Power(2, IntBits - 1)..Power(2, IntBits - 1) - 1
    PROVE  Atoi(Decimal(k)) = k
<1>1. PICK h, m, top, times : WidthsAre(h, m, top, times)
  BY Widths
<1>2. /\ k \in -h..(h - 1) /\ h \in Nat /\ top \in Nat /\ h <= top /\ LongMax = top - 1
      /\ LongMax \in Int /\ -LongMax - 1 \in Int /\ k \in Int
      /\ IntBits \in Nat \ {0}
  BY <1>1, WidthsAssumption DEF WidthsAre
<1>3. Max({-LongMax - 1, Min({LongMax, k})}) = k
  <2>1. Min({LongMax, k}) = k
    BY <1>2, MinOfTwo
  <2>2. Max({-LongMax - 1, k}) = k
    BY <1>2, MaxOfTwo
  <2>3. QED
    BY <2>1, <2>2
<1>4. Signed(k, IntBits) = k
  BY <1>2, SignedFits
<1>5. <<>> \in Seq(Nat) /\ Len(<<>>) = 0 /\ \A s \in Seq(Nat) : <<>> \o s = s /\ s \o <<>> = s
  OBVIOUS
<1>6. ASSUME NEW sgn \in {<<>>, <<Plus>>, <<Minus>>}, NEW y \in ULongs,
             k = IF sgn = <<Minus>> THEN -y ELSE y
      PROVE  Atoi(sgn \o Numeral(y, 10, Lower)) = k
  <2> DEFINE blanks == <<>>
             t == Numeral(y, 10, Lower)
  <2>1. blanks \in Seq(Nat) /\ \A x \in 1..Len(blanks) : IsSpace(blanks[x])
    BY <1>5
  <2>2. blanks # <<>> => ~IsDigit(blanks[1])
    OBVIOUS
  <2>3. t \in Seq(Nat)
    BY DecimalOfNat
  <2>4. sgn \in Seq(Nat)
    <3>1. Plus \in Nat /\ Minus \in Nat
      BY DEF Plus, Minus
    <3>2. <<Plus>> \in Seq(Nat) /\ <<Minus>> \in Seq(Nat) /\ <<>> \in Seq(Nat)
      BY <3>1
    <3>3. QED
      BY <3>2
  <2>5. blanks \o sgn \o t \o blanks = sgn \o t
    <3>1. sgn \o t \in Seq(Nat)
      BY <2>3, <2>4
    <3> HIDE DEF t
    <3>2. QED
      BY <1>5, <2>3, <2>4, <3>1
  <2> HIDE DEF blanks
  <2>6. Atoi(blanks \o sgn \o t \o blanks)
        = LET value == IF sgn = <<Minus>> THEN -y ELSE y
              long == Max({-LongMax - 1, Min({LongMax, value})})
          IN  Signed(long, IntBits)
    BY <2>1, <2>2, AtoiReads
  <2>7. QED
    BY <1>3, <1>4, <1>6, <2>5, <2>6
<1>7. CASE k >= 0
  <2>1. k \in ULongs
    BY <1>7, Magnitude
  <2>2. <<>> # <<Minus>>
    OBVIOUS
  <2>3. Atoi(<<>> \o Numeral(k, 10, Lower)) = k
    BY <1>6, <2>1, <2>2
  <2>4. Decimal(k) = Numeral(k, 10, Lower) /\ Decimal(k) \in Seq(Nat)
    BY <2>1, DecimalOfNat
  <2>5. QED
    BY <1>5, <2>3, <2>4
<1>8. CASE k < 0
  <2> DEFINE y == -k
  <2>1. y \in ULongs /\ y \in ULongs \ {0} /\ k = -y
    BY <1>2, <1>8, Magnitude
  <2>2. Decimal(k) = <<Minus>> \o Decimal(y)
    <3> HIDE DEF y
    <3> QED
      BY <1>2, <2>1, DecimalOfNegative
  <2>3. Decimal(y) = Numeral(y, 10, Lower)
    BY <2>1, DecimalOfNat
  <2> HIDE DEF y
  <2>4. Atoi(<<Minus>> \o Numeral(y, 10, Lower)) = k
    BY <1>6, <2>1
  <2>5. QED
    BY <2>2, <2>3, <2>4
<1>9. QED
  BY <1>2, <1>7, <1>8

\* The number functions.
LEMMA CallNumberMatches == ASSUME TaskOK, CallNumber PROVE IntegersWritten'
<1> DEFINE long == task.number
           k == Signed(long, IntBits)
           u == Unsigned(k, IntBits)
           r == [int |-> PutInt(k), fd |-> PutNbrFd(k), itoa |-> Itoa(k), back |-> Atoi(Itoa(k).text),
                 unsigned |-> PutUInt(Unsigned(k, IntBits)), hex |-> PutHexLow(k),
                 upper |-> PutHexUpper(k), long |-> PutLongInt(long)]
<1>1. task.kind = "number" /\ task' = task /\ result' = <<r>>
  BY DEF CallNumber, Gives
<1>2. task \in NumberTasks
  BY <1>1, KindTells DEF TaskOfKind
<1>3. long \in -LongMax..LongMax /\ long \in Int
  <2>1. long \in -LongMax..LongMax
    BY <1>2 DEF NumberTasks
  <2> HIDE DEF long
  <2>2. PICK h, m, top, times : WidthsAre(h, m, top, times)
    BY Widths
  <2>3. QED
    BY <2>1, <2>2 DEF WidthsAre
<1>4. k \in -Power(2, IntBits - 1)..Power(2, IntBits - 1) - 1 /\ k \in Int
  <2>1. IntBits \in Nat \ {0}
    BY WidthsAssumption
  <2> HIDE DEF long
  <2>2. k \in -Power(2, IntBits - 1)..Power(2, IntBits - 1) - 1
    BY <1>3, <2>1, SignedIs
  <2> HIDE DEF k
  <2>3. k \in Int
    BY <2>2, Magnitude
  <2>4. QED
    BY <2>2, <2>3
<1> HIDE DEF long, k
<1>5. PutInt(k) = Printed(Decimal(k), Len(Decimal(k))) /\ PutNbrFd(k) = Decimal(k)
  BY <1>4, PutIntWrites DEF PutNbrFd, Printed
<1>6. Itoa(k) = [room |-> Len(Decimal(k)) + 1, text |-> Decimal(k)] /\ Atoi(Itoa(k).text) = k
  <2>1. Itoa(k) = [room |-> Len(Decimal(k)) + 1, text |-> Decimal(k)]
    BY <1>4, ItoaWrites
  <2>2. Itoa(k).text = Decimal(k)
    BY <2>1
  <2>3. QED
    BY <1>4, <2>1, <2>2, DecimalReadBack
<1>7. /\ u \in ULongs
      /\ PutHexLow(k) = Printed(Numeral(u, 16, Lower), Len(Numeral(u, 16, Lower)))
      /\ PutHexUpper(k) = Printed(Numeral(u, 16, Upper), Len(Numeral(u, 16, Upper)))
  BY <1>4, HexWrites
<1>8. PutUInt(u) = Printed(Decimal(u), Len(Decimal(u)))
  BY <1>7, DecimalOfNat
<1>9. PutLongInt(long).text = Decimal(long)
  BY <1>3, PutLongWrites
<1>10. /\ r.int = PutInt(k) /\ r.fd = PutNbrFd(k) /\ r.itoa = Itoa(k) /\ r.back = Atoi(Itoa(k).text)
       /\ r.unsigned = PutUInt(u) /\ r.hex = PutHexLow(k) /\ r.upper = PutHexUpper(k)
       /\ r.long = PutLongInt(long)
  OBVIOUS
<1>11. result'[1] = r /\ task'.number = long /\ Signed(task'.number, IntBits) = k
  BY <1>1 DEF long, k
<1> HIDE DEF r, u
<1>12. Unsigned(Signed(task'.number, IntBits), IntBits) = u
  BY <1>11 DEF u
<1>13. QED
  BY <1>5, <1>6, <1>7, <1>8, <1>9, <1>10, <1>11, <1>12 DEF IntegersWritten

\* ft_atoi.
LEMMA CallAtoiMatches == ASSUME TaskOK, CallAtoi PROVE IntegersRead'
<1> DEFINE blanks == task.blanks
           sgn == task.sign
           k == task.value
           after == task.rest
           r == Atoi(blanks \o sgn \o Numeral(k, 10, Lower) \o after)
<1>1. task.kind = "atoi" /\ task' = task /\ result' = <<r>>
  BY DEF CallAtoi, Gives
<1>2. task \in AtoiTasks
  BY <1>1, KindTells DEF TaskOfKind
<1>3. /\ blanks \in {<<>>, <<32, 9>>} /\ sgn \in {<<>>, <<Plus>>, <<Minus>>} /\ k \in ULongs
      /\ after \in {<<>>, <<97, 49>>}
  BY <1>2 DEF AtoiTasks, ULongs
<1> HIDE DEF blanks, sgn, k, after
<1>4. blanks \in Seq(Nat) /\ \A x \in 1..Len(blanks) : IsSpace(blanks[x])
  <2>1. CASE blanks = <<>>
    BY <2>1
  <2>2. CASE blanks = <<32, 9>>
    BY <2>2 DEF IsSpace
  <2>3. QED
    BY <1>3, <2>1, <2>2
<1>5. after \in Seq(Nat) /\ (after # <<>> => ~IsDigit(after[1]))
  <2>1. CASE after = <<>>
    BY <2>1
  <2>2. CASE after = <<97, 49>>
    BY <2>2 DEF IsDigit
  <2>3. QED
    BY <1>3, <2>1, <2>2
<1>6. r = LET value == IF sgn = <<Minus>> THEN -k ELSE k
              long == Max({-LongMax - 1, Min({LongMax, value})})
          IN  Signed(long, IntBits)
  BY <1>3, <1>4, <1>5, AtoiReads
<1>7. result'[1] = r /\ task'.sign = sgn /\ task'.value = k
  BY <1>1 DEF sgn, k
<1> HIDE DEF r
<1>8. QED
  BY <1>6, <1>7, Zenon DEF IntegersRead

\* ft_printf.
LEMMA CallPrintfMatches == ASSUME TaskOK, CallPrintf PROVE FormatsWritten'
<1> DEFINE parts == task.parts
           r == Printf(FormatOf(parts), ArgumentsOf(parts))
<1>1. task.kind = "printf" /\ task' = task /\ result' = <<r>>
  BY DEF CallPrintf, Gives, FormatOf, ArgumentsOf
<1>2. task \in PrintfTasks
  BY <1>1, KindTells DEF TaskOfKind
<1>3. parts \in Seq(FormatParts)
  <2> DEFINE P == {part \in Parts : part # <<"text", Percent>>}
  <2>1. parts \in Strings(P, MaxLine)
    BY <1>2 DEF PrintfTasks
  <2>2. \A part \in P : part \in FormatParts
    BY PartsAreFormatParts
  <2> HIDE DEF parts, P
  <2>3. parts \in Seq(P)
    BY <2>1, LengthsAssumption, StringsAreSequences
  <2>4. QED
    BY <2>2, <2>3
<1>4. result'[1] = r /\ task'.parts = parts
  BY <1>1
<1> HIDE DEF parts
<1>5. /\ r.text = MeaningOf(parts)
      /\ (\A p \in DOMAIN parts : parts[p][1] # "%ld") => r.count = Len(MeaningOf(parts))
  BY <1>3, PrintfMeans
<1> HIDE DEF r
<1>6. QED
  BY <1>4, <1>5, Zenon DEF FormatsWritten, MeaningOf

(* The tasks never change: with what they are, NumbersReadBack is inductive. *)
NumbersInv == TaskOK /\ NumbersReadBack

\* It holds before any call.
LEMMA NumbersInitInv == MCInit => NumbersInv
<1> SUFFICES ASSUME MCInit PROVE NumbersInv
  OBVIOUS
<1>1. TaskOK
  BY DEF MCInit, TaskOK
<1>2. result = <<>>
  BY DEF MCInit
<1>3. \A kind : ~ Result(kind)
  BY <1>2 DEF Result
<1>4. QED
  BY <1>1, <1>3 DEF NumbersInv, NumbersReadBack, IntegersWritten, IntegersRead, FormatsWritten

\* A call that is not one of a number function leaves them nothing to answer for.
LEMMA GivesNoNumbers ==
    ASSUME NEW kind, NEW value, Gives(kind, value), TaskOK
    PROVE  /\ TaskOK'
           /\ kind # "number" => IntegersWritten'
           /\ kind # "atoi" => IntegersRead'
           /\ kind # "printf" => FormatsWritten'
<1>1. task' = task /\ task.kind = kind
  BY DEF Gives
<1>2. TaskOK'
  BY <1>1 DEF TaskOK, NumberTasks, AtoiTasks, PrintfTasks, SearchTasks, SubStrTasks, TrimTasks, SplitTasks, MapTasks, LongTasks
<1>3. \A other : other # kind => ~ Result(other)'
  BY <1>1 DEF Result
<1>4. QED
  BY <1>1, <1>2, <1>3 DEF IntegersWritten, IntegersRead, FormatsWritten

\* Every call keeps it.
LEMMA NumbersNextInv == NumbersInv /\ [MCNext]_vars => NumbersInv'
<1> SUFFICES ASSUME NumbersInv, [MCNext]_vars PROVE NumbersInv'
  OBVIOUS
<1>0. TaskOK /\ IntegersWritten /\ IntegersRead /\ FormatsWritten
  BY DEF NumbersInv, NumbersReadBack
<1>1. CASE UNCHANGED <<task, result>>
  <2>1. task' = task /\ result' = result
    BY <1>1
  <2>2. TaskOK'
    BY <1>0, <2>1 DEF TaskOK, NumberTasks, AtoiTasks, PrintfTasks, SearchTasks, SubStrTasks, TrimTasks, SplitTasks, MapTasks, LongTasks
  <2>3. IntegersWritten'
    BY <1>0, <2>1, Zenon DEF IntegersWritten, Result
  <2>4. IntegersRead'
    BY <1>0, <2>1, Zenon DEF IntegersRead, Result
  <2>5. FormatsWritten'
    BY <1>0, <2>1, Zenon DEF FormatsWritten, Result
  <2>6. QED
    BY <2>2, <2>3, <2>4, <2>5 DEF NumbersInv, NumbersReadBack
<1>2. CASE CallNumber
  <2>1. IntegersWritten'
    BY <1>0, <1>2, CallNumberMatches
  <2>2. QED
    BY <1>0, <1>2, <2>1, GivesNoNumbers DEF CallNumber, NumbersInv, NumbersReadBack
<1>3. CASE CallAtoi
  <2>1. IntegersRead'
    BY <1>0, <1>3, CallAtoiMatches
  <2>2. QED
    BY <1>0, <1>3, <2>1, GivesNoNumbers DEF CallAtoi, NumbersInv, NumbersReadBack
<1>4. CASE CallPrintf
  <2>1. FormatsWritten'
    BY <1>0, <1>4, CallPrintfMatches
  <2>2. QED
    BY <1>0, <1>4, <2>1, GivesNoNumbers DEF CallPrintf, NumbersInv, NumbersReadBack
<1>5. CASE CallSearch
  BY <1>0, <1>5, GivesNoNumbers DEF CallSearch, NumbersInv, NumbersReadBack
<1>6. CASE CallSubStr
  BY <1>0, <1>6, GivesNoNumbers DEF CallSubStr, NumbersInv, NumbersReadBack
<1>7. CASE CallTrim
  BY <1>0, <1>7, GivesNoNumbers DEF CallTrim, NumbersInv, NumbersReadBack
<1>8. CASE CallSplit
  BY <1>0, <1>8, GivesNoNumbers DEF CallSplit, NumbersInv, NumbersReadBack
<1>9. CASE CallMap
  BY <1>0, <1>9, GivesNoNumbers DEF CallMap, NumbersInv, NumbersReadBack
<1>10. CASE CallLong
  BY <1>0, <1>10, GivesNoNumbers DEF CallLong, NumbersInv, NumbersReadBack
<1>11. QED
  BY <1>1, <1>2, <1>3, <1>4, <1>5, <1>6, <1>7, <1>8, <1>9, <1>10 DEF MCNext, Memory, vars

\* Every number is written as its digits and read back, and every format as what its parts
\* mean, for every width of int and long.
THEOREM NumbersAreReadBack == MCSpec => []NumbersReadBack
<1>1. MCSpec => []NumbersInv
  BY NumbersInitInv, NumbersNextInv, PTL DEF MCSpec
<1>2. NumbersInv => NumbersReadBack
  BY DEF NumbersInv
<1>3. QED
  BY <1>1, <1>2, PTL

----------------------------------------------------------------------------
(* Listings: splitting what was joined. *)

(* A word that starts after f bytes and ends after e is the first one after p bytes. *)
NextWord(s, b, p, f, e) ==
    /\ p \in 0..Len(s) /\ f \in p..Len(s) - 1 /\ e \in f + 1..Len(s)
    /\ \A l \in (p + 1)..f : s[l] = b
    /\ \A l \in (f + 1)..e : s[l] # b
    /\ e < Len(s) => s[e + 1] = b

\* There is one such word.
LEMMA NextWordUnique ==
    ASSUME NEW s, Len(s) \in Nat, NEW b, NEW p, NEW f, NEW e, NEW f2, NEW e2,
           NextWord(s, b, p, f, e), NextWord(s, b, p, f2, e2)
    PROVE  f = f2 /\ e = e2
<1>1. /\ p \in Nat /\ f \in Nat /\ e \in Nat /\ f2 \in Nat /\ e2 \in Nat
      /\ p <= f /\ f < e /\ e <= Len(s) /\ p <= f2 /\ f2 < e2 /\ e2 <= Len(s)
  BY DEF NextWord
<1>2. /\ \A l \in (p + 1)..f : s[l] = b
      /\ \A l \in (f + 1)..e : s[l] # b
      /\ \A l \in (p + 1)..f2 : s[l] = b
      /\ \A l \in (f2 + 1)..e2 : s[l] # b
      /\ e < Len(s) => s[e + 1] = b
      /\ e2 < Len(s) => s[e2 + 1] = b
  BY DEF NextWord
<1>3. ~ (f < f2)
  BY <1>1, <1>2
<1>4. ~ (f2 < f)
  BY <1>1, <1>2
<1>5. f = f2
  BY <1>1, <1>3, <1>4
<1>6. ~ (e < e2)
  BY <1>1, <1>2, <1>5
<1>7. ~ (e2 < e)
  BY <1>1, <1>2, <1>5
<1>8. QED
  BY <1>1, <1>5, <1>6, <1>7

\* The words of a split are each the first one after the word before.
LEMMA SplitIsNext ==
    ASSUME NEW s, Len(s) \in Nat, NEW b, NEW size \in Nat, NEW from, NEW at,
           SplitsAt(from, at, s, b, size)
    PROVE  \A k \in 1..size : NextWord(s, b, at[k - 1], from[k], at[k])
<1>1. ASSUME NEW k \in 1..size PROVE NextWord(s, b, at[k - 1], from[k], at[k])
  <2>1. k - 1 \in 0..size
    OBVIOUS
  <2>2. at[k - 1] \in 0..Len(s)
    BY <2>1 DEF SplitsAt
  <2>3. QED
    BY <2>2 DEF SplitsAt, NextWord
<1>2. QED
  BY <1>1

(* Two splits have the same first words. *)
SameWords(from, at, from2, at2, k) ==
    \A x \in 0..k : at[x] = at2[x] /\ (x # 0 => from[x] = from2[x])

\* A string is split in one way.
LEMMA SplitsAtUnique ==
    ASSUME NEW s, Len(s) \in Nat, NEW b, NEW total \in Nat, NEW total2 \in Nat, total <= total2,
           NEW from, NEW at, NEW from2, NEW at2,
           SplitsAt(from, at, s, b, total), SplitsAt(from2, at2, s, b, total2)
    PROVE  total = total2 /\ SameWords(from, at, from2, at2, total)
<1> DEFINE D == 0..total
           P == {k \in D : at[k] = at2[k] /\ (k # 0 => from[k] = from2[k])}
<1>1. D = P
  <2>1. ASSUME NEW k \in D, \A l \in D : l < k => l \in P PROVE k \in P
    <3>1. CASE k = 0
      BY <3>1 DEF SplitsAt
    <3>2. CASE k # 0
      <4>1. k \in 1..total /\ k \in 1..total2 /\ k - 1 \in D /\ k - 1 < k
        BY <3>2
      <4>2. at[k - 1] = at2[k - 1]
        BY <2>1, <4>1
      <4>3. NextWord(s, b, at[k - 1], from[k], at[k]) /\ NextWord(s, b, at2[k - 1], from2[k], at2[k])
        BY <4>1, SplitIsNext
      <4>4. from[k] = from2[k] /\ at[k] = at2[k]
        BY <4>2, <4>3, NextWordUnique
      <4>5. QED
        BY <4>4
    <3>3. QED
      BY <3>1, <3>2
  <2>2. P \in SUBSET D /\ D \in SUBSET Nat
    OBVIOUS
  <2> HIDE DEF P, D
  <2>3. QED
    BY <2>1, <2>2, Induction
<1>2. SameWords(from, at, from2, at2, total)
  BY <1>1 DEF SameWords
<1>3. ASSUME total < total2 PROVE FALSE
  <2>1. total + 1 \in 1..total2 /\ (total + 1) - 1 = total /\ total \in 0..total
    BY <1>3
  <2>2. NextWord(s, b, at2[total], from2[total + 1], at2[total + 1])
    BY <2>1, SplitIsNext
  <2>3. at[total] = at2[total]
    BY <1>2, <2>1 DEF SameWords
  <2> DEFINE f == from2[total + 1]
             p == at[total]
  <2>4. p \in 0..Len(s) /\ f \in p..Len(s) - 1 /\ s[f + 1] # b
    BY <2>2, <2>3 DEF NextWord
  <2>5. \A l \in (p + 1)..Len(s) : s[l] = b
    BY DEF SplitsAt
  <2> HIDE DEF f, p
  <2>6. f + 1 \in (p + 1)..Len(s)
    BY <2>4
  <2>7. QED
    BY <2>4, <2>5, <2>6
<1>4. QED
  BY <1>2, <1>3

(* W is the sequence of the words of s. *)
HasWords(s, b, W) ==
    /\ s \in Seq(Nat) /\ W \in Seq(Seq(Nat))
    /\ \E from, at : /\ SplitsAt(from, at, s, b, Len(W))
                     /\ \A k \in 1..Len(W) : W[k] = SubSeq(s, from[k] + 1, at[k])

\* ft_split returns them, when no malloc fails.
LEMMA SplitGives ==
    ASSUME NEW s, NEW b, NEW W, HasWords(s, b, W) PROVE Split(s, b, None).words = W
<1> DEFINE size == CountStr(s, b)
           total == Len(W)
<1>1. s \in Seq(Nat) /\ Len(s) \in Nat /\ total \in Nat /\ W = [k \in 1..total |-> W[k]]
  BY DEF HasWords
<1>2. size \in Nat
  BY <1>1, SplitFindsWords
<1>3. PICK from, at : SplitWords(from, at, s, b, size)
  BY <1>1, SplitFindsWords
<1>4. Split(s, b, None).words = Words(s, b, size)
  <2>1. None \notin 0..size
    BY <1>2 DEF None
  <2>2. QED
    BY <2>1 DEF Split
<1> HIDE DEF size
<1>5. PICK from2, at2 : /\ SplitsAt(from2, at2, s, b, total)
                        /\ \A k \in 1..total : W[k] = SubSeq(s, from2[k] + 1, at2[k])
  BY DEF HasWords
<1>6. /\ SplitsAt(from, at, s, b, size)
      /\ Words(s, b, size) = [k \in 1..size |-> SubSeq(s, from[k] + 1, at[k])]
  BY <1>3 DEF SplitWords
<1> HIDE DEF total
<1>7. size = total /\ \A k \in 1..total : from[k] = from2[k] /\ at[k] = at2[k]
  <2>1. CASE size <= total
    <3>1. size = total /\ SameWords(from, at, from2, at2, size)
      BY <1>1, <1>2, <1>5, <1>6, <2>1, SplitsAtUnique
    <3>2. \A k \in 1..total : k \in 0..size /\ k # 0
      BY <1>2, <3>1
    <3>3. QED
      BY <3>1, <3>2 DEF SameWords
  <2>2. CASE total <= size
    <3>1. size = total /\ SameWords(from2, at2, from, at, total)
      BY <1>1, <1>2, <1>5, <1>6, <2>2, SplitsAtUnique
    <3>2. \A k \in 1..total : k \in 0..total /\ k # 0
      BY <1>1
    <3>3. QED
      BY <3>1, <3>2 DEF SameWords
  <2>3. QED
    BY <1>1, <1>2, <2>1, <2>2
<1>8. [k \in 1..total |-> SubSeq(s, from[k] + 1, at[k])] = [k \in 1..total |-> W[k]]
  BY <1>5, <1>7
<1>9. QED
  BY <1>1, <1>4, <1>6, <1>7, <1>8

\* The empty string has no words.
LEMMA NoWords == ASSUME NEW b PROVE HasWords(<<>>, b, <<>>)
<1> DEFINE at == [k \in {0} |-> 0]
<1>1. <<>> \in Seq(Nat) /\ <<>> \in Seq(Seq(Nat)) /\ Len(<<>>) = 0
  OBVIOUS
<1>2. at[0] = 0 /\ \A k \in 0..0 : at[k] \in 0..0
  OBVIOUS
<1> HIDE DEF at
<1>3. SplitsAt(at, at, <<>>, b, 0)
  BY <1>1, <1>2 DEF SplitsAt
<1>4. \A k \in 1..0 : <<>>[k] = SubSeq(<<>>, at[k] + 1, at[k])
  OBVIOUS
<1>5. QED
  BY <1>1, <1>3, <1>4 DEF HasWords

(* s is empty or ends in b. *)
Ended(s, b) == s = <<>> \/ s[Len(s)] = b

\* Sequences that agree up to y have the same parts up to there.
LEMMA PartSame ==
    ASSUME NEW s \in Seq(Nat), NEW t \in Seq(Nat), NEW x \in Nat \ {0}, NEW y \in Nat,
           y <= Len(s), y <= Len(t), \A l \in x..y : s[l] = t[l]
    PROVE  SubSeq(s, x, y) = SubSeq(t, x, y)
<1>0. x \in Nat /\ x >= 1 /\ Len(s) \in Nat /\ Len(t) \in Nat
  OBVIOUS
<1>1. /\ SubSeq(s, x, y) \in Seq(Nat)
      /\ Len(SubSeq(s, x, y)) = IF x <= y THEN y - x + 1 ELSE 0
      /\ \A k \in 1..(y - x + 1) : SubSeq(s, x, y)[k] = s[x + k - 1]
  BY <1>0, PartOf
<1>2. /\ SubSeq(t, x, y) \in Seq(Nat)
      /\ Len(SubSeq(t, x, y)) = IF x <= y THEN y - x + 1 ELSE 0
      /\ \A k \in 1..(y - x + 1) : SubSeq(t, x, y)[k] = t[x + k - 1]
  BY <1>0, PartOf
<1> DEFINE u == SubSeq(s, x, y)
           v == SubSeq(t, x, y)
           w == IF x <= y THEN y - x + 1 ELSE 0
<1>3. \A k \in 1..w : k \in 1..(y - x + 1) /\ x + k - 1 \in x..y
  BY <1>0
<1>4. w \in Nat /\ Len(u) = w /\ Len(v) = w /\ u \in Seq(Nat) /\ v \in Seq(Nat)
  BY <1>0, <1>1, <1>2
<1>5. \A k \in 1..w : u[k] = s[x + k - 1] /\ v[k] = t[x + k - 1]
  BY <1>1, <1>2, <1>3
<1> HIDE DEF u, v, w
<1>6. \A k \in 1..w : u[k] = v[k]
  BY <1>3, <1>5
<1>7. u = v
  BY <1>4, <1>6, SeqEqual
<1>8. QED
  BY <1>7 DEF u, v

\* A delimiter at the end changes no word.
LEMMA DelimiterAdded ==
    ASSUME NEW s, NEW b \in Nat, NEW W, HasWords(s, b, W)
    PROVE  HasWords(s \o <<b>>, b, W) /\ Ended(s \o <<b>>, b)
<1> DEFINE t == s \o <<b>>
           total == Len(W)
           w == Len(s)
<1>1. s \in Seq(Nat) /\ W \in Seq(Seq(Nat)) /\ total \in Nat /\ w \in Nat
  BY DEF HasWords
<1>2. PICK from, at : SplitsAt(from, at, s, b, total) /\ \A k \in 1..total : W[k] = SubSeq(s, from[k] + 1, at[k])
  BY DEF HasWords
<1>3. t \in Seq(Nat) /\ Len(t) = w + 1 /\ t[w + 1] = b /\ \A l \in 1..w : t[l] = s[l]
  BY <1>1
<1>4. /\ at[0] = 0 /\ \A k \in 0..total : at[k] \in 0..w
      /\ \A k \in 1..total :
          /\ from[k] \in at[k - 1]..w - 1 /\ at[k] \in from[k] + 1..w
          /\ \A l \in (at[k - 1] + 1)..from[k] : s[l] = b
          /\ \A l \in (from[k] + 1)..at[k] : s[l] # b
          /\ at[k] < w => s[at[k] + 1] = b
      /\ \A l \in (at[total] + 1)..w : s[l] = b
  BY <1>2 DEF SplitsAt
<1> HIDE DEF t, total, w
<1>5. ASSUME NEW k \in 1..total
      PROVE  /\ from[k] \in at[k - 1]..(w + 1) - 1 /\ at[k] \in from[k] + 1..(w + 1)
             /\ \A l \in (at[k - 1] + 1)..from[k] : t[l] = b
             /\ \A l \in (from[k] + 1)..at[k] : t[l] # b
             /\ at[k] < w + 1 => t[at[k] + 1] = b
             /\ SubSeq(t, from[k] + 1, at[k]) = SubSeq(s, from[k] + 1, at[k])
  <2> DEFINE p == at[k - 1]
             f == from[k]
             e == at[k]
  <2>1. /\ p \in 0..w /\ f \in p..w - 1 /\ e \in f + 1..w
        /\ \A l \in (p + 1)..f : s[l] = b
        /\ \A l \in (f + 1)..e : s[l] # b
        /\ e < w => s[e + 1] = b
    <3>1. k - 1 \in 0..total
      BY <1>1
    <3>2. QED
      BY <1>4, <3>1
  <2> HIDE DEF p, f, e
  <2>2. (\A l \in (p + 1)..f : l \in 1..w) /\ (\A l \in (f + 1)..e : l \in 1..w)
    BY <1>1, <2>1
  <2>3. (\A l \in (p + 1)..f : t[l] = b) /\ (\A l \in (f + 1)..e : t[l] # b)
    BY <1>3, <2>1, <2>2
  <2>4. e < w + 1 => t[e + 1] = b
    <3>1. CASE e < w
      <4>1. e + 1 \in 1..w
        BY <1>1, <2>1, <3>1
      <4>2. QED
        BY <1>3, <2>1, <3>1, <4>1
    <3>2. CASE e = w
      BY <1>3, <3>2
    <3>3. QED
      BY <1>1, <2>1, <3>1, <3>2
  <2>5. SubSeq(t, f + 1, e) = SubSeq(s, f + 1, e)
    <3> DEFINE x == f + 1
    <3>1. x \in Nat \ {0} /\ e \in Nat /\ e <= Len(t) /\ e <= Len(s) /\ \A l \in x..e : s[l] = t[l]
      BY <1>1, <1>3, <2>1, <2>2 DEF w
    <3> HIDE DEF x
    <3>2. SubSeq(s, x, e) = SubSeq(t, x, e)
      BY <1>1, <1>3, <3>1, PartSame
    <3>3. QED
      BY <3>2 DEF x
  <2>6. f \in p..(w + 1) - 1 /\ e \in f + 1..(w + 1)
    BY <1>1, <2>1
  <2>7. QED
    BY <2>3, <2>4, <2>5, <2>6 DEF p, f, e
<1>6. \A l \in (at[total] + 1)..(w + 1) : t[l] = b
  <2>1. at[total] \in 0..w
    BY <1>1, <1>4
  <2>2. ASSUME NEW l \in (at[total] + 1)..(w + 1) PROVE t[l] = b
    <3>1. l = w + 1 \/ (l \in 1..w /\ l \in (at[total] + 1)..w)
      BY <1>1, <2>1
    <3>2. QED
      BY <1>3, <1>4, <3>1
  <2>3. QED
    BY <2>2
<1>7. \A k \in 0..total : at[k] \in 0..(w + 1)
  BY <1>1, <1>4
<1>8. SplitsAt(from, at, t, b, total)
  BY <1>3, <1>4, <1>5, <1>6, <1>7 DEF SplitsAt
<1>9. \A k \in 1..total : W[k] = SubSeq(t, from[k] + 1, at[k])
  BY <1>2, <1>5
<1>10. HasWords(t, b, W)
  <2>1. t \in Seq(Nat) /\ W \in Seq(Seq(Nat))
    BY <1>1, <1>3
  <2>2. \E from3, at3 : SplitsAt(from3, at3, t, b, total) /\ \A k \in 1..total : W[k] = SubSeq(t, from3[k] + 1, at3[k])
    BY <1>8, <1>9
  <2>3. QED
    BY <2>1, <2>2 DEF HasWords, total
<1>11. Ended(t, b)
  BY <1>3 DEF Ended
<1>12. QED
  BY <1>10, <1>11 DEF t

\* A word after a delimiter is one word more.
LEMMA WordAdded ==
    ASSUME NEW s, NEW b \in Nat, NEW W, HasWords(s, b, W), Ended(s, b),
           NEW t \in Seq(Nat), t # <<>>, \A l \in 1..Len(t) : t[l] # b
    PROVE  HasWords(s \o t, b, Append(W, t))
<1> DEFINE u == s \o t
           V == Append(W, t)
           total == Len(W)
           w == Len(s)
           v == Len(t)
           last == total + 1
<1>1. s \in Seq(Nat) /\ W \in Seq(Seq(Nat)) /\ total \in Nat /\ w \in Nat /\ v \in Nat /\ v >= 1
  BY DEF HasWords
<1>2. PICK from, at : SplitsAt(from, at, s, b, total) /\ \A k \in 1..total : W[k] = SubSeq(s, from[k] + 1, at[k])
  BY DEF HasWords
<1>3. /\ u \in Seq(Nat) /\ Len(u) = w + v /\ (\A l \in 1..w : u[l] = s[l])
      /\ \A l \in 1..v : u[w + l] = t[l]
  BY <1>1
<1>a. /\ V \in Seq(Seq(Nat)) /\ Len(V) = last /\ last \in Nat /\ V[last] = t
      /\ \A k \in 1..total : V[k] = W[k]
  BY <1>1
<1>4. /\ at[0] = 0 /\ \A k \in 0..total : at[k] \in 0..w
      /\ \A k \in 1..total :
          /\ from[k] \in at[k - 1]..w - 1 /\ at[k] \in from[k] + 1..w
          /\ \A l \in (at[k - 1] + 1)..from[k] : s[l] = b
          /\ \A l \in (from[k] + 1)..at[k] : s[l] # b
          /\ at[k] < w => s[at[k] + 1] = b
      /\ \A l \in (at[total] + 1)..w : s[l] = b
  BY <1>2 DEF SplitsAt
<1>b. w > 0 => s[w] = b
  <2>1. w > 0 => s # <<>>
    BY <1>1
  <2>2. QED
    BY <2>1 DEF Ended
<1> DEFINE from2 == [k \in 1..last |-> IF k = last THEN w ELSE from[k]]
           at2 == [k \in 0..last |-> IF k = last THEN w + v ELSE at[k]]
<1>5. /\ from2[last] = w /\ at2[last] = w + v
      /\ \A k \in 1..total : from2[k] = from[k]
      /\ \A k \in 0..total : at2[k] = at[k]
  BY <1>1
<1>t. t = SubSeq(u, w + 1, w + v)
  <2>1. SubSeq(s \o t, Len(s) + 1, Len(s \o t)) = t
    BY <1>1, AfterFront
  <2>2. Len(s \o t) = w + v
    BY <1>3
  <2> HIDE DEF v
  <2>3. QED
    BY <2>1, <2>2
<1>c. \A l \in 1..v : t[l] # b
  OBVIOUS
<1> HIDE DEF u, V, total, w, v, from2, at2, last
<1>6. ASSUME NEW k \in 1..total
      PROVE  /\ from2[k] \in at2[k - 1]..(w + v) - 1 /\ at2[k] \in from2[k] + 1..(w + v)
             /\ \A l \in (at2[k - 1] + 1)..from2[k] : u[l] = b
             /\ \A l \in (from2[k] + 1)..at2[k] : u[l] # b
             /\ at2[k] < w + v => u[at2[k] + 1] = b
             /\ SubSeq(u, from2[k] + 1, at2[k]) = W[k]
  <2> DEFINE p == at[k - 1]
             f == from[k]
             e == at[k]
  <2>0. k - 1 \in 0..total /\ k \in 0..total
    BY <1>1
  <2>1. /\ p \in 0..w /\ f \in p..w - 1 /\ e \in f + 1..w
        /\ \A l \in (p + 1)..f : s[l] = b
        /\ \A l \in (f + 1)..e : s[l] # b
        /\ e < w => s[e + 1] = b
    BY <1>4, <2>0
  <2>2. at2[k - 1] = p /\ from2[k] = f /\ at2[k] = e
    BY <1>5, <2>0
  <2>3. W[k] = SubSeq(s, f + 1, e)
    BY <1>2
  <2> HIDE DEF p, f, e
  <2>4. (\A l \in (p + 1)..f : l \in 1..w) /\ (\A l \in (f + 1)..e : l \in 1..w)
    BY <1>1, <2>1
  <2>5. (\A l \in (p + 1)..f : u[l] = b) /\ (\A l \in (f + 1)..e : u[l] # b)
    BY <1>3, <2>1, <2>4
  <2>6. e < w /\ u[e + 1] = b
    <3>1. e # w
      <4>1. SUFFICES ASSUME e = w PROVE FALSE
        OBVIOUS
      <4>2. e \in (f + 1)..e /\ w > 0
        BY <1>1, <2>1, <4>1
      <4>3. s[e] # b
        BY <2>1, <4>2
      <4>4. QED
        BY <1>b, <4>1, <4>2, <4>3
    <3>2. e < w /\ e + 1 \in 1..w
      BY <1>1, <2>1, <3>1
    <3>3. QED
      BY <1>3, <2>1, <3>2
  <2>7. SubSeq(u, f + 1, e) = SubSeq(s, f + 1, e)
    <3> DEFINE x == f + 1
    <3>1. \A l \in x..e : u[l] = s[l]
      BY <1>3, <2>4
    <3>0. Len(s) = w
      BY DEF w
    <3>4. x \in Nat \ {0} /\ e \in Nat /\ e <= Len(u) /\ e <= Len(s)
      BY <1>1, <1>3, <2>1, <3>0
    <3> HIDE DEF x
    <3>2. SubSeq(u, x, e) = SubSeq(s, x, e)
      BY <1>1, <1>3, <3>1, <3>4, PartSame
    <3>3. QED
      BY <3>2 DEF x
  <2>8. f \in p..(w + v) - 1 /\ e \in f + 1..(w + v)
    BY <1>1, <2>1
  <2>9. QED
    BY <2>2, <2>3, <2>5, <2>6, <2>7, <2>8
<1>7. /\ from2[last] \in at2[last - 1]..(w + v) - 1 /\ at2[last] \in from2[last] + 1..(w + v)
      /\ \A l \in (at2[last - 1] + 1)..from2[last] : u[l] = b
      /\ \A l \in (from2[last] + 1)..at2[last] : u[l] # b
      /\ SubSeq(u, from2[last] + 1, at2[last]) = t
  <2>1. last - 1 = total /\ total \in 0..total
    BY <1>1 DEF last
  <2>2. at2[last - 1] = at[total] /\ at[total] \in 0..w
    BY <1>4, <1>5, <2>1
  <2> DEFINE p == at[total]
  <2>3. \A l \in (p + 1)..w : s[l] = b
    BY <1>4
  <2>4. p \in 0..w /\ at2[last - 1] = p
    BY <2>2
  <2> HIDE DEF p
  <2>5. \A l \in (p + 1)..w : u[l] = b
    <3>1. \A l \in (p + 1)..w : l \in 1..w
      BY <1>1, <2>4
    <3>2. QED
      BY <1>3, <2>3, <3>1
  <2>6. \A l \in (w + 1)..(w + v) : u[l] # b
    <3>1. ASSUME NEW l \in (w + 1)..(w + v) PROVE u[l] # b
      <4>1. l - w \in 1..v /\ w + (l - w) = l
        BY <1>1
      <4>2. QED
        BY <1>3, <1>c, <4>1
    <3>2. QED
      BY <3>1
  <2>7. w \in p..(w + v) - 1 /\ w + v \in w + 1..(w + v)
    BY <1>1, <2>4
  <2>8. QED
    BY <1>5, <1>t, <2>4, <2>5, <2>6, <2>7
<1>8. ASSUME NEW k \in 1..last
      PROVE  /\ from2[k] \in at2[k - 1]..(w + v) - 1 /\ at2[k] \in from2[k] + 1..(w + v)
             /\ \A l \in (at2[k - 1] + 1)..from2[k] : u[l] = b
             /\ \A l \in (from2[k] + 1)..at2[k] : u[l] # b
             /\ at2[k] < w + v => u[at2[k] + 1] = b
             /\ V[k] = SubSeq(u, from2[k] + 1, at2[k])
  <2>1. CASE k = last
    <3>1. ~ (at2[last] < w + v)
      BY <1>1, <1>5
    <3>2. QED
      BY <1>7, <1>a, <2>1, <3>1
  <2>2. CASE k # last
    <3>1. k \in 1..total
      BY <1>1, <2>2 DEF last
    <3>2. V[k] = W[k]
      BY <1>a, <3>1
    <3>3. QED
      BY <1>6, <3>1, <3>2
  <2>3. QED
    BY <2>1, <2>2
<1>9. at2[0] = 0 /\ \A k \in 0..last : at2[k] \in 0..(w + v)
  <2>1. 0 \in 0..total
    BY <1>1
  <2>2. at2[0] = 0
    BY <1>4, <1>5, <2>1
  <2>3. ASSUME NEW k \in 0..last PROVE at2[k] \in 0..(w + v)
    <3>1. CASE k = last
      BY <1>1, <1>5, <3>1
    <3>2. CASE k # last
      <4>1. k \in 0..total
        BY <1>1, <3>2 DEF last
      <4>2. at2[k] = at[k] /\ at[k] \in 0..w
        BY <1>4, <1>5, <4>1
      <4>3. QED
        BY <1>1, <4>2
    <3>3. QED
      BY <3>1, <3>2
  <2>4. QED
    BY <2>2, <2>3
<1>10. \A l \in (at2[last] + 1)..(w + v) : u[l] = b
  BY <1>1, <1>5
<1>11. SplitsAt(from2, at2, u, b, last)
  BY <1>3, <1>8, <1>9, <1>10 DEF SplitsAt
<1>12. \E from3, at3 : /\ SplitsAt(from3, at3, u, b, Len(V))
                       /\ \A k \in 1..Len(V) : V[k] = SubSeq(u, from3[k] + 1, at3[k])
  BY <1>8, <1>11, <1>a
<1>13. HasWords(u, b, V)
  BY <1>3, <1>12, <1>a DEF HasWords
<1>14. QED
  BY <1>13 DEF u, V

----------------------------------------------------------------------------
(* Listings: what ft_printf writes. *)

\* What is joined last ends the whole.
LEMMA FlattenedAppend ==
    ASSUME NEW S, NEW seqs \in Seq(Seq(S)), NEW q \in Seq(S)
    PROVE  FlattenSeq(Append(seqs, q)) = FlattenSeq(seqs) \o q
<1> DEFINE w == Len(seqs)
           v == w + 1
           more == Append(seqs, q)
           D == 0..w
<1>1. /\ w \in Nat /\ v \in Nat /\ more \in Seq(Seq(S)) /\ Len(more) = v /\ more[v] = q
      /\ \A x \in 1..w : more[x] = seqs[x]
  OBVIOUS
<1>2. PICK F : Flattens(F, seqs, S)
  BY Flattened
<1>3. PICK G : Flattens(G, more, S)
  BY <1>1, Flattened
<1>4. /\ F[0] = <<>> /\ F[w] = FlattenSeq(seqs)
      /\ \A x \in 1..w : F[x] = F[x - 1] \o seqs[x]
  BY <1>2 DEF Flattens
<1> HIDE DEF more
<1>5. /\ G[0] = <<>> /\ G[v] = FlattenSeq(more)
      /\ \A x \in 1..v : G[x] = G[x - 1] \o more[x]
  BY <1>1, <1>3 DEF Flattens
<1> HIDE DEF w
<1> DEFINE P == {x \in D : F[x] = G[x]}
<1>6. D = P
  <2>1. ASSUME NEW x \in D, \A z \in D : z < x => z \in P PROVE x \in P
    <3>1. CASE x = 0
      BY <1>4, <1>5, <3>1
    <3>2. CASE x # 0
      <4>1. x - 1 \in D /\ x - 1 < x /\ x \in 1..w /\ x \in 1..v
        BY <1>1, <3>2
      <4>2. F[x - 1] = G[x - 1]
        BY <2>1, <4>1
      <4>3. QED
        BY <1>1, <1>4, <1>5, <4>1, <4>2
    <3>3. QED
      BY <3>1, <3>2
  <2>2. P \in SUBSET D /\ D \in SUBSET Nat
    BY <1>1
  <2> HIDE DEF P, D
  <2>3. QED
    BY <2>1, <2>2, Induction
<1>7. v \in 1..v /\ v - 1 = w /\ w \in D
  BY <1>1
<1>8. F[w] = G[w]
  BY <1>6, <1>7
<1>9. G[v] = G[w] \o q
  BY <1>1, <1>5, <1>7
<1>10. QED
  BY <1>4, <1>5, <1>8, <1>9 DEF more

\* Nothing joined is nothing.
LEMMA FlattenedNothing == FlattenSeq(<<>>) = <<>>
<1>1. <<>> \in Seq(Seq(Nat)) /\ Len(<<>>) = 0
  OBVIOUS
<1>2. PICK F : Flattens(F, <<>>, Nat)
  BY <1>1, Flattened
<1>3. QED
  BY <1>1, <1>2 DEF Flattens

(* h has w members; the first w of h2 are those of h. *)
Lists(h, w) == h = [p \in 1..w |-> h[p]]
Continues(h2, h, w) == \A p \in 1..w : h2[p] = h[p]

\* A sequence that continues another by one member appends it.
LEMMA ContinuesByOne ==
    ASSUME NEW w \in Nat, NEW h, NEW h2, Lists(h, w), Lists(h2, w + 1), Continues(h2, h, w)
    PROVE  h2 = Append(h, h2[w + 1])
<1> DEFINE v == w + 1
<1>1. v \in Nat /\ v = w + 1
  OBVIOUS
<1>2. h2 = [p \in 1..v |-> h2[p]] /\ h = [p \in 1..w |-> h[p]] /\ \A p \in 1..w : h2[p] = h[p]
  BY DEF Lists, Continues
<1> HIDE DEF v
<1>3. h \in Seq({h[p] : p \in 1..w}) /\ Len(h) = w
  BY <1>1, <1>2
<1>4. Append(h, h2[v]) = [p \in 1..v |-> IF p <= w THEN h[p] ELSE h2[v]]
  BY <1>1, <1>3
<1>5. ASSUME NEW p \in 1..v PROVE h2[p] = IF p <= w THEN h[p] ELSE h2[v]
  <2>1. p <= w => p \in 1..w
    BY <1>1
  <2>2. ~ (p <= w) => p = v
    BY <1>1
  <2>3. QED
    BY <1>2, <2>1, <2>2
<1>6. h2 = [p \in 1..v |-> IF p <= w THEN h[p] ELSE h2[v]]
  BY <1>2, <1>5
<1>7. QED
  BY <1>4, <1>6 DEF v

\* One part more adds what is written, given and meant by it.
LEMMA PartAdded ==
    ASSUME NEW parts \in Seq(FormatParts), NEW part \in FormatParts
    PROVE  /\ FormatOf(Append(parts, part)) = FormatOf(parts) \o Format(part)
           /\ ArgumentsOf(Append(parts, part)) = ArgumentsOf(parts) \o Arguments(part)
           /\ MeaningOf(Append(parts, part)) = MeaningOf(parts) \o Meaning(part)
<1> DEFINE q == Append(parts, part)
           w == Len(parts)
           v == w + 1
           fs == [p \in DOMAIN parts |-> Format(parts[p])]
           as == [p \in DOMAIN parts |-> Arguments(parts[p])]
           ms == [p \in DOMAIN parts |-> Meaning(parts[p])]
           fs2 == [p \in DOMAIN q |-> Format(q[p])]
           as2 == [p \in DOMAIN q |-> Arguments(q[p])]
           ms2 == [p \in DOMAIN q |-> Meaning(q[p])]
<1>1. /\ q \in Seq(FormatParts) /\ w \in Nat /\ Len(q) = v /\ q[v] = part /\ v \in DOMAIN q
      /\ \A p \in 1..w : q[p] = parts[p] /\ p \in DOMAIN parts /\ p \in DOMAIN q
  OBVIOUS
<1>2. /\ fs \in Seq(Seq(Nat)) /\ as \in Seq(Seq(ArgumentSet)) /\ ms \in Seq(Seq(Nat))
      /\ DOMAIN parts = 1..w
  BY FormatsMapped
<1>3. /\ fs2 \in Seq(Seq(Nat)) /\ as2 \in Seq(Seq(ArgumentSet)) /\ ms2 \in Seq(Seq(Nat))
      /\ DOMAIN q = 1..v
  <2> HIDE DEF q
  <2> QED
    BY <1>1, FormatsMapped
<1>4. /\ fs2[v] = Format(part) /\ as2[v] = Arguments(part) /\ ms2[v] = Meaning(part)
      /\ \A p \in 1..w : fs2[p] = fs[p] /\ as2[p] = as[p] /\ ms2[p] = ms[p]
  <2> HIDE DEF q
  <2> QED
    BY <1>1
<1>5. Lists(fs, w) /\ Lists(as, w) /\ Lists(ms, w)
  BY <1>2 DEF Lists
<1>6. Lists(fs2, w + 1) /\ Lists(as2, w + 1) /\ Lists(ms2, w + 1)
  <2> HIDE DEF q
  <2> QED
    BY <1>3 DEF Lists
<1>0. Continues(fs2, fs, w) /\ Continues(as2, as, w) /\ Continues(ms2, ms, w)
  BY <1>4 DEF Continues
<1>7. Format(part) \in Seq(Nat) /\ Arguments(part) \in Seq(ArgumentSet) /\ Meaning(part) \in Seq(Nat)
  <2>1. v \in 1..v
    BY <1>1
  <2>2. fs2[v] \in Seq(Nat) /\ as2[v] \in Seq(ArgumentSet) /\ ms2[v] \in Seq(Nat)
    <3> HIDE DEF fs2, as2, ms2, q
    <3>1. \A S : \A r \in Seq(Seq(S)) : \A p \in DOMAIN r : r[p] \in Seq(S)
      OBVIOUS
    <3>2. DOMAIN fs2 = 1..v /\ DOMAIN as2 = 1..v /\ DOMAIN ms2 = 1..v
      BY <1>3 DEF fs2, as2, ms2
    <3>3. QED
      BY <1>3, <2>1, <3>1, <3>2
  <2>3. QED
    BY <1>4, <2>2
<1>8. /\ FormatOf(q) = FlattenSeq(fs2) /\ ArgumentsOf(q) = FlattenSeq(as2) /\ MeaningOf(q) = FlattenSeq(ms2)
      /\ FormatOf(parts) = FlattenSeq(fs) /\ ArgumentsOf(parts) = FlattenSeq(as)
      /\ MeaningOf(parts) = FlattenSeq(ms)
  BY DEF FormatOf, ArgumentsOf, MeaningOf
<1> HIDE DEF fs, as, ms, fs2, as2, ms2, w
<1>9. fs2 = Append(fs, Format(part)) /\ as2 = Append(as, Arguments(part)) /\ ms2 = Append(ms, Meaning(part))
  <2>1. fs2 = Append(fs, fs2[v])
    BY <1>0, <1>1, <1>5, <1>6, ContinuesByOne
  <2>2. as2 = Append(as, as2[v])
    BY <1>0, <1>1, <1>5, <1>6, ContinuesByOne
  <2>3. ms2 = Append(ms, ms2[v])
    BY <1>0, <1>1, <1>5, <1>6, ContinuesByOne
  <2>4. QED
    BY <1>4, <2>1, <2>2, <2>3
<1>10. /\ FlattenSeq(fs2) = FlattenSeq(fs) \o Format(part)
       /\ FlattenSeq(as2) = FlattenSeq(as) \o Arguments(part)
       /\ FlattenSeq(ms2) = FlattenSeq(ms) \o Meaning(part)
  BY <1>2, <1>7, <1>9, FlattenedAppend
<1>11. QED
  BY <1>8, <1>10 DEF q

(* ft_printf writes the text for the format and the arguments. *)
Stands(format, args, text) ==
    \E parts \in Seq(FormatParts) :
       format = FormatOf(parts) /\ args = ArgumentsOf(parts) /\ text = MeaningOf(parts)

\* It does.
LEMMA StandsPrinted ==
    ASSUME NEW format, NEW args, NEW text, Stands(format, args, text)
    PROVE  Text(format, args) = text
BY PrintfMeans DEF Stands, Text

\* An empty format writes nothing.
LEMMA StandsNothing == Stands(<<>>, <<>>, <<>>)
<1>1. <<>> \in Seq(FormatParts)
  OBVIOUS
<1>2. /\ [p \in DOMAIN <<>> |-> Format(<<>>[p])] = <<>>
      /\ [p \in DOMAIN <<>> |-> Arguments(<<>>[p])] = <<>>
      /\ [p \in DOMAIN <<>> |-> Meaning(<<>>[p])] = <<>>
  OBVIOUS
<1>3. FormatOf(<<>>) = <<>> /\ ArgumentsOf(<<>>) = <<>> /\ MeaningOf(<<>>) = <<>>
  BY <1>2, FlattenedNothing DEF FormatOf, ArgumentsOf, MeaningOf
<1>4. QED
  BY <1>1, <1>3 DEF Stands

\* A part can be added.
LEMMA StandsPart ==
    ASSUME NEW format, NEW args, NEW text, Stands(format, args, text), NEW part \in FormatParts
    PROVE  Stands(format \o Format(part), args \o Arguments(part), text \o Meaning(part))
<1>1. PICK parts \in Seq(FormatParts) :
         format = FormatOf(parts) /\ args = ArgumentsOf(parts) /\ text = MeaningOf(parts)
  BY DEF Stands
<1>2. Append(parts, part) \in Seq(FormatParts)
  OBVIOUS
<1>3. QED
  BY <1>1, <1>2, PartAdded DEF Stands

\* Formats, arguments and texts are sequences.
LEMMA StandsTyped ==
    ASSUME NEW format, NEW args, NEW text, Stands(format, args, text)
    PROVE  format \in Seq(Nat) /\ args \in Seq(ArgumentSet) /\ text \in Seq(Nat)
<1>1. PICK parts \in Seq(FormatParts) :
         format = FormatOf(parts) /\ args = ArgumentsOf(parts) /\ text = MeaningOf(parts)
  BY DEF Stands
<1>2. \A S : \A seqs \in Seq(Seq(S)) : FlattenSeq(seqs) \in Seq(S)
  <2>1. ASSUME NEW S, NEW seqs \in Seq(Seq(S)) PROVE FlattenSeq(seqs) \in Seq(S)
    <3>1. PICK F : Flattens(F, seqs, S)
      BY Flattened
    <3>2. Len(seqs) \in 0..Len(seqs)
      OBVIOUS
    <3>3. QED
      BY <3>1, <3>2 DEF Flattens
  <2>2. QED
    BY <2>1
<1>3. QED
  BY <1>1, <1>2, FormatsMapped DEF FormatOf, ArgumentsOf, MeaningOf

\* A character of the format is written as it is.
LEMMA StandsText ==
    ASSUME NEW format, NEW args, NEW text, Stands(format, args, text), NEW b \in Nat \ {Percent}
    PROVE  Stands(format \o <<b>>, args, text \o <<b>>)
<1> DEFINE part == <<"text", b>>
<1>1. part \in FormatParts
  BY DEF FormatParts
<1>2. Format(part) = <<b>> /\ Arguments(part) = <<>> /\ Meaning(part) = <<b>>
  BY DEF Format, Arguments, Meaning
<1>3. args \o <<>> = args
  BY StandsTyped
<1> HIDE DEF part
<1>4. Stands(format \o Format(part), args \o Arguments(part), text \o Meaning(part))
  BY <1>1, StandsPart
<1>5. QED
  BY <1>2, <1>3, <1>4

\* %s writes its argument.
LEMMA StandsString ==
    ASSUME NEW format, NEW args, NEW text, Stands(format, args, text), NEW s \in Seq(Nat)
    PROVE  Stands(format \o FormatS, args \o <<s>>, text \o s)
<1> DEFINE part == <<"%s", s>>
<1>1. part \in FormatParts
  BY DEF FormatParts
<1>2. s # NullString
  BY NullAssumption
<1>3. Format(part) = FormatS /\ Arguments(part) = <<s>> /\ Meaning(part) = s
  BY <1>2 DEF Format, Arguments, Meaning, FormatS
<1> HIDE DEF part
<1>4. Stands(format \o Format(part), args \o Arguments(part), text \o Meaning(part))
  BY <1>1, StandsPart
<1>5. QED
  BY <1>3, <1>4

\* What the largest numbers come to.
LEMMA LargestNumbers ==
    /\ IntMax \in Nat /\ LongMax \in Nat /\ IntMax <= LongMax /\ 1 <= IntMax
    /\ \A k \in 0..IntMax : Signed(k, IntBits) = k
    /\ \A k \in 0..LongMax : k \in ULongs /\ k \in -LongMax..LongMax
<1>1. PICK h, m, top, times : WidthsAre(h, m, top, times)
  BY Widths
<1>2. IntMax = h - 1
  BY <1>1 DEF WidthsAre, IntMax
<1>3. IntMax \in Nat /\ LongMax \in Nat /\ IntMax <= LongMax /\ 1 <= IntMax
  BY <1>1, <1>2 DEF WidthsAre
<1>4. ASSUME NEW k \in 0..IntMax PROVE Signed(k, IntBits) = k
  <2>1. k \in -Power(2, IntBits - 1)..Power(2, IntBits - 1) - 1 /\ IntBits \in Nat \ {0}
    BY <1>1, <1>2, WidthsAssumption DEF WidthsAre
  <2>2. QED
    BY <2>1, SignedFits
<1>5. \A k \in 0..LongMax : k \in ULongs /\ k \in -LongMax..LongMax
  BY <1>1 DEF WidthsAre
<1>6. QED
  BY <1>3, <1>4, <1>5

\* %d and %ld write numbers that fit in decimal.
LEMMA StandsNumber ==
    ASSUME NEW format, NEW args, NEW text, Stands(format, args, text)
    PROVE  /\ \A k \in 0..IntMax : Stands(format \o FormatD, args \o <<k>>, text \o Decimal(k))
           /\ \A k \in 0..LongMax : Stands(format \o FormatLd, args \o <<k>>, text \o Decimal(k))
<1>1. ASSUME NEW k \in 0..IntMax
      PROVE  Stands(format \o FormatD, args \o <<k>>, text \o Decimal(k))
  <2> DEFINE part == <<"%d", k>>
  <2>1. k \in 0..LongMax
    BY LargestNumbers
  <2>2. part \in FormatParts
    BY <2>1, LargestNumbers DEF FormatParts, Numeric
  <2>3. Signed(k, IntBits) = k
    BY LargestNumbers
  <2>4. Format(part) = FormatD /\ Arguments(part) = <<k>> /\ Meaning(part) = Decimal(k)
    BY <2>3 DEF Format, Arguments, Meaning, FormatD
  <2> HIDE DEF part
  <2>5. Stands(format \o Format(part), args \o Arguments(part), text \o Meaning(part))
    BY <2>2, StandsPart
  <2>6. QED
    BY <2>4, <2>5
<1>2. ASSUME NEW k \in 0..LongMax
      PROVE  Stands(format \o FormatLd, args \o <<k>>, text \o Decimal(k))
  <2> DEFINE part == <<"%ld", k>>
  <2>1. part \in FormatParts
    BY LargestNumbers DEF FormatParts, Numeric
  <2>2. Format(part) = FormatLd /\ Arguments(part) = <<k>> /\ Meaning(part) = Decimal(k)
    BY DEF Format, Arguments, Meaning, FormatLd
  <2> HIDE DEF part
  <2>3. Stands(format \o Format(part), args \o Arguments(part), text \o Meaning(part))
    BY <2>1, StandsPart
  <2>4. QED
    BY <2>2, <2>3
<1>3. QED
  BY <1>1, <1>2

(* A word that can stand in a line between blanks. *)
Field(w) == w \in Seq(Nat) /\ w # <<>> /\ \A l \in 1..Len(w) : w[l] # Space /\ w[l] # Newline

\* A number is one.
LEMMA DecimalIsField == ASSUME NEW k \in 0..LongMax PROVE Field(Decimal(k))
<1>1. k \in ULongs
  BY LargestNumbers
<1>2. Decimal(k) = Numeral(k, 10, Lower) /\ Decimal(k) \in Seq(Nat) /\ Len(Decimal(k)) \in Nat \ {0}
  BY <1>1, DecimalOfNat
<1>3. PICK p : DigitPrefixes(p, k)
  BY <1>1, DigitPrefixesExist
<1>4. \A l \in 1..Len(Decimal(k)) : IsDigit(Decimal(k)[l])
  BY <1>2, <1>3 DEF DigitPrefixes
<1>5. \A b : IsDigit(b) => b # Space /\ b # Newline
  BY DEF IsDigit, Space, Newline
<1>6. Decimal(k) # <<>>
  BY <1>2
<1>7. QED
  BY <1>2, <1>4, <1>5, <1>6 DEF Field

(* A part of a line with the fields W. *)
Row(t, W) == HasWords(t, Space, W) /\ \A l \in 1..Len(t) : t[l] # Newline

\* The beginning of a line.
LEMMA RowNothing == Row(<<>>, <<>>) /\ Ended(<<>>, Space)
<1>1. HasWords(<<>>, Space, <<>>)
  BY NoWords
<1>2. \A l \in 1..Len(<<>>) : <<>>[l] # Newline
  OBVIOUS
<1>3. QED
  BY <1>1, <1>2 DEF Row, Ended

\* What a part is made of.
LEMMA RowTyped == ASSUME NEW t, NEW W, Row(t, W) PROVE t \in Seq(Nat) /\ W \in Seq(Seq(Nat))
BY DEF Row, HasWords

\* A blank.
LEMMA RowSpace ==
    ASSUME NEW t, NEW W, Row(t, W)
    PROVE  Row(t \o <<Space>>, W) /\ Ended(t \o <<Space>>, Space)
<1>1. t \in Seq(Nat) /\ HasWords(t, Space, W) /\ Space \in Nat /\ Space # Newline
  BY RowTyped DEF Row, Space, Newline
<1>2. HasWords(t \o <<Space>>, Space, W) /\ Ended(t \o <<Space>>, Space)
  BY <1>1, DelimiterAdded
<1>3. \A l \in 1..Len(t) : t[l] # Newline
  BY DEF Row
<1>4. ASSUME NEW l \in 1..Len(t \o <<Space>>) PROVE (t \o <<Space>>)[l] # Newline
  <2>1. Len(t \o <<Space>>) = Len(t) + 1 /\ (t \o <<Space>>)[Len(t) + 1] = Space
    BY <1>1
  <2>2. \A x \in 1..Len(t) : (t \o <<Space>>)[x] = t[x]
    BY <1>1
  <2>3. CASE l = Len(t) + 1
    BY <1>1, <2>1, <2>3
  <2>4. CASE l # Len(t) + 1
    <3>1. l \in 1..Len(t)
      BY <1>1, <2>1, <2>4
    <3>2. QED
      BY <1>3, <2>2, <3>1
  <2>5. QED
    BY <2>3, <2>4
<1>5. QED
  BY <1>2, <1>4 DEF Row

\* A field after a blank.
LEMMA RowField ==
    ASSUME NEW t, NEW W, Row(t, W), Ended(t, Space), NEW w, Field(w)
    PROVE  Row(t \o w, Append(W, w))
<1>1. t \in Seq(Nat) /\ HasWords(t, Space, W) /\ Space \in Nat
  BY RowTyped DEF Row, Space
<1>2. w \in Seq(Nat) /\ w # <<>> /\ \A l \in 1..Len(w) : w[l] # Space /\ w[l] # Newline
  BY DEF Field
<1>3. HasWords(t \o w, Space, Append(W, w))
  BY <1>1, <1>2, WordAdded
<1>4. \A l \in 1..Len(t) : t[l] # Newline
  BY DEF Row
<1>5. ASSUME NEW l \in 1..Len(t \o w) PROVE (t \o w)[l] # Newline
  <2>1. Len(t \o w) = Len(t) + Len(w) /\ Len(t) \in Nat /\ Len(w) \in Nat
    BY <1>1, <1>2
  <2>2. \A x \in 1..Len(t) : (t \o w)[x] = t[x]
    BY <1>1, <1>2
  <2>3. \A x \in 1..Len(w) : (t \o w)[Len(t) + x] = w[x]
    BY <1>1, <1>2
  <2>4. CASE l <= Len(t)
    <3>1. l \in 1..Len(t)
      BY <2>1, <2>4
    <3>2. QED
      BY <1>4, <2>2, <3>1
  <2>5. CASE l > Len(t)
    <3>1. l - Len(t) \in 1..Len(w) /\ Len(t) + (l - Len(t)) = l
      BY <2>1, <2>5
    <3>2. QED
      BY <1>2, <2>3, <3>1
  <2>6. QED
    BY <2>1, <2>4, <2>5
<1>6. QED
  BY <1>3, <1>5 DEF Row

----------------------------------------------------------------------------
(* Listings: dates and permissions. *)

\* What is between a beginning and an end.
LEMMA PartInside ==
    ASSUME NEW s \in Seq(Nat), NEW t \in Seq(Nat), NEW u \in Seq(Nat)
    PROVE  SubSeq((s \o t) \o u, Len(s) + 1, Len(s) + Len(t)) = t
<1> DEFINE p == s \o t
           v == p \o u
           a == Len(s) + 1
           b == Len(p)
<1>1. p \in Seq(Nat) /\ b = Len(s) + Len(t) /\ Len(s) \in Nat /\ Len(t) \in Nat /\ SubSeq(p, a, b) = t
  <2>1. p \in Seq(Nat) /\ b = Len(s) + Len(t) /\ Len(s) \in Nat /\ Len(t) \in Nat
    OBVIOUS
  <2>2. SubSeq(p, a, b) = t
    BY AfterFront
  <2>3. QED
    BY <2>1, <2>2
<1> HIDE DEF p
<1>2. v \in Seq(Nat) /\ b <= Len(v) /\ b \in Nat /\ \A x \in 1..b : v[x] = p[x]
  BY <1>1
<1>3. a \in Nat \ {0} /\ b <= Len(p) /\ \A x \in a..b : x \in 1..b
  BY <1>1
<1> HIDE DEF v, a, b
<1>4. \A x \in a..b : v[x] = p[x]
  BY <1>2, <1>3
<1>5. SubSeq(v, a, b) = SubSeq(p, a, b)
  BY <1>1, <1>2, <1>3, <1>4, PartSame
<1>6. SubSeq(v, a, b) = t
  BY <1>1, <1>5
<1>7. QED
  BY <1>1, <1>6 DEF v, p, a

(* One text after another; texts, and texts of k characters. *)
Cat(s, t) == s \o t
IsText(s) == s \in Seq(Nat)
Wide(s, k) == s \in Seq(Nat) /\ Len(s) = k

\* It is a text, of their length.
LEMMA CatTyped ==
    /\ \A s, t : IsText(s) /\ IsText(t) => IsText(Cat(s, t))
    /\ \A s, t : \A k, l \in Nat : Wide(s, k) /\ Wide(t, l) => Wide(Cat(s, t), k + l)
    /\ \A s, k : Wide(s, k) => IsText(s)
<1>1. ASSUME NEW s \in Seq(Nat), NEW t \in Seq(Nat) PROVE IsText(Cat(s, t)) /\ Wide(Cat(s, t), Len(s) + Len(t))
  BY DEF IsText, Wide, Cat
<1>2. QED
  BY <1>1 DEF IsText, Wide

\* Three can be put together from either end.
LEMMA CatRegroup ==
    \A s, t, u : IsText(s) /\ IsText(t) /\ IsText(u) => Cat(Cat(s, t), u) = Cat(s, Cat(t, u))
<1>1. ASSUME NEW s \in Seq(Nat), NEW t \in Seq(Nat), NEW u \in Seq(Nat) PROVE Cat(Cat(s, t), u) = Cat(s, Cat(t, u))
  BY TextsRegroup DEF Cat
<1>2. QED
  BY <1>1 DEF IsText

\* What is between a beginning and an end.
LEMMA CatInside ==
    ASSUME NEW s, NEW t, NEW u, Wide(s, 4), Wide(t, 12), IsText(u)
    PROVE  SubSeq(Cat(Cat(s, t), u), 5, 16) = t
<1>1. s \in Seq(Nat) /\ t \in Seq(Nat) /\ u \in Seq(Nat) /\ Len(s) = 4 /\ Len(t) = 12
  BY DEF Wide, IsText
<1>2. SubSeq((s \o t) \o u, Len(s) + 1, Len(s) + Len(t)) = t
  BY <1>1, PartInside
<1>3. Len(s) + 1 = 5 /\ Len(s) + Len(t) = 16
  BY <1>1
<1>4. QED
  BY <1>2, <1>3, Zenon DEF Cat

\* The twelve characters after the first four of a date.
LEMMA TimePart ==
    ASSUME NEW v, NEW p, NEW q, NEW r, NEW t, NEW x, NEW y, NEW z,
           Wide(v, 3), Wide(p, 3), Wide(q, 2), Wide(r, 5), Wide(x, 1), IsText(t), IsText(y), IsText(z)
    PROVE  LET m == Cat(Cat(Cat(Cat(p, x), q), x), r)
               f == Cat(Cat(Cat(Cat(Cat(Cat(v, x), p), x), q), x), r)
           IN  IsText(m) /\ SubSeq(Cat(Cat(Cat(Cat(f, t), x), y), z), 5, 16) = m
<1> DEFINE m1 == Cat(p, x)
           m2 == Cat(m1, q)
           m3 == Cat(m2, x)
           m == Cat(m3, r)
           h == Cat(v, x)
           g == Cat(h, m)
           e1 == Cat(t, x)
           e2 == Cat(e1, y)
           e == Cat(e2, z)
<1>0. IsText(v) /\ IsText(p) /\ IsText(q) /\ IsText(r) /\ IsText(x)
  BY CatTyped
<1>1. Wide(h, 4) /\ IsText(h)
  <2>1. Wide(h, 3 + 1)
    BY CatTyped
  <2>2. QED
    BY <2>1, CatTyped
<1>2. Wide(m, 12) /\ IsText(m1) /\ IsText(m2) /\ IsText(m3) /\ IsText(m)
  <2>1. Wide(m1, 3 + 1)
    BY CatTyped
  <2>2. Wide(m2, 4 + 2)
    BY <2>1, CatTyped
  <2>3. Wide(m3, 6 + 1)
    BY <2>2, CatTyped
  <2>4. Wide(m, 7 + 5)
    BY <2>3, CatTyped
  <2> HIDE DEF m, m1, m2, m3
  <2>5. QED
    BY <2>1, <2>2, <2>3, <2>4, CatTyped
<1>3. Cat(Cat(Cat(Cat(Cat(h, p), x), q), x), r) = g
  <2>1. Cat(Cat(h, p), x) = Cat(h, m1)
    BY <1>0, <1>1, CatRegroup
  <2>2. Cat(Cat(h, m1), q) = Cat(h, m2)
    BY <1>0, <1>1, <1>2, CatRegroup
  <2>3. Cat(Cat(h, m2), x) = Cat(h, m3)
    BY <1>0, <1>1, <1>2, CatRegroup
  <2>4. Cat(Cat(h, m3), r) = g
    BY <1>0, <1>1, <1>2, CatRegroup
  <2>5. QED
    BY <2>1, <2>2, <2>3, <2>4
<1>4. IsText(g)
  BY <1>1, <1>2, CatTyped
<1>5. IsText(e1) /\ IsText(e2) /\ IsText(e)
  BY <1>0, CatTyped
<1>6. Cat(Cat(Cat(Cat(g, t), x), y), z) = Cat(g, e)
  <2> HIDE DEF g
  <2>1. Cat(Cat(g, t), x) = Cat(g, e1)
    BY <1>0, <1>4, CatRegroup
  <2>2. Cat(Cat(g, e1), y) = Cat(g, e2)
    BY <1>4, <1>5, CatRegroup
  <2>3. Cat(Cat(g, e2), z) = Cat(g, e)
    BY <1>4, <1>5, CatRegroup
  <2>4. QED
    BY <2>1, <2>2, <2>3
<1>7. SubSeq(Cat(g, e), 5, 16) = m
  <2> HIDE DEF h, m, e
  <2>1. QED
    BY <1>1, <1>2, <1>5, CatInside DEF g
<1>8. QED
  BY <1>2, <1>3, <1>6, <1>7

(* A date as ctime writes it: a day has two characters, a blank the first of them or none. *)
TimeOK(time) ==
    /\ time.weekday \in Seq(Nat) /\ Len(time.weekday) = 3
    /\ Field(time.month) /\ Len(time.month) = 3
    /\ time.day \in Seq(Nat) /\ Len(time.day) = 2 /\ Field(DayField(time.day))
    /\ Field(time.clock) /\ Len(time.clock) = 5
    /\ time.second \in Seq(Nat) /\ time.year \in Seq(Nat)

(* The part of it that is shown. *)
TimeText(time) == (((time.month \o <<Space>>) \o time.day) \o <<Space>>) \o time.clock

\* It is what get_time cuts out.
LEMMA GetTimeIs ==
    ASSUME NEW time, TimeOK(time) PROVE GetTime(time) = TimeText(time) /\ TimeText(time) \in Seq(Nat)
<1> DEFINE v == time.weekday
           p == time.month
           q == time.day
           r == time.clock
           t == time.second
           y == time.year
           x == <<Space>>
           z == <<Newline>>
           m == Cat(Cat(Cat(Cat(p, x), q), x), r)
           f == Cat(Cat(Cat(Cat(Cat(Cat(v, x), p), x), q), x), r)
<1>1. Wide(v, 3) /\ Wide(p, 3) /\ Wide(q, 2) /\ Wide(r, 5) /\ IsText(t) /\ IsText(y)
  BY DEF TimeOK, Field, Wide, IsText
<1>2. Wide(x, 1) /\ IsText(z)
  BY DEF Space, Newline, Wide, IsText
<1>3. Ctime(time) = Cat(Cat(Cat(Cat(f, t), x), y), z)
  BY DEF Ctime, Cat
<1>4. TimeText(time) = m
  BY DEF TimeText, Cat
<1> HIDE DEF v, p, q, r, t, y, x, z
<1>5. IsText(m) /\ SubSeq(Cat(Cat(Cat(Cat(f, t), x), y), z), 5, 16) = m
  BY <1>1, <1>2, TimePart
<1> HIDE DEF m, f
<1>6. QED
  BY <1>3, <1>4, <1>5 DEF GetTime, IsText

(* The mode of a file of ft_ls. *)
ModeOK(mode) == mode.type \in {"file", "directory", "link"} /\ mode.bits \in SUBSET (1..9)

(* u has the members of s and then those of t. *)
Joined(u, s, t, S) ==
    /\ u \in Seq(S) /\ Len(u) = Len(s) + Len(t)
    /\ \A x \in 1..Len(s) : u[x] = s[x]
    /\ \A x \in 1..Len(t) : u[Len(s) + x] = t[x]

\* One sequence after another does.
LEMMA JoinedAt ==
    ASSUME NEW S, NEW s \in Seq(S), NEW t \in Seq(S) PROVE Joined(s \o t, s, t, S)
BY DEF Joined

\* Nine characters after one.
LEMMA FieldAfter ==
    ASSUME NEW s \in Seq(Nat), NEW t \in Seq(Nat), Len(s) = 1, Len(t) = 9
    PROVE  /\ s \o t \in Seq(Nat) /\ Len(s \o t) = 10 /\ (s \o t)[1] = s[1]
           /\ \A k \in 1..9 : (s \o t)[1 + k] = t[k]
<1> DEFINE u == s \o t
           w == Len(s)
           v == Len(t)
<1>1. /\ u \in Seq(Nat) /\ Len(u) = w + v /\ \A x \in 1..w : u[x] = s[x]
      /\ \A x \in 1..v : u[w + x] = t[x]
  <2>1. Joined(s \o t, s, t, Nat)
    BY JoinedAt
  <2> HIDE DEF u
  <2>2. Joined(u, s, t, Nat)
    BY <2>1 DEF u
  <2>3. QED
    BY <2>2 DEF Joined
<1>2. w = 1 /\ v = 9
  OBVIOUS
<1> HIDE DEF u, w, v
<1>3. 1 \in 1..w /\ \A k \in 1..9 : k \in 1..v /\ w + k = 1 + k
  BY <1>2
<1>4. /\ u \in Seq(Nat) /\ Len(u) = 10 /\ u[1] = s[1] /\ \A k \in 1..9 : u[1 + k] = t[k]
  BY <1>1, <1>2, <1>3
<1>5. QED
  BY <1>4 DEF u

\* The permissions are a field that tells the bits.
LEMMA PermissionsShow ==
    ASSUME NEW mode, ModeOK(mode)
    PROVE  /\ Field(GetPermissions(mode))
           /\ {b \in 1..9 : GetPermissions(mode)[b + 1] # Dash} = mode.bits
           /\ GetPermissions(mode)[1] = TypeLetter(mode.type)
<1> DEFINE x == TypeLetter(mode.type)
           g == [k \in 1..9 |-> IF k \in mode.bits THEN Letter(k) ELSE Dash]
           p == GetPermissions(mode)
<1>1. x \in {100, 108, 45}
  BY DEF TypeLetter, Dash
<1>2. \A k \in 1..9 : Letter(k) \in {114, 119, 120}
  BY DEF Letter
<1>3. \A k \in 1..9 : g[k] \in {114, 119, 120, 45} /\ (g[k] # Dash <=> k \in mode.bits)
  BY <1>2 DEF Dash
<1>4. g \in Seq(Nat) /\ Len(g) = 9
  BY <1>3
<1>5. p = <<x>> \o g
  BY DEF GetPermissions
<1> HIDE DEF x, g, p
<1>6. <<x>> \in Seq(Nat) /\ Len(<<x>>) = 1 /\ <<x>>[1] = x
  BY <1>1
<1> DEFINE h == <<x>>
<1> HIDE DEF h
<1>7. p \in Seq(Nat) /\ Len(p) = 10 /\ p[1] = x /\ \A k \in 1..9 : p[k + 1] = g[k]
  <2>1. h \in Seq(Nat) /\ Len(h) = 1 /\ h[1] = x
    BY <1>6 DEF h
  <2> HIDE DEF g
  <2>2. h \o g \in Seq(Nat) /\ Len(h \o g) = 10 /\ (h \o g)[1] = h[1]
    BY <1>4, <2>1, FieldAfter
  <2>3. \A k \in 1..9 : (h \o g)[1 + k] = g[k]
    BY <1>4, <2>1, FieldAfter
  <2>4. p = h \o g
    BY <1>5 DEF h
  <2>5. \A k \in 1..9 : k + 1 = 1 + k
    OBVIOUS
  <2>6. \A k \in 1..9 : p[k + 1] = g[k]
    BY <2>3, <2>4, <2>5
  <2>7. QED
    BY <2>1, <2>2, <2>4, <2>6
<1>8. \A l \in 1..10 : p[l] # Space /\ p[l] # Newline
  <2>1. ASSUME NEW l \in 1..10 PROVE p[l] \in {100, 108, 45, 114, 119, 120}
    <3>1. CASE l = 1
      BY <1>1, <1>7, <3>1
    <3>2. CASE l # 1
      <4>1. l - 1 \in 1..9 /\ (l - 1) + 1 = l
        BY <3>2
      <4>2. p[l] = g[l - 1]
        BY <1>7, <4>1
      <4>3. QED
        BY <1>3, <4>1, <4>2
    <3>3. QED
      BY <3>1, <3>2
  <2>2. QED
    BY <2>1 DEF Space, Newline
<1>9. p # <<>>
  <2>1. SUFFICES ASSUME p = <<>> PROVE FALSE
    OBVIOUS
  <2>2. Len(p) = 0
    BY <2>1
  <2>3. QED
    BY <1>7, <2>2
<1>10. Field(p)
  BY <1>7, <1>8, <1>9 DEF Field
<1>11. {b \in 1..9 : p[b + 1] # Dash} = mode.bits
  <2>1. mode.bits \in SUBSET (1..9)
    BY DEF ModeOK
  <2>2. ASSUME NEW k \in 1..9 PROVE p[k + 1] # Dash <=> k \in mode.bits
    <3>1. p[k + 1] = g[k]
      BY <1>7
    <3>2. g[k] # Dash <=> k \in mode.bits
      BY <1>3
    <3>3. QED
      BY <3>1, <3>2
  <2> DEFINE B == mode.bits
             q == [k \in 1..9 |-> p[k + 1]]
  <2>3. \A k \in 1..9 : q[k] = p[k + 1]
    OBVIOUS
  <2>4. B \in SUBSET (1..9) /\ \A k \in 1..9 : q[k] # Dash <=> k \in B
    BY <2>1, <2>2, <2>3
  <2>5. {b \in 1..9 : p[b + 1] # Dash} = {b \in 1..9 : q[b] # Dash}
    BY <2>3
  <2> HIDE DEF B, q
  <2>6. {b \in 1..9 : q[b] # Dash} = B
    BY <2>4
  <2>7. QED
    BY <2>5, <2>6 DEF B
<1>12. QED
  BY <1>7, <1>10, <1>11 DEF p, x

\* Nothing before a text.
LEMMA NothingBefore == ASSUME NEW S, NEW s \in Seq(S) PROVE <<>> \o s = s
OBVIOUS

\* The first part of a format.
LEMMA StandsFirst ==
    /\ \A s \in Seq(Nat) : Stands(FormatS, <<s>>, s)
    /\ \A b \in Nat \ {Percent} : Stands(<<b>>, <<>>, <<b>>)
<1>1. ASSUME NEW s \in Seq(Nat) PROVE Stands(FormatS, <<s>>, s)
  <2>1. Stands(<<>> \o FormatS, <<>> \o <<s>>, <<>> \o s)
    BY StandsNothing, StandsString
  <2>2. FormatS \in Seq(Nat)
    BY DEF FormatS, Percent, LetterS
  <2>3. <<>> \o FormatS = FormatS /\ <<>> \o s = s
    BY <2>2, NothingBefore
  <2>4. <<>> \o <<s>> = <<s>>
    OBVIOUS
  <2>5. QED
    BY <2>1, <2>3, <2>4
<1>2. ASSUME NEW b \in Nat \ {Percent} PROVE Stands(<<b>>, <<>>, <<b>>)
  <2>1. Stands(<<>> \o <<b>>, <<>>, <<>> \o <<b>>)
    BY StandsNothing, StandsText
  <2>2. <<>> \o <<b>> = <<b>>
    OBVIOUS
  <2>3. QED
    BY <2>1, <2>2
<1>3. QED
  BY <1>1, <1>2

\* Three arguments.
LEMMA ThreeArguments ==
    ASSUME NEW x, NEW y, NEW z
    PROVE  <<x>> \o <<y>> = <<x, y>> /\ <<x, y>> \o <<z>> = <<x, y, z>> /\ <<>> \o <<x>> = <<x>>
<1> DEFINE S == {x, y, z}
           a == <<x>> \o <<y>>
           b == <<x, y>>
           c1 == <<x, y>> \o <<z>>
           d == <<x, y, z>>
<1>0. x \in S /\ y \in S /\ z \in S
  OBVIOUS
<1> HIDE DEF S
<1>1. a \in Seq(S) /\ Len(a) = 2 /\ a[1] = x /\ a[2] = y
  BY <1>0
<1>2. b \in Seq(S) /\ Len(b) = 2 /\ b[1] = x /\ b[2] = y
  BY <1>0
<1>3. c1 \in Seq(S) /\ Len(c1) = 3 /\ c1[1] = x /\ c1[2] = y /\ c1[3] = z
  BY <1>0
<1>4. d \in Seq(S) /\ Len(d) = 3 /\ d[1] = x /\ d[2] = y /\ d[3] = z
  BY <1>0
<1> HIDE DEF a, b, c1, d
<1>5. a = b
  <2>1. \A k \in 1..2 : a[k] = b[k]
    BY <1>1, <1>2
  <2>2. QED
    BY <1>1, <1>2, <2>1, SeqEqual
<1>6. c1 = d
  <2>1. \A k \in 1..3 : c1[k] = d[k]
    BY <1>3, <1>4
  <2>2. QED
    BY <1>3, <1>4, <2>1, SeqEqual
<1>7. <<>> \o <<x>> = <<x>>
  <2>1. <<x>> \in Seq(S)
    BY <1>0
  <2>2. QED
    BY <2>1, NothingBefore
<1>8. QED
  BY <1>5, <1>6, <1>7 DEF a, b, c1, d

\* A blank and a newline may be in a format.
LEMMA BlanksInFormats == Space \in Nat \ {Percent} /\ Newline \in Nat \ {Percent}
BY DEF Space, Newline, Percent

\* A text without a percent sign is printed as it is.
LEMMA StandsPlain ==
    ASSUME NEW t \in Seq(Nat), \A l \in 1..Len(t) : t[l] # Percent PROVE Stands(t, <<>>, t)
<1> DEFINE w == Len(t)
           D == 0..w
           P == {k \in D : Stands(SubSeq(t, 1, k), <<>>, SubSeq(t, 1, k))}
<1>1. w \in Nat /\ SubSeq(t, 1, 0) = <<>> /\ SubSeq(t, 1, w) = t
  OBVIOUS
<1>2. ASSUME NEW k \in 1..w PROVE SubSeq(t, 1, k) = SubSeq(t, 1, k - 1) \o <<t[k]>> /\ t[k] \in Nat \ {Percent}
  OBVIOUS
<1> HIDE DEF w
<1>3. D = P
  <2>1. ASSUME NEW k \in D, \A l \in D : l < k => l \in P PROVE k \in P
    <3>1. CASE k = 0
      BY <1>1, <3>1, StandsNothing
    <3>2. CASE k # 0
      <4>1. k \in 1..w /\ k - 1 \in D /\ k - 1 < k
        BY <1>1, <3>2
      <4> DEFINE u == SubSeq(t, 1, k - 1)
      <4>2. Stands(u, <<>>, u)
        BY <2>1, <4>1
      <4> HIDE DEF u
      <4>3. Stands(u \o <<t[k]>>, <<>>, u \o <<t[k]>>)
        BY <1>2, <4>1, <4>2, StandsText
      <4>4. QED
        BY <1>2, <4>1, <4>3 DEF u
    <3>3. QED
      BY <3>1, <3>2
  <2>2. D \in SUBSET Nat /\ P \in SUBSET D
    BY <1>1
  <2> HIDE DEF D, P
  <2>3. QED
    BY <2>1, <2>2, Induction
<1>4. w \in P
  BY <1>1, <1>3
<1>5. QED
  BY <1>1, <1>4

(* The parts of a line: up to the owner, up to the date, the name, the target. *)
OwnerText(file) ==
    Cat(Cat(Cat(Cat(Cat(GetPermissions(file.mode), <<Space>>), Decimal(file.nlink)), <<Space>>), file.owner),
        <<Space>>)
GroupText(file) ==
    Cat(Cat(Cat(Cat(file.group, <<Space>>), Decimal(file.size)), <<Space>>), TimeText(file.mtime))
NameText(file) == Cat(<<Space>>, file.name)
Target(file) == file.mode.type = "link" /\ file.target # NullString
LinkText(file) == IF Target(file) THEN Cat(Arrow, file.target) ELSE <<>>

\* The owner's.
LEMMA OwnerPrinted ==
    ASSUME NEW p \in Seq(Nat), NEW k \in 0..IntMax, NEW o \in Seq(Nat)
    PROVE  Text(FormatS \o <<Space>> \o FormatD \o <<Space>> \o FormatS \o <<Space>>, <<p, k, o>>)
               = Cat(Cat(Cat(Cat(Cat(p, <<Space>>), Decimal(k)), <<Space>>), o), <<Space>>)
<1> DEFINE f1 == FormatS
           f2 == f1 \o <<Space>>
           f3 == f2 \o FormatD
           f4 == f3 \o <<Space>>
           f5 == f4 \o FormatS
           f6 == f5 \o <<Space>>
           t2 == p \o <<Space>>
           t3 == t2 \o Decimal(k)
           t4 == t3 \o <<Space>>
           t5 == t4 \o o
           t6 == t5 \o <<Space>>
<1>1. Stands(f1, <<p>>, p)
  BY StandsFirst
<1> HIDE DEF f1
<1>2. Stands(f2, <<p>>, t2)
  BY <1>1, StandsText, BlanksInFormats
<1> HIDE DEF f2, t2
<1>3. Stands(f3, <<p>> \o <<k>>, t3)
  BY <1>2, StandsNumber
<1> HIDE DEF f3, t3
<1>4. Stands(f3, <<p, k>>, t3)
  <2>1. <<p>> \o <<k>> = <<p, k>>
    BY ThreeArguments
  <2>2. QED
    BY <1>3, <2>1
<1>5. Stands(f4, <<p, k>>, t4)
  BY <1>4, StandsText, BlanksInFormats
<1> HIDE DEF f4, t4
<1>6. Stands(f5, <<p, k>> \o <<o>>, t5)
  BY <1>5, StandsString
<1> HIDE DEF f5, t5
<1>7. Stands(f5, <<p, k, o>>, t5)
  <2>1. <<p, k>> \o <<o>> = <<p, k, o>>
    BY ThreeArguments
  <2>2. QED
    BY <1>6, <2>1
<1>8. Stands(f6, <<p, k, o>>, t6)
  BY <1>7, StandsText, BlanksInFormats
<1> HIDE DEF f6, t6
<1>9. Text(f6, <<p, k, o>>) = t6
  BY <1>8, StandsPrinted
<1>10. f6 = FormatS \o <<Space>> \o FormatD \o <<Space>> \o FormatS \o <<Space>>
  BY DEF f1, f2, f3, f4, f5, f6
<1>11. t6 = Cat(Cat(Cat(Cat(Cat(p, <<Space>>), Decimal(k)), <<Space>>), o), <<Space>>)
  BY DEF t2, t3, t4, t5, t6, Cat
<1>12. QED
  BY <1>9, <1>10, <1>11

\* The group's.
LEMMA GroupPrinted ==
    ASSUME NEW g \in Seq(Nat), NEW k \in 0..LongMax, NEW t \in Seq(Nat)
    PROVE  Text(FormatS \o <<Space>> \o FormatLd \o <<Space>> \o FormatS, <<g, k, t>>)
               = Cat(Cat(Cat(Cat(g, <<Space>>), Decimal(k)), <<Space>>), t)
<1> DEFINE f1 == FormatS
           f2 == f1 \o <<Space>>
           f3 == f2 \o FormatLd
           f4 == f3 \o <<Space>>
           f5 == f4 \o FormatS
           t2 == g \o <<Space>>
           t3 == t2 \o Decimal(k)
           t4 == t3 \o <<Space>>
           t5 == t4 \o t
<1>1. Stands(f1, <<g>>, g)
  BY StandsFirst
<1> HIDE DEF f1
<1>2. Stands(f2, <<g>>, t2)
  BY <1>1, StandsText, BlanksInFormats
<1> HIDE DEF f2, t2
<1>3. Stands(f3, <<g>> \o <<k>>, t3)
  BY <1>2, StandsNumber
<1> HIDE DEF f3, t3
<1>4. Stands(f3, <<g, k>>, t3)
  <2>1. <<g>> \o <<k>> = <<g, k>>
    BY ThreeArguments
  <2>2. QED
    BY <1>3, <2>1
<1>5. Stands(f4, <<g, k>>, t4)
  BY <1>4, StandsText, BlanksInFormats
<1> HIDE DEF f4, t4
<1>6. Stands(f5, <<g, k>> \o <<t>>, t5)
  BY <1>5, StandsString
<1> HIDE DEF f5, t5
<1>7. Stands(f5, <<g, k, t>>, t5)
  <2>1. <<g, k>> \o <<t>> = <<g, k, t>>
    BY ThreeArguments
  <2>2. QED
    BY <1>6, <2>1
<1>8. Text(f5, <<g, k, t>>) = t5
  BY <1>7, StandsPrinted
<1>9. f5 = FormatS \o <<Space>> \o FormatLd \o <<Space>> \o FormatS
  BY DEF f1, f2, f3, f4, f5
<1>10. t5 = Cat(Cat(Cat(Cat(g, <<Space>>), Decimal(k)), <<Space>>), t)
  BY DEF t2, t3, t4, t5, Cat
<1>11. QED
  BY <1>8, <1>9, <1>10

\* The name's, and the target's.
LEMMA NamePrinted ==
    ASSUME NEW s \in Seq(Nat)
    PROVE  /\ Text(<<Space>> \o FormatS, <<s>>) = Cat(<<Space>>, s)
           /\ Text(Arrow \o FormatS, <<s>>) = Cat(Arrow, s)
<1>1. ASSUME NEW f, Stands(f, <<>>, f) PROVE Text(f \o FormatS, <<s>>) = Cat(f, s)
  <2>1. Stands(f \o FormatS, <<>> \o <<s>>, f \o s)
    BY <1>1, StandsString
  <2>2. <<>> \o <<s>> = <<s>>
    BY ThreeArguments
  <2>3. QED
    BY <2>1, <2>2, StandsPrinted DEF Cat
<1>2. Stands(<<Space>>, <<>>, <<Space>>)
  BY StandsFirst, BlanksInFormats
<1>3. Stands(Arrow, <<>>, Arrow)
  <2>1. Arrow \in Seq(Nat) /\ \A l \in 1..Len(Arrow) : Arrow[l] # Percent
    BY DEF Arrow, Space, Percent
  <2>2. QED
    BY <2>1, StandsPlain
<1>4. QED
  BY <1>1, <1>2, <1>3

\* The first line of a listing.
LEMMA TotalPrinted ==
    ASSUME NEW k \in 0..LongMax
    PROVE  Text(Total \o FormatLd \o <<Newline>>, <<k>>) = Cat(Cat(Total, Decimal(k)), <<Newline>>)
<1>1. Stands(Total, <<>>, Total)
  <2>1. Total \in Seq(Nat) /\ \A l \in 1..Len(Total) : Total[l] # Percent
    BY DEF Total, Space, Percent
  <2>2. QED
    BY <2>1, StandsPlain
<1> DEFINE f == Total \o FormatLd
           t == Total \o Decimal(k)
<1>2. Stands(f, <<>> \o <<k>>, t)
  BY <1>1, StandsNumber
<1> HIDE DEF f, t
<1>3. Stands(f, <<k>>, t)
  <2>1. <<>> \o <<k>> = <<k>>
    BY ThreeArguments
  <2>2. QED
    BY <1>2, <2>1
<1>4. Stands(f \o <<Newline>>, <<k>>, t \o <<Newline>>)
  BY <1>3, StandsText, BlanksInFormats
<1>5. QED
  BY <1>4, StandsPrinted DEF f, t, Cat

----------------------------------------------------------------------------
(* Listings: lines. *)

\* The members of what follows the first one.
LEMMA TailAt ==
    ASSUME NEW S, NEW s \in Seq(S), s # <<>>
    PROVE  /\ Tail(s) \in Seq(S) /\ Len(Tail(s)) = Len(s) - 1
           /\ \A x \in 1..(Len(s) - 1) : Tail(s)[x] = s[x + 1]
OBVIOUS

\* A blank, a field, the target of a link, after one another.
LEMMA RowOn ==
    ASSUME NEW t, NEW W, Row(t, W)
    PROVE  /\ IsText(t) /\ IsText(Cat(t, <<Space>>))
           /\ Row(Cat(t, <<Space>>), W) /\ Ended(Cat(t, <<Space>>), Space)
           /\ \A w : Ended(t, Space) /\ Field(w) => Row(Cat(t, w), Append(W, w))
<1>1. IsText(t)
  BY RowTyped DEF IsText
<1>2. Row(Cat(t, <<Space>>), W) /\ Ended(Cat(t, <<Space>>), Space)
  BY RowSpace DEF Cat
<1>3. ASSUME NEW w, Ended(t, Space), Field(w) PROVE Row(Cat(t, w), Append(W, w))
  BY <1>3, RowField DEF Cat
<1>4. IsText(Cat(t, <<Space>>))
  BY <1>2, RowTyped DEF IsText
<1>5. QED
  BY <1>1, <1>2, <1>3, <1>4

\* The day.
LEMMA RowDay ==
    ASSUME NEW t, NEW W, Row(t, W), Ended(t, Space),
           NEW day \in Seq(Nat), Len(day) = 2, Field(DayField(day))
    PROVE  Row(Cat(t, day), Append(W, DayField(day)))
<1>1. CASE Head(day) = Space
  <2>1. DayField(day) = Tail(day)
    BY <1>1 DEF DayField
  <2> DEFINE rest == Tail(day)
  <2>2. day = <<Space>> \o rest /\ rest \in Seq(Nat)
    <3> DEFINE u == <<Space>> \o rest
    <3>1. rest \in Seq(Nat) /\ Len(rest) = 1 /\ rest[1] = day[2] /\ day[1] = Space
      BY <1>1
    <3> HIDE DEF rest
    <3>2. Space \in Nat
      BY DEF Space
    <3>3. u \in Seq(Nat) /\ Len(u) = 2 /\ u[1] = Space /\ u[2] = rest[1]
      <4> DEFINE h == <<Space>>
                 w == Len(h)
                 v == Len(rest)
      <4>1. h \in Seq(Nat) /\ w = 1 /\ h[1] = Space
        BY <3>2
      <4> HIDE DEF h
      <4> DEFINE y == h \o rest
      <4>2. Joined(y, h, rest, Nat)
        BY <3>1, <4>1, JoinedAt
      <4>3. v = 1
        BY <3>1
      <4> HIDE DEF w, v, y
      <4>4. 1 \in 1..w /\ 1 \in 1..v /\ w + 1 = 2 /\ w + v = 2
        BY <4>1, <4>3
      <4>5. y \in Seq(Nat) /\ Len(y) = 2 /\ y[1] = h[1] /\ y[2] = rest[1]
        BY <4>2, <4>4 DEF Joined, w, v
      <4>6. y = u
        BY DEF y, h
      <4>7. QED
        BY <4>1, <4>5, <4>6
    <3> HIDE DEF u
    <3>4. \A k \in 1..2 : u[k] = day[k]
      BY <3>1, <3>3
    <3>5. u = day
      BY <3>3, <3>4, SeqEqual
    <3>6. QED
      BY <3>1, <3>5 DEF u
  <2>3. Field(rest)
    BY <2>1
  <2> HIDE DEF rest
  <2>4. day = Cat(<<Space>>, rest)
    BY <2>2 DEF Cat
  <2>5. IsText(t) /\ IsText(<<Space>>) /\ IsText(rest)
    <3>1. IsText(t)
      BY RowOn
    <3>2. IsText(<<Space>>)
      BY DEF IsText, Space
    <3>3. IsText(rest)
      BY <2>2 DEF IsText
    <3>4. QED
      BY <3>1, <3>2, <3>3
  <2>6. Cat(t, day) = Cat(Cat(t, <<Space>>), rest)
    BY <2>4, <2>5, CatRegroup
  <2> DEFINE v == Cat(t, <<Space>>)
  <2>7. Row(v, W) /\ Ended(v, Space)
    BY RowOn
  <2> HIDE DEF v
  <2>8. Row(Cat(v, rest), Append(W, rest))
    BY <2>3, <2>7, RowOn
  <2>9. QED
    BY <2>1, <2>6, <2>8 DEF v, rest
<1>2. CASE Head(day) # Space
  <2>1. DayField(day) = day
    BY <1>2 DEF DayField
  <2>2. QED
    BY <2>1, RowOn
<1>3. QED
  BY <1>1, <1>2

(* The first k of some texts. *)
FirstOf(col, k) == [l \in 1..k |-> col[l]]

\* One more.
LEMMA FirstOfNext ==
    ASSUME NEW col, NEW k \in Nat
    PROVE  Append(FirstOf(col, k), col[k + 1]) = FirstOf(col, k + 1)
<1> DEFINE h == FirstOf(col, k)
           h2 == FirstOf(col, k + 1)
<1>1. /\ h = [p \in 1..k |-> h[p]] /\ h2 = [p \in 1..(k + 1) |-> h2[p]]
      /\ (\A p \in 1..k : h2[p] = h[p]) /\ h2[k + 1] = col[k + 1]
  BY DEF FirstOf
<1> HIDE DEF h, h2
<1>2. h2 = Append(h, h2[k + 1])
  <2>1. Lists(h, k) /\ Lists(h2, k + 1) /\ Continues(h2, h, k)
    BY <1>1 DEF Lists, Continues
  <2>2. QED
    BY <2>1, ContinuesByOne
<1>3. QED
  BY <1>1, <1>2 DEF h, h2

\* All but the first of nine or eleven.
LEMMA TailOfFirst ==
    ASSUME NEW S, NEW col, \A l \in 1..11 : col[l] \in S
    PROVE  LET eight == <<col[2], col[3], col[4], col[5], col[6], col[7], col[8], col[9]>> IN
           /\ Tail(FirstOf(col, 9)) = eight \o <<>>
           /\ Tail(FirstOf(col, 11)) = eight \o <<col[10], col[11]>>
<1> DEFINE eight == <<col[2], col[3], col[4], col[5], col[6], col[7], col[8], col[9]>>
           two == <<col[10], col[11]>>
<1>1. /\ eight \in Seq(S) /\ Len(eight) = 8 /\ \A l \in 1..8 : eight[l] = col[l + 1]
  <2>1. \A l \in 1..11 : col[l] \in S
    OBVIOUS
  <2>2. col[2] \in S /\ col[3] \in S /\ col[4] \in S /\ col[5] \in S
    BY <2>1
  <2>3. col[6] \in S /\ col[7] \in S /\ col[8] \in S /\ col[9] \in S
    BY <2>1
  <2>4. eight \in Seq(S) /\ Len(eight) = 8
    BY <2>2, <2>3
  <2>5. \A l \in 1..8 : l = 1 \/ l = 2 \/ l = 3 \/ l = 4 \/ l = 5 \/ l = 6 \/ l = 7 \/ l = 8
    OBVIOUS
  <2>6. /\ eight[1] = col[2] /\ eight[2] = col[3] /\ eight[3] = col[4] /\ eight[4] = col[5]
        /\ eight[5] = col[6] /\ eight[6] = col[7] /\ eight[7] = col[8] /\ eight[8] = col[9]
    OBVIOUS
  <2> HIDE DEF eight
  <2>7. \A l \in 1..8 : eight[l] = col[l + 1]
    BY <2>5, <2>6
  <2>8. QED
    BY <2>4, <2>7
<1>2. two \in Seq(S) /\ Len(two) = 2 /\ two[1] = col[10] /\ two[2] = col[11]
  <2>1. col[10] \in S /\ col[11] \in S
    OBVIOUS
  <2>2. QED
    BY <2>1
<1> HIDE DEF eight, two
<1> DEFINE t9 == Tail(FirstOf(col, 9))
           t11 == Tail(FirstOf(col, 11))
           e2 == eight \o two
<1>3. /\ t9 \in Seq(S) /\ Len(t9) = 8 /\ \A l \in 1..8 : t9[l] = col[l + 1]
  <2> DEFINE f == FirstOf(col, 9)
  <2>1. f \in Seq(S) /\ Len(f) = 9 /\ \A l \in 1..9 : f[l] = col[l]
    BY DEF FirstOf
  <2> HIDE DEF f
  <2>2. Tail(f) \in Seq(S) /\ Len(Tail(f)) = 8 /\ \A l \in 1..8 : Tail(f)[l] = f[l + 1]
    <3>1. f # <<>>
      <4>1. SUFFICES ASSUME f = <<>> PROVE FALSE
        OBVIOUS
      <4>2. Len(f) = 0
        BY <4>1
      <4>3. QED
        BY <2>1, <4>2
    <3>2. /\ Tail(f) \in Seq(S) /\ Len(Tail(f)) = Len(f) - 1
          /\ \A x \in 1..(Len(f) - 1) : Tail(f)[x] = f[x + 1]
      BY <2>1, <3>1, TailAt
    <3>3. Len(f) - 1 = 8
      BY <2>1
    <3>4. QED
      BY <3>2, <3>3
  <2>3. \A l \in 1..8 : l + 1 \in 1..9
    OBVIOUS
  <2>4. QED
    BY <2>1, <2>2, <2>3 DEF f
<1>4. /\ t11 \in Seq(S) /\ Len(t11) = 10 /\ \A l \in 1..10 : t11[l] = col[l + 1]
  <2> DEFINE f == FirstOf(col, 11)
  <2>1. f \in Seq(S) /\ Len(f) = 11 /\ \A l \in 1..11 : f[l] = col[l]
    BY DEF FirstOf
  <2> HIDE DEF f
  <2>2. Tail(f) \in Seq(S) /\ Len(Tail(f)) = 10 /\ \A l \in 1..10 : Tail(f)[l] = f[l + 1]
    <3>1. f # <<>>
      <4>1. SUFFICES ASSUME f = <<>> PROVE FALSE
        OBVIOUS
      <4>2. Len(f) = 0
        BY <4>1
      <4>3. QED
        BY <2>1, <4>2
    <3>2. /\ Tail(f) \in Seq(S) /\ Len(Tail(f)) = Len(f) - 1
          /\ \A x \in 1..(Len(f) - 1) : Tail(f)[x] = f[x + 1]
      BY <2>1, <3>1, TailAt
    <3>3. Len(f) - 1 = 10
      BY <2>1
    <3>4. QED
      BY <3>2, <3>3
  <2>3. \A l \in 1..10 : l + 1 \in 1..11
    OBVIOUS
  <2>4. QED
    BY <2>1, <2>2, <2>3 DEF f
<1> HIDE DEF t9, t11
<1>5. t9 = eight
  BY <1>1, <1>3, SeqEqual
<1>6. eight \o <<>> = eight
  BY <1>1
<1>7. /\ e2 \in Seq(S) /\ Len(e2) = 10 /\ \A l \in 1..8 : e2[l] = eight[l]
      /\ e2[9] = two[1] /\ e2[10] = two[2]
  <2> DEFINE w == Len(eight)
             v == Len(two)
  <2>1. /\ e2 \in Seq(S) /\ Len(e2) = w + v /\ (\A x \in 1..w : e2[x] = eight[x])
        /\ \A x \in 1..v : e2[w + x] = two[x]
    <3>1. Joined(eight \o two, eight, two, S)
      BY <1>1, <1>2, JoinedAt
    <3> HIDE DEF e2
    <3>2. Joined(e2, eight, two, S)
      BY <3>1 DEF e2
    <3>3. QED
      BY <3>2 DEF Joined
  <2>2. w = 8 /\ v = 2
    BY <1>1, <1>2
  <2> HIDE DEF e2, w, v
  <2>3. 1 \in 1..v /\ 2 \in 1..v /\ w + 1 = 9 /\ w + 2 = 10
    BY <2>2
  <2>4. e2[9] = two[1] /\ e2[10] = two[2]
    BY <2>1, <2>3
  <2>5. QED
    BY <2>1, <2>2, <2>4
<1> HIDE DEF e2
<1>8. \A l \in 1..10 : e2[l] = t11[l]
  <2>1. \A l \in 1..10 : l \in 1..8 \/ l = 9 \/ l = 10
    OBVIOUS
  <2>2. QED
    BY <1>1, <1>2, <1>4, <1>7, <2>1
<1>9. e2 = t11
  BY <1>4, <1>7, <1>8, SeqEqual
<1>10. QED
  BY <1>5, <1>6, <1>9 DEF t9, t11, e2, eight, two

\* Five texts after another.
LEMMA FiveOn ==
    ASSUME NEW f, NEW p, NEW q, NEW r, NEW t, NEW u,
           IsText(f), IsText(p), IsText(q), IsText(r), IsText(t), IsText(u)
    PROVE  /\ IsText(Cat(Cat(Cat(Cat(p, q), r), t), u))
           /\ Cat(f, Cat(Cat(Cat(Cat(p, q), r), t), u)) = Cat(Cat(Cat(Cat(Cat(f, p), q), r), t), u)
<1> DEFINE m1 == Cat(p, q)
           m2 == Cat(m1, r)
           m3 == Cat(m2, t)
           m4 == Cat(m3, u)
<1>1. IsText(m1) /\ Cat(Cat(f, p), q) = Cat(f, m1)
  BY CatTyped, CatRegroup
<1> HIDE DEF m1
<1>2. IsText(m2) /\ Cat(Cat(f, m1), r) = Cat(f, m2)
  BY <1>1, CatTyped, CatRegroup
<1> HIDE DEF m2
<1>3. IsText(m3) /\ Cat(Cat(f, m2), t) = Cat(f, m3)
  BY <1>2, CatTyped, CatRegroup
<1> HIDE DEF m3
<1>4. IsText(m4) /\ Cat(Cat(f, m3), u) = Cat(f, m4)
  BY <1>3, CatTyped, CatRegroup
<1>5. IsText(m4) /\ Cat(f, m4) = Cat(Cat(Cat(Cat(Cat(f, p), q), r), t), u)
  BY <1>1, <1>2, <1>3, <1>4
<1>6. QED
  BY <1>5 DEF m1, m2, m3

\* The next column of a row.
LEMMA RowColumn ==
    ASSUME NEW t, NEW col, NEW k \in Nat, Row(t, FirstOf(col, k)), Ended(t, Space),
           Field(col[k + 1])
    PROVE  Row(Cat(t, col[k + 1]), FirstOf(col, k + 1))
BY RowOn, FirstOfNext

\* The first one.
LEMMA RowFirst ==
    ASSUME NEW col, Field(col[1]) PROVE Row(col[1], FirstOf(col, 1))
<1>1. FirstOf(col, 0) = <<>>
  BY DEF FirstOf
<1>2. Row(<<>>, FirstOf(col, 0)) /\ Ended(<<>>, Space)
  BY <1>1, RowNothing
<1>3. 0 \in Nat /\ 0 + 1 = 1
  OBVIOUS
<1>4. Row(Cat(<<>>, col[1]), FirstOf(col, 1))
  BY <1>2, <1>3, RowColumn
<1>5. Cat(<<>>, col[1]) = col[1]
  BY NothingBefore DEF Cat, Field
<1>6. QED
  BY <1>4, <1>5

(* What the parts of a line are made of: day is how the seventh column is written. *)
Columns(col, day) ==
    /\ Field(col[1]) /\ Field(col[2]) /\ Field(col[3]) /\ Field(col[4]) /\ Field(col[5])
    /\ Field(col[6]) /\ Field(col[7]) /\ Field(col[8]) /\ Field(col[9])
    /\ day \in Seq(Nat) /\ Len(day) = 2 /\ col[7] = DayField(day)
OwnerPart(col) ==
    Cat(Cat(Cat(Cat(Cat(col[1], <<Space>>), col[2]), <<Space>>), col[3]), <<Space>>)
DatePart(col, day) == Cat(Cat(Cat(Cat(col[6], <<Space>>), day), <<Space>>), col[8])
GroupPart(col, day) ==
    Cat(Cat(Cat(Cat(col[4], <<Space>>), col[5]), <<Space>>), DatePart(col, day))

\* Three columns are before the group.
LEMMA OwnerRow ==
    ASSUME NEW col, Field(col[1]), Field(col[2]), Field(col[3])
    PROVE  Row(OwnerPart(col), FirstOf(col, 3)) /\ Ended(OwnerPart(col), Space)
<1> DEFINE sp == <<Space>>
           s1 == col[1]
           s2 == Cat(s1, sp)
           s3 == Cat(s2, col[2])
           s4 == Cat(s3, sp)
           s5 == Cat(s4, col[3])
           s6 == Cat(s5, sp)
<1>0. Field(col[1]) /\ Field(col[1 + 1]) /\ Field(col[2 + 1]) /\ 1 \in Nat /\ 2 \in Nat
  OBVIOUS
<1>1. Row(s1, FirstOf(col, 1))
  BY <1>0, RowFirst
<1> HIDE DEF s1
<1>2. Row(s2, FirstOf(col, 1)) /\ Ended(s2, Space)
  BY <1>1, RowOn
<1> HIDE DEF s2
<1>3. Row(Cat(s2, col[1 + 1]), FirstOf(col, 1 + 1))
  BY <1>0, <1>2, RowColumn
<1>4. Row(s3, FirstOf(col, 2))
  BY <1>3
<1> HIDE DEF s3
<1>5. Row(s4, FirstOf(col, 2)) /\ Ended(s4, Space)
  BY <1>4, RowOn
<1> HIDE DEF s4
<1>6. Row(Cat(s4, col[2 + 1]), FirstOf(col, 2 + 1))
  BY <1>0, <1>5, RowColumn
<1>7. Row(s5, FirstOf(col, 3))
  BY <1>6
<1> HIDE DEF s5
<1>8. Row(s6, FirstOf(col, 3)) /\ Ended(s6, Space)
  BY <1>7, RowOn
<1>9. OwnerPart(col) = s6
  BY DEF OwnerPart, s1, s2, s3, s4, s5
<1> HIDE DEF s6
<1>10. QED
  BY <1>8, <1>9

\* Eight before the name.
LEMMA GroupRow ==
    ASSUME NEW col, NEW day, Columns(col, day)
    PROVE  Row(Cat(OwnerPart(col), GroupPart(col, day)), FirstOf(col, 8))
<1> DEFINE sp == <<Space>>
           s0 == OwnerPart(col)
           s1 == Cat(s0, col[4])
           s2 == Cat(s1, sp)
           s3 == Cat(s2, col[5])
           s4 == Cat(s3, sp)
           s5 == Cat(s4, col[6])
           s6 == Cat(s5, sp)
           s7 == Cat(s6, day)
           s8 == Cat(s7, sp)
           s9 == Cat(s8, col[8])
           date == DatePart(col, day)
<1>0. /\ Field(col[3 + 1]) /\ Field(col[4 + 1]) /\ Field(col[5 + 1]) /\ Field(col[7 + 1])
      /\ 3 \in Nat /\ 4 \in Nat /\ 5 \in Nat /\ 6 \in Nat /\ 7 \in Nat
      /\ day \in Seq(Nat) /\ Len(day) = 2 /\ Field(DayField(day)) /\ col[6 + 1] = DayField(day)
  BY DEF Columns
<1>1. Row(s0, FirstOf(col, 3)) /\ Ended(s0, Space)
  BY OwnerRow DEF Columns
<1> HIDE DEF s0
<1>2. Row(Cat(s0, col[3 + 1]), FirstOf(col, 3 + 1))
  BY <1>0, <1>1, RowColumn
<1>3. Row(s1, FirstOf(col, 4))
  BY <1>2
<1> HIDE DEF s1
<1>4. Row(s2, FirstOf(col, 4)) /\ Ended(s2, Space)
  BY <1>3, RowOn
<1> HIDE DEF s2
<1>5. Row(Cat(s2, col[4 + 1]), FirstOf(col, 4 + 1))
  BY <1>0, <1>4, RowColumn
<1>6. Row(s3, FirstOf(col, 5))
  BY <1>5
<1> HIDE DEF s3
<1>7. Row(s4, FirstOf(col, 5)) /\ Ended(s4, Space)
  BY <1>6, RowOn
<1> HIDE DEF s4
<1>8. Row(Cat(s4, col[5 + 1]), FirstOf(col, 5 + 1))
  BY <1>0, <1>7, RowColumn
<1>9. Row(s5, FirstOf(col, 6))
  BY <1>8
<1> HIDE DEF s5
<1>10. Row(s6, FirstOf(col, 6)) /\ Ended(s6, Space)
  BY <1>9, RowOn
<1> HIDE DEF s6
<1>11. Row(s7, Append(FirstOf(col, 6), DayField(day)))
  BY <1>0, <1>10, RowDay
<1> HIDE DEF s7
<1>12. Row(s7, FirstOf(col, 7))
  <2>1. Append(FirstOf(col, 6), col[6 + 1]) = FirstOf(col, 6 + 1)
    BY <1>0, FirstOfNext
  <2>2. 6 + 1 = 7
    OBVIOUS
  <2>3. QED
    BY <1>0, <1>11, <2>1, <2>2
<1>13. Row(s8, FirstOf(col, 7)) /\ Ended(s8, Space)
  BY <1>12, RowOn
<1> HIDE DEF s8
<1>14. Row(Cat(s8, col[7 + 1]), FirstOf(col, 7 + 1))
  BY <1>0, <1>13, RowColumn
<1>15. Row(s9, FirstOf(col, 8))
  BY <1>14
<1> HIDE DEF s9
<1>16. /\ IsText(s0) /\ IsText(s4) /\ IsText(sp) /\ IsText(day)
       /\ IsText(col[4]) /\ IsText(col[5]) /\ IsText(col[6]) /\ IsText(col[8])
  <2>1. IsText(s0) /\ IsText(s4)
    BY <1>1, <1>7, RowOn
  <2>2. IsText(sp)
    BY DEF IsText, Space
  <2>3. IsText(day) /\ IsText(col[4]) /\ IsText(col[5]) /\ IsText(col[6]) /\ IsText(col[8])
    BY DEF Columns, Field, IsText
  <2>4. QED
    BY <2>1, <2>2, <2>3
<1>17. IsText(date) /\ Cat(s4, date) = s9
  <2>1. date = Cat(Cat(Cat(Cat(col[6], sp), day), sp), col[8])
    BY DEF DatePart
  <2>2. s9 = Cat(Cat(Cat(Cat(Cat(s4, col[6]), sp), day), sp), col[8])
    BY DEF s9, s8, s7, s6, s5
  <2> HIDE DEF sp, date
  <2>3. QED
    BY <1>16, <2>1, <2>2, FiveOn
<1>18. Cat(s0, GroupPart(col, day)) = Cat(s4, date)
  <2>1. GroupPart(col, day) = Cat(Cat(Cat(Cat(col[4], sp), col[5]), sp), date)
    BY DEF GroupPart
  <2>2. s4 = Cat(Cat(Cat(Cat(s0, col[4]), sp), col[5]), sp)
    BY DEF s4, s3, s2, s1
  <2> HIDE DEF sp, date
  <2>3. QED
    BY <1>16, <1>17, <2>1, <2>2, FiveOn
<1>19. QED
  BY <1>15, <1>17, <1>18 DEF s0

\* Nine before the target.
LEMMA NameRow ==
    ASSUME NEW col, NEW day, Columns(col, day)
    PROVE  Row(Cat(Cat(OwnerPart(col), GroupPart(col, day)), Cat(<<Space>>, col[9])), FirstOf(col, 9))
<1> DEFINE sp == <<Space>>
           s0 == Cat(OwnerPart(col), GroupPart(col, day))
           s1 == Cat(s0, sp)
<1>1. Row(s0, FirstOf(col, 8))
  BY GroupRow
<1> HIDE DEF s0
<1>2. Row(s1, FirstOf(col, 8)) /\ Ended(s1, Space)
  BY <1>1, RowOn
<1>3. IsText(s0) /\ IsText(sp) /\ IsText(col[9])
  <2>1. IsText(s0)
    BY <1>1, RowOn
  <2>2. IsText(sp)
    BY DEF IsText, Space
  <2>3. IsText(col[9])
    BY DEF Columns, Field, IsText
  <2>4. QED
    BY <2>1, <2>2, <2>3
<1> HIDE DEF sp
<1>4. Cat(s0, Cat(sp, col[9])) = Cat(s1, col[9])
  BY <1>3, CatRegroup
<1> HIDE DEF s1
<1>5. Row(Cat(s1, col[8 + 1]), FirstOf(col, 8 + 1))
  <2>1. Field(col[8 + 1]) /\ 8 \in Nat
    BY DEF Columns
  <2>2. QED
    BY <1>2, <2>1, RowColumn
<1>6. Row(Cat(s1, col[9]), FirstOf(col, 9))
  BY <1>5
<1>7. QED
  BY <1>4, <1>6 DEF s0, sp

\* And two for it.
LEMMA LinkRow ==
    ASSUME NEW t, NEW col, Row(t, FirstOf(col, 9)), col[10] = <<45, 62>>, Field(col[11])
    PROVE  Row(Cat(t, Cat(Arrow, col[11])), FirstOf(col, 11))
<1> DEFINE sp == <<Space>>
           s1 == Cat(t, sp)
           s2 == Cat(s1, col[10])
           s3 == Cat(s2, sp)
           s4 == Cat(s3, col[11])
<1>0. Field(col[9 + 1]) /\ Field(col[10 + 1]) /\ 9 \in Nat /\ 10 \in Nat
  <2>1. Field(<<45, 62>>)
    BY DEF Field, Space, Newline
  <2>2. QED
    BY <2>1
<1>1. Row(s1, FirstOf(col, 9)) /\ Ended(s1, Space)
  BY RowOn
<1> HIDE DEF s1
<1>2. Row(Cat(s1, col[9 + 1]), FirstOf(col, 9 + 1))
  BY <1>0, <1>1, RowColumn
<1>3. Row(s2, FirstOf(col, 10))
  BY <1>2
<1> HIDE DEF s2
<1>4. Row(s3, FirstOf(col, 10)) /\ Ended(s3, Space)
  BY <1>3, RowOn
<1> HIDE DEF s3
<1>5. Row(Cat(s3, col[10 + 1]), FirstOf(col, 10 + 1))
  BY <1>0, <1>4, RowColumn
<1>6. Row(s4, FirstOf(col, 11))
  BY <1>5
<1>7. Arrow = Cat(Cat(sp, col[10]), sp)
  <2> DEFINE u == <<Space>> \o <<45, 62>>
             v == u \o <<Space>>
             w == <<Space, 45, 62, Space>>
  <2>0. Space \in Nat
    BY DEF Space
  <2>1. u \in Seq(Nat) /\ Len(u) = 3 /\ u[1] = Space /\ u[2] = 45 /\ u[3] = 62
    BY <2>0
  <2>2. w \in Seq(Nat) /\ Len(w) = 4 /\ w[1] = Space /\ w[2] = 45 /\ w[3] = 62 /\ w[4] = Space
    BY <2>0
  <2> HIDE DEF u, w
  <2>3. v \in Seq(Nat) /\ Len(v) = 4 /\ v[1] = u[1] /\ v[2] = u[2] /\ v[3] = u[3] /\ v[4] = Space
    <3>1. Joined(u \o <<Space>>, u, <<Space>>, Nat)
      <4>1. <<Space>> \in Seq(Nat)
        BY <2>0
      <4>2. QED
        BY <2>1, <4>1, JoinedAt
    <3> DEFINE last == <<Space>>
    <3>2. Len(last) = 1 /\ last[1] = Space
      OBVIOUS
    <3> HIDE DEF v, last
    <3>3. Joined(v, u, last, Nat)
      BY <3>1 DEF v, last
    <3>4. 1 \in 1..Len(u) /\ 2 \in 1..Len(u) /\ 3 \in 1..Len(u) /\ 1 \in 1..Len(last) /\ Len(u) + 1 = 4
      BY <2>1, <3>2
    <3>5. QED
      BY <3>2, <3>3, <3>4 DEF Joined
  <2> HIDE DEF v
  <2>4. \A k \in 1..4 : v[k] = w[k]
    BY <2>1, <2>2, <2>3
  <2>5. v = w
    BY <2>2, <2>3, <2>4, SeqEqual
  <2>6. QED
    BY <2>5 DEF Arrow, Cat, u, v, w
<1>8. IsText(t) /\ IsText(sp) /\ IsText(col[10]) /\ IsText(col[11])
  <2>1. IsText(t)
    BY RowOn
  <2>2. IsText(sp)
    BY DEF IsText, Space
  <2>3. IsText(col[10]) /\ IsText(col[11])
    BY <1>0 DEF Field, IsText
  <2>4. QED
    BY <2>1, <2>2, <2>3
<1>9. Cat(t, Cat(Arrow, col[11])) = s4
  <2> DEFINE m1 == Cat(sp, col[10])
             m2 == Cat(m1, sp)
  <2> HIDE DEF sp
  <2>1. IsText(m1) /\ Cat(Cat(t, sp), col[10]) = Cat(t, m1)
    BY <1>8, CatTyped, CatRegroup
  <2> HIDE DEF m1
  <2>2. IsText(m2) /\ Cat(Cat(t, m1), sp) = Cat(t, m2)
    BY <1>8, <2>1, CatTyped, CatRegroup
  <2> HIDE DEF m2
  <2>3. Cat(Cat(t, m2), col[11]) = Cat(t, Cat(m2, col[11]))
    BY <1>8, <2>2, CatRegroup
  <2>4. m2 = Arrow
    BY <1>7 DEF m1, m2
  <2>5. s4 = Cat(Cat(Cat(Cat(t, sp), col[10]), sp), col[11])
    BY DEF s1, s2, s3
  <2> HIDE DEF s4
  <2>6. QED
    BY <2>1, <2>2, <2>3, <2>4, <2>5
<1>10. QED
  BY <1>6, <1>9

\* A row with words in it is not empty.
LEMMA RowNotEmpty ==
    ASSUME NEW t, NEW W, Row(t, W), W # <<>> PROVE t # <<>>
<1>1. SUFFICES ASSUME t = <<>> PROVE FALSE
  OBVIOUS
<1>2. HasWords(<<>>, Space, W) /\ HasWords(<<>>, Space, <<>>)
  BY <1>1, NoWords DEF Row
<1>3. Split(<<>>, Space, None).words = W /\ Split(<<>>, Space, None).words = <<>>
  BY <1>2, SplitGives
<1>4. QED
  BY <1>3

\* Nor are some of the columns.
LEMMA FirstOfSome == ASSUME NEW col, NEW k \in Nat \ {0} PROVE FirstOf(col, k) # <<>>
<1>1. SUFFICES ASSUME FirstOf(col, k) = <<>> PROVE FALSE
  OBVIOUS
<1>2. Len(FirstOf(col, k)) = k
  BY DEF FirstOf
<1>3. Len(FirstOf(col, k)) = 0
  BY <1>1
<1>4. QED
  BY <1>2, <1>3

(* A file that ft_ls can list: what is printed of it has no blank in it, its blocks come in
   pairs, and its owner or its group may have no name, a link no target that can be read. *)
FileOK(file) ==
    /\ ModeOK(file.mode) /\ file.nlink \in 0..IntMax /\ file.size \in 0..LongMax
    /\ file.owner = NullString \/ Field(file.owner)
    /\ file.group = NullString \/ Field(file.group)
    /\ TimeOK(file.mtime) /\ Field(file.name)
    /\ file.target = NullString \/ Field(file.target)
    /\ file.blocks \in Nat /\ file.blocks % 2 = 0

(* The line of a file, without its end. *)
LineText(file) == Cat(Cat(Cat(OwnerText(file), GroupText(file)), NameText(file)), LinkText(file))

(* What PrintLongFormat gives. *)
Line(file) ==
    IF file.owner = NullString THEN [crashed |-> TRUE, text |-> <<>>]
    ELSE IF file.group = NullString THEN [crashed |-> TRUE, text |-> OwnerText(file)]
    ELSE [crashed |-> FALSE, text |-> Cat(LineText(file), <<Newline>>)]

\* A file's line is printed as it is meant.
LEMMA LinePrinted == ASSUME NEW file, FileOK(file) PROVE PrintLongFormat(file) = Line(file)
<1> DEFINE owner == Text(FormatS \o <<Space>> \o FormatD \o <<Space>> \o FormatS \o <<Space>>,
                         <<GetPermissions(file.mode), file.nlink, file.owner>>)
           group == Text(FormatS \o <<Space>> \o FormatLd \o <<Space>> \o FormatS,
                         <<file.group, file.size, GetTime(file.mtime)>>)
           name == Text(<<Space>> \o FormatS, <<file.name>>)
           link == IF file.mode.type = "link" /\ file.target # NullString
                   THEN Text(Arrow \o FormatS, <<file.target>>) ELSE <<>>
<1>1. PrintLongFormat(file) =
        IF file.owner = NullString THEN [crashed |-> TRUE, text |-> <<>>]
        ELSE IF file.group = NullString THEN [crashed |-> TRUE, text |-> owner]
        ELSE [crashed |-> FALSE, text |-> owner \o group \o name \o link \o <<Newline>>]
  BY DEF PrintLongFormat
<1>2. file.owner # NullString => owner = OwnerText(file)
  <2>1. GetPermissions(file.mode) \in Seq(Nat)
    BY PermissionsShow DEF FileOK, Field
  <2>2. ASSUME file.owner # NullString PROVE owner = OwnerText(file)
    <3>1. file.owner \in Seq(Nat) /\ file.nlink \in 0..IntMax
      BY <2>2 DEF FileOK, Field
    <3>2. QED
      BY <2>1, <3>1, OwnerPrinted DEF OwnerText
  <2>3. QED
    BY <2>2
<1>3. file.group # NullString => group = GroupText(file)
  <2>1. GetTime(file.mtime) = TimeText(file.mtime) /\ TimeText(file.mtime) \in Seq(Nat)
    BY GetTimeIs DEF FileOK
  <2>2. ASSUME file.group # NullString PROVE group = GroupText(file)
    <3>1. file.group \in Seq(Nat) /\ file.size \in 0..LongMax
      BY <2>2 DEF FileOK, Field
    <3>2. QED
      BY <2>1, <3>1, GroupPrinted DEF GroupText
  <2>3. QED
    BY <2>2
<1>4. name = NameText(file)
  <2>1. file.name \in Seq(Nat)
    BY DEF FileOK, Field
  <2>2. QED
    BY <2>1, NamePrinted DEF NameText
<1>5. link = LinkText(file)
  <2>1. CASE Target(file)
    <3>1. file.target \in Seq(Nat)
      BY <2>1 DEF FileOK, Field, Target
    <3>2. Text(Arrow \o FormatS, <<file.target>>) = Cat(Arrow, file.target)
      BY <3>1, NamePrinted
    <3>3. QED
      BY <2>1, <3>2 DEF LinkText, Target
  <2>2. CASE ~Target(file)
    BY <2>2 DEF LinkText, Target
  <2>3. QED
    BY <2>1, <2>2
<1> HIDE DEF owner, group, name, link
<1>6. ASSUME file.owner # NullString, file.group # NullString
      PROVE  owner \o group \o name \o link \o <<Newline>> = Cat(LineText(file), <<Newline>>)
  BY <1>2, <1>3, <1>4, <1>5, <1>6 DEF LineText, Cat
<1>7. QED
  BY <1>1, <1>2, <1>6 DEF Line

(* The columns of a file's line. *)
ColumnsOf(file) ==
    <<GetPermissions(file.mode), Decimal(file.nlink), file.owner, file.group, Decimal(file.size),
      file.mtime.month, DayField(file.mtime.day), file.mtime.clock, file.name,
      <<45, 62>>, IF Target(file) THEN file.target ELSE <<>> >>
WordsOf(file) == FirstOf(ColumnsOf(file), IF Target(file) THEN 11 ELSE 9)

\* The first of them, up to the owner.
LEMMA OwnerFields ==
    ASSUME NEW file, FileOK(file), file.owner # NullString
    PROVE  /\ Row(OwnerText(file), FirstOf(ColumnsOf(file), 3))
           /\ OwnerText(file) # <<>>
<1> DEFINE col == ColumnsOf(file)
<1>1. /\ col[1] = GetPermissions(file.mode) /\ col[2] = Decimal(file.nlink) /\ col[3] = file.owner
  BY DEF ColumnsOf
<1>2. Field(GetPermissions(file.mode)) /\ Field(Decimal(file.nlink)) /\ Field(file.owner)
  <2>1. Field(GetPermissions(file.mode))
    BY PermissionsShow DEF FileOK
  <2>2. file.nlink \in 0..LongMax
    BY LargestNumbers DEF FileOK
  <2>3. QED
    BY <2>1, <2>2, DecimalIsField DEF FileOK
<1> HIDE DEF col
<1>3. OwnerText(file) = OwnerPart(col)
  BY <1>1 DEF OwnerText, OwnerPart
<1>4. Row(OwnerPart(col), FirstOf(col, 3))
  BY <1>1, <1>2, OwnerRow
<1>5. FirstOf(col, 3) # <<>>
  BY FirstOfSome
<1>6. OwnerPart(col) # <<>>
  BY <1>4, <1>5, RowNotEmpty
<1>7. QED
  BY <1>3, <1>4, <1>6 DEF col

\* All of them.
LEMMA LineFields ==
    ASSUME NEW file, FileOK(file), file.owner # NullString, file.group # NullString
    PROVE  Row(LineText(file), WordsOf(file)) /\ LineText(file) # <<>>
<1> DEFINE col == ColumnsOf(file)
           day == file.mtime.day
           t == Cat(Cat(OwnerText(file), GroupText(file)), NameText(file))
<1>1. /\ col[1] = GetPermissions(file.mode) /\ col[2] = Decimal(file.nlink) /\ col[3] = file.owner
      /\ col[4] = file.group /\ col[5] = Decimal(file.size) /\ col[6] = file.mtime.month
      /\ col[7] = DayField(day) /\ col[8] = file.mtime.clock /\ col[9] = file.name
      /\ col[10] = <<45, 62>> /\ (Target(file) => col[11] = file.target)
  BY DEF ColumnsOf
<1>2. /\ Field(GetPermissions(file.mode)) /\ Field(Decimal(file.nlink)) /\ Field(file.owner)
      /\ Field(file.group) /\ Field(Decimal(file.size))
  <2>1. Field(GetPermissions(file.mode))
    BY PermissionsShow DEF FileOK
  <2>2. file.nlink \in 0..LongMax
    BY LargestNumbers DEF FileOK
  <2>3. QED
    BY <2>1, <2>2, DecimalIsField DEF FileOK
<1>3. /\ Field(file.mtime.month) /\ Field(DayField(day)) /\ Field(file.mtime.clock)
      /\ Field(file.name) /\ day \in Seq(Nat) /\ Len(day) = 2
  BY DEF FileOK, TimeOK
<1> HIDE DEF col, day
<1>4. Columns(col, day)
  BY <1>1, <1>2, <1>3 DEF Columns
<1>5. t = Cat(Cat(OwnerPart(col), GroupPart(col, day)), Cat(<<Space>>, col[9]))
  <2>1. OwnerText(file) = OwnerPart(col)
    BY <1>1 DEF OwnerText, OwnerPart
  <2>2. TimeText(file.mtime) = DatePart(col, day)
    BY <1>1 DEF TimeText, DatePart, Cat, day
  <2>3. GroupText(file) = GroupPart(col, day)
    BY <1>1, <2>2 DEF GroupText, GroupPart
  <2>4. NameText(file) = Cat(<<Space>>, col[9])
    BY <1>1 DEF NameText
  <2>5. QED
    BY <2>1, <2>3, <2>4
<1>6. Row(t, FirstOf(col, 9))
  BY <1>4, <1>5, NameRow
<1>7. LineText(file) = Cat(t, LinkText(file))
  BY DEF LineText
<1> HIDE DEF t
<1>8. CASE Target(file)
  <2>1. Field(col[11]) /\ LinkText(file) = Cat(Arrow, col[11])
    BY <1>1, <1>8 DEF FileOK, Target, LinkText
  <2>2. Row(LineText(file), FirstOf(col, 11))
    BY <1>1, <1>6, <1>7, <2>1, LinkRow
  <2>3. FirstOf(col, 11) # <<>>
    BY FirstOfSome
  <2>4. QED
    BY <1>8, <2>2, <2>3, RowNotEmpty DEF WordsOf, col
<1>9. CASE ~Target(file)
  <2>1. LinkText(file) = <<>>
    BY <1>9 DEF LinkText
  <2>2. Cat(t, <<>>) = t
    <3>1. t \in Seq(Nat)
      BY <1>6, RowTyped
    <3>2. QED
      BY <3>1 DEF Cat
  <2>3. Row(LineText(file), FirstOf(col, 9))
    BY <1>6, <1>7, <2>1, <2>2
  <2>4. FirstOf(col, 9) # <<>>
    BY FirstOfSome
  <2>5. QED
    BY <1>9, <2>3, <2>4, RowNotEmpty DEF WordsOf, col
<1>10. QED
  BY <1>8, <1>9

\* A line tells its file.
LEMMA LineTells ==
    ASSUME NEW file, FileOK(file), file.owner # NullString, file.group # NullString
    PROVE  LineReadsBack(LineText(file), file)
<1> DEFINE col == ColumnsOf(file)
           field == Fields(LineText(file))
           target == IF file.mode.type = "link" /\ file.target # NullString
                     THEN << <<45, 62>>, file.target >> ELSE <<>>
<1>1. field = WordsOf(file)
  <2>1. HasWords(LineText(file), Space, WordsOf(file))
    BY LineFields DEF Row
  <2>2. QED
    BY <2>1, SplitGives DEF Fields
<1>2. \A l \in 1..11 : col[l] \in Seq(Nat)
  <2>1. Field(GetPermissions(file.mode)) /\ Field(Decimal(file.nlink)) /\ Field(Decimal(file.size))
    <3>1. Field(GetPermissions(file.mode))
      BY PermissionsShow DEF FileOK
    <3>2. file.nlink \in 0..LongMax
      BY LargestNumbers DEF FileOK
    <3>3. QED
      BY <3>1, <3>2, DecimalIsField DEF FileOK
  <2>2. /\ Field(file.mtime.month) /\ Field(DayField(file.mtime.day)) /\ Field(file.mtime.clock)
        /\ Field(file.name) /\ Field(file.owner) /\ Field(file.group)
    BY DEF FileOK, TimeOK
  <2>3. <<45, 62>> \in Seq(Nat)
    OBVIOUS
  <2>4. (IF Target(file) THEN file.target ELSE <<>>) \in Seq(Nat)
    BY DEF Target, FileOK, Field
  <2>5. /\ col[1] \in Seq(Nat) /\ col[2] \in Seq(Nat) /\ col[3] \in Seq(Nat) /\ col[4] \in Seq(Nat)
        /\ col[5] \in Seq(Nat) /\ col[6] \in Seq(Nat) /\ col[7] \in Seq(Nat) /\ col[8] \in Seq(Nat)
        /\ col[9] \in Seq(Nat) /\ col[10] \in Seq(Nat) /\ col[11] \in Seq(Nat)
    BY <2>1, <2>2, <2>3, <2>4 DEF ColumnsOf, Field
  <2>6. \A l \in 1..11 : \/ l = 1 \/ l = 2 \/ l = 3 \/ l = 4 \/ l = 5 \/ l = 6 \/ l = 7 \/ l = 8
                         \/ l = 9 \/ l = 10 \/ l = 11
    OBVIOUS
  <2> HIDE DEF col
  <2>7. QED
    BY <2>5, <2>6
<1>3. /\ col[1] = GetPermissions(file.mode) /\ col[2] = Decimal(file.nlink) /\ col[3] = file.owner
      /\ col[4] = file.group /\ col[5] = Decimal(file.size) /\ col[6] = file.mtime.month
      /\ col[7] = DayField(file.mtime.day) /\ col[8] = file.mtime.clock /\ col[9] = file.name
      /\ col[10] = <<45, 62>> /\ (Target(file) => col[11] = file.target)
  BY DEF ColumnsOf
<1> DEFINE eight == <<col[2], col[3], col[4], col[5], col[6], col[7], col[8], col[9]>>
           told == <<Decimal(file.nlink), file.owner, file.group, Decimal(file.size),
                     file.mtime.month, DayField(file.mtime.day), file.mtime.clock, file.name>>
<1>4. WordsOf(file) = FirstOf(col, IF Target(file) THEN 11 ELSE 9)
  BY DEF WordsOf
<1> HIDE DEF col, field
<1>5. eight = told
  BY <1>3
<1>6. Tail(FirstOf(col, 9)) = eight \o <<>> /\ Tail(FirstOf(col, 11)) = eight \o <<col[10], col[11]>>
  BY <1>2, TailOfFirst
<1> HIDE DEF eight, told
<1>7. Tail(field) = told \o target
  <2>1. CASE Target(file)
    <3>1. target = <<col[10], col[11]>>
      BY <1>3, <2>1 DEF Target
    <3>2. field = FirstOf(col, 11)
      BY <1>1, <1>4, <2>1
    <3>3. QED
      BY <1>5, <1>6, <3>1, <3>2
  <2>2. CASE ~Target(file)
    <3>1. target = <<>>
      BY <2>2 DEF Target
    <3>2. field = FirstOf(col, 9)
      BY <1>1, <1>4, <2>2
    <3>3. QED
      BY <1>5, <1>6, <3>1, <3>2
  <2>3. QED
    BY <2>1, <2>2
<1>8. field[1] = GetPermissions(file.mode)
  <2>1. FirstOf(col, 9)[1] = col[1] /\ FirstOf(col, 11)[1] = col[1]
    BY DEF FirstOf
  <2>2. QED
    BY <1>1, <1>3, <1>4, <2>1
<1>9. /\ {b \in 1..9 : field[1][b + 1] # Dash} = file.mode.bits
      /\ field[1][1] = TypeLetter(file.mode.type)
  BY <1>8, PermissionsShow DEF FileOK
<1> HIDE DEF target
<1>10. QED
  BY <1>7, <1>9 DEF LineReadsBack, field, told, target

----------------------------------------------------------------------------
(* Listings: the whole. *)

\* A sum of doubles.
LEMMA SumDoubled ==
    ASSUME NEW w \in Nat, NEW f, NEW h, \A k \in 1..w : h[k] \in Nat /\ f[k] = 2 * h[k]
    PROVE  /\ SumFunctionOnSet(h, 1..w) \in Nat
           /\ SumFunctionOnSet(f, 1..w) = 2 * SumFunctionOnSet(h, 1..w)
<1> DEFINE A(k) == SumFunctionOnSet(h, 1..k)
           B(k) == SumFunctionOnSet(f, 1..k)
           D == 0..w
           P == {k \in D : A(k) \in Nat /\ B(k) = 2 * A(k)}
<1>1. D = P
  <2>1. ASSUME NEW k \in D, \A l \in D : l < k => l \in P PROVE k \in P
    <3>1. CASE k = 0
      <4>1. 1..k = {}
        BY <3>1
      <4>2. A(k) = 0 /\ B(k) = 0
        BY <4>1, SumEmpty
      <4> HIDE DEF A, B
      <4>3. QED
        BY <4>2
    <3>2. CASE k # 0
      <4> DEFINE j0 == k - 1
      <4>1. j0 \in D /\ j0 < k /\ j0 \in Nat /\ j0 + 1 = k /\ k \in 1..w
        BY <3>2
      <4> HIDE DEF j0
      <4>2. \A x \in 1..(j0 + 1) : h[x] \in Int /\ f[x] \in Int
        BY <4>1
      <4>3. A(j0) \in Nat /\ B(j0) = 2 * A(j0)
        BY <2>1, <4>1
      <4>4. A(j0 + 1) = A(j0) + h[j0 + 1]
        BY <4>1, <4>2, SumNext
      <4>5. B(j0 + 1) = B(j0) + f[j0 + 1]
        BY <4>1, <4>2, SumNext
      <4>6. h[k] \in Nat /\ f[k] = 2 * h[k]
        BY <4>1
      <4> HIDE DEF A, B
      <4>7. A(k) = A(j0) + h[k] /\ B(k) = B(j0) + f[k]
        BY <4>1, <4>4, <4>5
      <4>8. A(k) \in Nat /\ B(k) = 2 * A(k)
        BY <4>3, <4>6, <4>7
      <4>9. QED
        BY <4>8 DEF A, B
    <3>3. QED
      BY <3>1, <3>2
  <2>2. D \in SUBSET Nat /\ P \in SUBSET D
    OBVIOUS
  <2> HIDE DEF D, P
  <2>3. QED
    BY <2>1, <2>2, Induction
<1>2. w \in P
  BY <1>1
<1>3. QED
  BY <1>2

\* A sum of numbers of at most 16.
LEMMA SumBounded ==
    ASSUME NEW w \in Nat, NEW f, \A k \in 1..w : f[k] \in 0..16
    PROVE  SumFunctionOnSet(f, 1..w) \in 0..16 * w
<1> DEFINE A(k) == SumFunctionOnSet(f, 1..k)
           D == 0..w
           P == {k \in D : A(k) \in 0..16 * k}
<1>1. D = P
  <2>1. ASSUME NEW k \in D, \A l \in D : l < k => l \in P PROVE k \in P
    <3>1. CASE k = 0
      <4>1. 1..k = {}
        BY <3>1
      <4>2. A(k) = 0
        BY <4>1, SumEmpty
      <4> HIDE DEF A
      <4>3. QED
        BY <4>2
    <3>2. CASE k # 0
      <4> DEFINE j0 == k - 1
      <4>1. j0 \in D /\ j0 < k /\ j0 \in Nat /\ j0 + 1 = k /\ k \in 1..w
        BY <3>2
      <4> HIDE DEF j0
      <4>2. \A x \in 1..(j0 + 1) : f[x] \in Int
        BY <4>1
      <4>3. A(j0) \in 0..16 * j0
        BY <2>1, <4>1
      <4>4. A(j0 + 1) = A(j0) + f[j0 + 1]
        BY <4>1, <4>2, SumNext
      <4>5. f[k] \in 0..16
        BY <4>1
      <4> HIDE DEF A
      <4>6. A(k) = A(j0) + f[k]
        BY <4>1, <4>4
      <4>7. A(k) \in 0..16 * k
        BY <4>1, <4>3, <4>5, <4>6
      <4>8. QED
        BY <4>7 DEF A
    <3>3. QED
      BY <3>1, <3>2
  <2>2. D \in SUBSET Nat /\ P \in SUBSET D
    OBVIOUS
  <2> HIDE DEF D, P
  <2>3. QED
    BY <2>1, <2>2, Induction
<1>2. w \in P
  BY <1>1
<1>3. QED
  BY <1>2

(* A list of such files. *)
FilesOK(files) ==
    /\ \E S : files \in Seq(S)
    /\ \A k \in 1..Len(files) : FileOK(files[k])

\* The total is half the blocks.
LEMMA TotalHalved ==
    ASSUME NEW files, FilesOK(files)
    PROVE  LET half == SumFunction([k \in DOMAIN files |-> files[k].blocks \div 2])
           IN  half \in Nat /\ GetTotalBlocks(files) = 2 * half /\ GetTotalBlocks(files) \div 2 = half
<1> DEFINE w == Len(files)
           f == [k \in DOMAIN files |-> files[k].blocks]
           h == [k \in DOMAIN files |-> files[k].blocks \div 2]
<1>1. w \in Nat /\ DOMAIN files = 1..w
  BY DEF FilesOK
<1>2. DOMAIN f = 1..w /\ DOMAIN h = 1..w
  BY <1>1
<1>3. \A k \in 1..w : h[k] \in Nat /\ f[k] = 2 * h[k]
  <2>1. ASSUME NEW k \in 1..w PROVE h[k] \in Nat /\ f[k] = 2 * h[k]
    <3> DEFINE x == files[k].blocks
    <3>1. x \in Nat /\ x % 2 = 0
      BY DEF FilesOK, FileOK
    <3>2. f[k] = x /\ h[k] = x \div 2
      BY <1>1
    <3> HIDE DEF x, f, h
    <3>3. x \div 2 \in Nat /\ x = 2 * (x \div 2)
      BY <3>1
    <3>4. QED
      BY <3>2, <3>3
  <2>2. QED
    BY <2>1
<1> HIDE DEF f, h, w
<1>4. /\ SumFunctionOnSet(h, 1..w) \in Nat
      /\ SumFunctionOnSet(f, 1..w) = 2 * SumFunctionOnSet(h, 1..w)
  BY <1>1, <1>3, SumDoubled
<1>5. SumFunction(h) \in Nat /\ SumFunction(f) = 2 * SumFunction(h)
  BY <1>2, <1>4 DEF SumFunction
<1>6. GetTotalBlocks(files) = SumFunction(f)
  BY DEF GetTotalBlocks, f
<1> DEFINE sum == SumFunction(h)
           total == GetTotalBlocks(files)
<1>7. sum \in Nat /\ total = 2 * sum
  BY <1>5, <1>6
<1> HIDE DEF sum, total
<1>8. total \div 2 = sum
  BY <1>7
<1>9. QED
  BY <1>7, <1>8 DEF sum, total, h

(* The files with no name for the owner or the group; what is printed whole; where it ends. *)
Nameless(files) == {k \in DOMAIN files : NullString \in {files[k].owner, files[k].group}}
Whole(files) == IF Nameless(files) = {} THEN Len(files) ELSE Min(Nameless(files)) - 1
LastShown(files) == IF Nameless(files) = {} THEN Len(files) ELSE Min(Nameless(files))
LineTexts(files) == [k \in 1..LastShown(files) |-> Line(files[k]).text]

\* Files before the first nameless one have names.
LEMMA WholeIs ==
    ASSUME NEW files, FilesOK(files)
    PROVE  /\ Len(files) \in Nat /\ DOMAIN files = 1..Len(files)
           /\ Whole(files) \in 0..Len(files)
           /\ \A k \in 1..Whole(files) : files[k].owner # NullString /\ files[k].group # NullString
           /\ \/ Nameless(files) = {} /\ LastShown(files) = Whole(files)
              \/ /\ Nameless(files) # {} /\ LastShown(files) = Whole(files) + 1
                 /\ LastShown(files) \in 1..Len(files)
                 /\ NullString \in {files[LastShown(files)].owner, files[LastShown(files)].group}
<1> DEFINE N == Nameless(files)
           w == Len(files)
<1>1. w \in Nat /\ DOMAIN files = 1..w
  BY DEF FilesOK
<1>2. \A k \in 1..w : k \in N <=> (files[k].owner = NullString \/ files[k].group = NullString)
  BY <1>1 DEF Nameless
<1>3. N \in SUBSET (1..w)
  BY <1>1 DEF Nameless
<1>4. CASE N = {}
  BY <1>1, <1>2, <1>4 DEF Whole, LastShown
<1>5. CASE N # {}
  <2>1. N \in SUBSET Nat
    BY <1>1, <1>3
  <2> DEFINE m == Min(N)
  <2>2. m \in N /\ \A k \in N : m <= k
    <3> HIDE DEF N
    <3> QED
      BY <1>5, <2>1, MinOfNat
  <2>3. Whole(files) = m - 1 /\ LastShown(files) = m
    BY <1>5 DEF Whole, LastShown
  <2> HIDE DEF N, m, w
  <2>4. m \in 1..w
    BY <1>3, <2>2
  <2>5. \A k \in 1..(m - 1) : k \in 1..w /\ k \notin N
    BY <1>1, <2>2, <2>4
  <2>6. m - 1 \in 0..w /\ (m - 1) + 1 = m
    BY <1>1, <2>4
  <2>7. QED
    BY <1>1, <1>2, <1>5, <2>2, <2>3, <2>4, <2>5, <2>6 DEF N, w
<1>6. QED
  BY <1>4, <1>5

\* The lines that are printed.
LEMMA PrintLinesAre ==
    ASSUME NEW files, FilesOK(files)
    PROVE  PrintLines(files) = [crashed |-> Nameless(files) # {}, text |-> FlattenSeq(LineTexts(files))]
<1> DEFINE line == [k \in DOMAIN files |-> PrintLongFormat(files[k])]
           crashes == {k \in DOMAIN files : line[k].crashed}
           last == IF crashes = {} THEN Len(files) ELSE Min(crashes)
<1>1. /\ Len(files) \in Nat /\ DOMAIN files = 1..Len(files)
      /\ LastShown(files) \in 0..Len(files)
  BY WholeIs
<1>2. \A k \in DOMAIN files : line[k] = Line(files[k])
  BY <1>1, LinePrinted DEF FilesOK
<1>3. \A k \in DOMAIN files : Line(files[k]).crashed <=> NullString \in {files[k].owner, files[k].group}
  BY DEF Line
<1>4. PrintLines(files) = [crashed |-> crashes # {}, text |-> FlattenSeq([k \in 1..last |-> line[k].text])]
  BY DEF PrintLines
<1> HIDE DEF line
<1>5. crashes = Nameless(files)
  BY <1>2, <1>3 DEF Nameless
<1> HIDE DEF crashes
<1>6. last = LastShown(files)
  BY <1>5 DEF LastShown
<1> HIDE DEF last
<1>7. \A k \in 1..LastShown(files) : line[k].text = Line(files[k]).text
  BY <1>1, <1>2
<1>8. [k \in 1..last |-> line[k].text] = LineTexts(files)
  BY <1>6, <1>7 DEF LineTexts
<1>9. QED
  BY <1>4, <1>5, <1>8

(* A text that can be a line. *)
OneLine(t) == t \in Seq(Nat) /\ t # <<>> /\ \A l \in 1..Len(t) : t[l] # Newline

(* W are the lines of t, which ends in a newline or is empty. *)
Lines(t, W) == HasWords(t, Newline, W) /\ Ended(t, Newline)

\* A line can be added, with or without its end.
LEMMA LineAdded ==
    ASSUME NEW t, NEW W, Lines(t, W), NEW u, OneLine(u)
    PROVE  /\ HasWords(Cat(t, u), Newline, Append(W, u))
           /\ Lines(Cat(t, Cat(u, <<Newline>>)), Append(W, u))
<1>0. Newline \in Nat
  BY DEF Newline
<1>1. HasWords(t, Newline, W) /\ Ended(t, Newline)
  BY DEF Lines
<1>2. u \in Seq(Nat) /\ u # <<>> /\ \A l \in 1..Len(u) : u[l] # Newline
  BY DEF OneLine
<1>3. HasWords(t \o u, Newline, Append(W, u))
  BY <1>0, <1>1, <1>2, WordAdded
<1> DEFINE v == t \o u
<1> HIDE DEF v
<1>4. HasWords(v, Newline, Append(W, u))
  BY <1>3 DEF v
<1>5. HasWords(v \o <<Newline>>, Newline, Append(W, u)) /\ Ended(v \o <<Newline>>, Newline)
  BY <1>0, <1>4, DelimiterAdded
<1>6. t \in Seq(Nat) /\ <<Newline>> \in Seq(Nat)
  BY <1>0, <1>1 DEF HasWords
<1>7. v \o <<Newline>> = t \o (u \o <<Newline>>)
  BY <1>2, <1>6, TextsRegroup DEF v
<1>8. QED
  BY <1>3, <1>5, <1>7 DEF Lines, Cat

\* Lines after a first part.
LEMMA LinesAdded ==
    ASSUME NEW w \in Nat, NEW F, NEW lines, NEW head,
           F[0] = <<>>, \A x \in 0..w : IsText(F[x]),
           \A x \in 1..w : F[x] = Cat(F[x - 1], Cat(lines[x + 1], <<Newline>>)) /\ OneLine(lines[x + 1]),
           Lines(head, FirstOf(lines, 1))
    PROVE  Lines(Cat(head, F[w]), FirstOf(lines, w + 1))
<1> DEFINE D == 0..w
           P == {x \in D : Lines(Cat(head, F[x]), FirstOf(lines, x + 1))}
<1>0. head \in Seq(Nat) /\ IsText(head)
  BY DEF Lines, HasWords, IsText
<1>1. D = P
  <2>1. ASSUME NEW x \in D, \A l \in D : l < x => l \in P PROVE x \in P
    <3>1. CASE x = 0
      <4>1. Cat(head, <<>>) = head
        BY <1>0 DEF Cat
      <4>2. x + 1 = 1
        BY <3>1
      <4>3. Lines(Cat(head, F[x]), FirstOf(lines, x + 1))
        BY <3>1, <4>1, <4>2
      <4>4. QED
        BY <4>3
    <3>2. CASE x # 0
      <4> DEFINE y == x - 1
      <4>1. y \in D /\ y < x /\ y \in Nat /\ y + 1 = x /\ x \in 1..w /\ x \in Nat
        BY <3>2
      <4>2. F[x] = Cat(F[y], Cat(lines[x + 1], <<Newline>>)) /\ OneLine(lines[x + 1])
        BY <4>1
      <4> HIDE DEF y
      <4>3. Lines(Cat(head, F[y]), FirstOf(lines, x))
        BY <2>1, <4>1
      <4> DEFINE u == lines[x + 1]
                 t == Cat(head, F[y])
      <4> HIDE DEF u, t
      <4>4. Lines(t, FirstOf(lines, x)) /\ OneLine(u)
        BY <4>2, <4>3 DEF t, u
      <4>5. Lines(Cat(t, Cat(u, <<Newline>>)), Append(FirstOf(lines, x), u))
        BY <4>4, LineAdded
      <4>6. Append(FirstOf(lines, x), u) = FirstOf(lines, x + 1)
        BY <4>1, FirstOfNext DEF u
      <4>7. IsText(F[y]) /\ IsText(Cat(u, <<Newline>>))
        <5>1. IsText(u) /\ IsText(<<Newline>>)
          BY <4>4 DEF OneLine, IsText, Newline
        <5>2. IsText(F[y])
          BY <4>1
        <5>3. QED
          BY <5>1, <5>2, CatTyped
      <4> DEFINE v == Cat(u, <<Newline>>)
      <4> HIDE DEF v
      <4>8. Cat(Cat(head, F[y]), v) = Cat(head, Cat(F[y], v))
        BY <1>0, <4>7, CatRegroup DEF v
      <4>9. F[x] = Cat(F[y], v)
        BY <4>2 DEF u, v
      <4>10. Cat(head, F[x]) = Cat(t, v)
        BY <4>8, <4>9 DEF t
      <4>11. Lines(Cat(head, F[x]), FirstOf(lines, x + 1))
        BY <4>5, <4>6, <4>10 DEF v
      <4>12. QED
        BY <4>11
    <3>3. QED
      BY <3>1, <3>2
  <2>2. D \in SUBSET Nat /\ P \in SUBSET D
    OBVIOUS
  <2> HIDE DEF D, P
  <2>3. QED
    BY <2>1, <2>2, Induction
<1>2. w \in P
  BY <1>1
<1>3. QED
  BY <1>2

\* The last member after an append.
LEMMA AppendAt ==
    ASSUME NEW S, NEW s \in Seq(S), NEW x \in S
    PROVE  /\ Append(s, x) \in Seq(S) /\ Len(Append(s, x)) = Len(s) + 1
           /\ Append(s, x)[Len(s) + 1] = x
OBVIOUS

\* The line of the total.
LEMMA TotalLine ==
    ASSUME NEW k \in 0..LongMax
    PROVE  /\ Fields(Cat(Total, Decimal(k)))[2] = Decimal(k)
           /\ OneLine(Cat(Total, Decimal(k)))
<1> DEFINE word == <<116, 111, 116, 97, 108>>
           t1 == Cat(word, <<Space>>)
           t2 == Cat(t1, Decimal(k))
           W == Append(<<word>>, Decimal(k))
<1>1. Field(word)
  BY DEF Field, Space, Newline
<1>2. t1 = Total
  <2> DEFINE last == <<Space>>
             t == Total
  <2>0. Space \in Nat
    BY DEF Space
  <2>1. /\ word \in Seq(Nat) /\ Len(word) = 5 /\ word[1] = 116 /\ word[2] = 111 /\ word[3] = 116
        /\ word[4] = 97 /\ word[5] = 108
    OBVIOUS
  <2>2. last \in Seq(Nat) /\ Len(last) = 1 /\ last[1] = Space
    BY <2>0
  <2>3. /\ t \in Seq(Nat) /\ Len(t) = 6 /\ t[1] = 116 /\ t[2] = 111 /\ t[3] = 116
        /\ t[4] = 97 /\ t[5] = 108 /\ t[6] = Space
    BY <2>0 DEF Total
  <2> HIDE DEF word, last, t
  <2>4. Joined(word \o last, word, last, Nat)
    BY <2>1, <2>2, JoinedAt
  <2> DEFINE u == word \o last
  <2> HIDE DEF u
  <2>5. Joined(u, word, last, Nat)
    BY <2>4 DEF u
  <2>6. /\ 1 \in 1..Len(word) /\ 2 \in 1..Len(word) /\ 3 \in 1..Len(word) /\ 4 \in 1..Len(word)
        /\ 5 \in 1..Len(word) /\ 1 \in 1..Len(last) /\ Len(word) + 1 = 6
        /\ Len(word) + Len(last) = 6
    BY <2>1, <2>2
  <2>7. /\ u \in Seq(Nat) /\ Len(u) = 6 /\ u[1] = 116 /\ u[2] = 111 /\ u[3] = 116
        /\ u[4] = 97 /\ u[5] = 108 /\ u[6] = Space
    BY <2>1, <2>2, <2>5, <2>6 DEF Joined
  <2>8. \A l \in 1..6 : l = 1 \/ l = 2 \/ l = 3 \/ l = 4 \/ l = 5 \/ l = 6
    OBVIOUS
  <2>9. \A l \in 1..6 : u[l] = t[l]
    BY <2>3, <2>7, <2>8
  <2>10. u = t
    <3>1. u \in Seq(Nat) /\ t \in Seq(Nat) /\ Len(u) = 6 /\ Len(t) = 6
      BY <2>3, <2>7
    <3>2. QED
      BY <2>9, <3>1, SeqEqual
  <2>11. QED
    BY <2>10 DEF u, t, last, Cat
<1>3. Field(Decimal(k))
  BY DecimalIsField
<1> HIDE DEF word
<1>4. Row(word, <<word>>)
  <2>1. Row(<<>>, <<>>) /\ Ended(<<>>, Space)
    BY RowNothing
  <2>2. Row(Cat(<<>>, word), Append(<<>>, word))
    BY <1>1, <2>1, RowOn
  <2>3. Cat(<<>>, word) = word
    BY <1>1, NothingBefore DEF Cat, Field
  <2>4. Append(<<>>, word) = <<word>>
    <3>1. <<>> \in Seq(Seq(Nat)) /\ word \in Seq(Nat)
      BY <1>1 DEF Field
    <3>2. Append(<<>>, word) \in Seq(Seq(Nat)) /\ Len(Append(<<>>, word)) = 1 /\ Append(<<>>, word)[1] = word
      BY <3>1
    <3>3. <<word>> \in Seq(Seq(Nat)) /\ Len(<<word>>) = 1 /\ <<word>>[1] = word
      BY <3>1
    <3> DEFINE u == Append(<<>>, word)
               v == <<word>>
    <3> HIDE DEF u, v
    <3>4. \A l \in 1..1 : u[l] = v[l]
      BY <3>2, <3>3 DEF u, v
    <3>5. u = v
      BY <3>2, <3>3, <3>4, SeqEqual DEF u, v
    <3>6. QED
      BY <3>5 DEF u, v
  <2>5. QED
    BY <2>2, <2>3, <2>4
<1>5. Row(t1, <<word>>) /\ Ended(t1, Space)
  BY <1>4, RowOn
<1> HIDE DEF t1
<1>6. Row(t2, W)
  BY <1>3, <1>5, RowOn
<1>7. W \in Seq(Seq(Nat)) /\ Len(W) = 2 /\ W[2] = Decimal(k)
  <2>1. <<word>> \in Seq(Seq(Nat)) /\ Len(<<word>>) = 1 /\ Decimal(k) \in Seq(Nat)
    BY <1>1, <1>3 DEF Field
  <2> DEFINE one == <<word>>
             d == Decimal(k)
  <2> HIDE DEF one, d
  <2>2. one \in Seq(Seq(Nat)) /\ Len(one) = 1 /\ d \in Seq(Nat)
    BY <2>1 DEF one, d
  <2>3. Append(one, d) \in Seq(Seq(Nat)) /\ Len(Append(one, d)) = 2 /\ Append(one, d)[2] = d
    <3>1. /\ Append(one, d) \in Seq(Seq(Nat)) /\ Len(Append(one, d)) = Len(one) + 1
          /\ Append(one, d)[Len(one) + 1] = d
      BY <2>2, AppendAt
    <3>2. Len(one) + 1 = 2
      BY <2>2
    <3>3. QED
      BY <3>1, <3>2
  <2>4. QED
    BY <2>3 DEF one, d
<1> HIDE DEF W
<1>8. W # <<>>
  <2>1. SUFFICES ASSUME W = <<>> PROVE FALSE
    OBVIOUS
  <2>2. Len(W) = 0
    BY <2>1
  <2>3. QED
    BY <1>7, <2>2
<1>9. t2 # <<>> /\ t2 \in Seq(Nat) /\ \A l \in 1..Len(t2) : t2[l] # Newline
  BY <1>6, <1>8, RowNotEmpty, RowTyped DEF Row
<1>10. Fields(t2) = W
  BY <1>6, SplitGives DEF Row, Fields
<1>11. t2 = Cat(Total, Decimal(k))
  BY <1>2
<1> HIDE DEF t2
<1>12. QED
  BY <1>7, <1>9, <1>10, <1>11 DEF OneLine

\* A row that is not empty can be a line.
LEMMA RowIsLine == ASSUME NEW t, NEW W, Row(t, W), t # <<>> PROVE OneLine(t)
BY RowTyped DEF Row, OneLine

\* What is printed of a file is a text, and a line unless the owner or the group has no name.
LEMMA LineTyped ==
    ASSUME NEW file, FileOK(file)
    PROVE  /\ Line(file).text \in Seq(Nat)
           /\ file.owner # NullString /\ file.group # NullString =>
                 OneLine(LineText(file)) /\ Line(file).text = Cat(LineText(file), <<Newline>>)
           /\ file.owner = NullString => Line(file).text = <<>>
           /\ file.owner # NullString /\ file.group = NullString =>
                 OneLine(OwnerText(file)) /\ Line(file).text = OwnerText(file)
<1>1. CASE file.owner = NullString
  BY <1>1 DEF Line
<1>2. CASE file.owner # NullString /\ file.group = NullString
  <2>1. OneLine(OwnerText(file))
    BY <1>2, OwnerFields, RowIsLine
  <2>2. Line(file).text = OwnerText(file)
    BY <1>2 DEF Line
  <2>3. QED
    BY <1>2, <2>1, <2>2 DEF OneLine
<1>3. CASE file.owner # NullString /\ file.group # NullString
  <2>1. OneLine(LineText(file))
    BY <1>3, LineFields, RowIsLine
  <2>2. Line(file).text = Cat(LineText(file), <<Newline>>)
    BY <1>3 DEF Line
  <2>3. IsText(LineText(file)) /\ IsText(<<Newline>>)
    BY <2>1 DEF OneLine, IsText, Newline
  <2>4. Cat(LineText(file), <<Newline>>) \in Seq(Nat)
    BY <2>3, CatTyped DEF IsText
  <2>5. QED
    BY <1>3, <2>1, <2>2, <2>4
<1>4. QED
  BY <1>1, <1>2, <1>3

(* The lines of a listing whose first line is first. *)
LinesOf(files, first) == [l \in 1..(Len(files) + 1) |-> IF l = 1 THEN first ELSE LineText(files[l - 1])]

(* W are those that are printed. *)
Listed(W, files, first) ==
    /\ Len(W) \in {Whole(files) + 1, Whole(files) + 2}
    /\ Len(W) = Whole(files) + 2 => files[Whole(files) + 1].owner # NullString
    /\ \A l \in 1..(Whole(files) + 1) : W[l] = LinesOf(files, first)[l]

\* They are.
LEMMA ListingLines ==
    ASSUME NEW files, FilesOK(files), NEW first, OneLine(first)
    PROVE  \E W : /\ HasWords(Cat(Cat(first, <<Newline>>), FlattenSeq(LineTexts(files))), Newline, W)
                  /\ Listed(W, files, first)
<1> DEFINE head == Cat(first, <<Newline>>)
           lines == LinesOf(files, first)
           whole == Whole(files)
           last == LastShown(files)
           seqs == LineTexts(files)
           w == Len(files)
           V == FirstOf(lines, whole + 1)
<1>1. /\ w \in Nat /\ whole \in 0..w
      /\ \A k \in 1..whole : files[k].owner # NullString /\ files[k].group # NullString
      /\ \/ Nameless(files) = {} /\ last = whole
         \/ /\ Nameless(files) # {} /\ last = whole + 1 /\ last \in 1..w
            /\ NullString \in {files[last].owner, files[last].group}
  BY WholeIs
<1>2. \A k \in 1..w : FileOK(files[k])
  BY DEF FilesOK
<1>3. last \in Nat /\ last <= w /\ whole <= last
  BY <1>1
<1>4. seqs \in Seq(Seq(Nat)) /\ Len(seqs) = last /\ \A k \in 1..last : seqs[k] = Line(files[k]).text
  <2>1. \A k \in 1..last : Line(files[k]).text \in Seq(Nat)
    BY <1>2, <1>3, LineTyped
  <2>2. seqs = [k \in 1..last |-> Line(files[k]).text]
    BY DEF LineTexts
  <2> HIDE DEF seqs, last
  <2>3. QED
    BY <1>3, <2>1, <2>2
<1>5. PICK F : Flattens(F, seqs, Nat)
  BY <1>4, Flattened
<1>6. /\ F[0] = <<>> /\ F[last] = FlattenSeq(seqs) /\ (\A x \in 0..last : F[x] \in Seq(Nat))
      /\ \A x \in 1..last : F[x] = F[x - 1] \o Line(files[x]).text
  BY <1>4, <1>5 DEF Flattens
<1>7. lines[1] = first /\ \A x \in 1..w : lines[x + 1] = LineText(files[x])
  <2>1. lines = [l \in 1..(w + 1) |-> IF l = 1 THEN first ELSE LineText(files[l - 1])]
    BY DEF LinesOf
  <2> HIDE DEF lines, w
  <2>2. 1 \in 1..(w + 1) /\ \A x \in 1..w : x + 1 \in 1..(w + 1) /\ x + 1 # 1 /\ (x + 1) - 1 = x
    BY <1>1
  <2>3. QED
    BY <2>1, <2>2
<1> HIDE DEF lines, whole, last, seqs, w
<1>8. Lines(head, FirstOf(lines, 1))
  <2>1. Lines(<<>>, <<>>)
    BY NoWords DEF Lines, Ended
  <2>2. Lines(Cat(<<>>, head), Append(<<>>, first))
    BY <2>1, LineAdded
  <2>3. Cat(<<>>, head) = head
    <3>1. IsText(first) /\ IsText(<<Newline>>)
      BY DEF OneLine, IsText, Newline
    <3>2. head \in Seq(Nat)
      BY <3>1, CatTyped DEF IsText
    <3> HIDE DEF head
    <3>3. QED
      BY <3>2, NothingBefore DEF Cat
  <2>4. FirstOf(lines, 0) = <<>> /\ 0 \in Nat /\ 0 + 1 = 1
    BY DEF FirstOf
  <2>5. Append(FirstOf(lines, 0), lines[0 + 1]) = FirstOf(lines, 0 + 1)
    BY FirstOfNext
  <2>6. Append(<<>>, first) = FirstOf(lines, 1)
    BY <1>7, <2>4, <2>5
  <2>7. QED
    BY <2>2, <2>3, <2>6
<1> HIDE DEF head
<1>9. Lines(Cat(head, F[whole]), V)
  <2>1. \A x \in 0..whole : IsText(F[x])
    BY <1>1, <1>3, <1>6 DEF IsText
  <2>2. ASSUME NEW x \in 1..whole
        PROVE  F[x] = Cat(F[x - 1], Cat(lines[x + 1], <<Newline>>)) /\ OneLine(lines[x + 1])
    <3>1. x \in 1..w /\ x \in 1..last
      BY <1>1, <1>3
    <3>2. OneLine(LineText(files[x])) /\ Line(files[x]).text = Cat(LineText(files[x]), <<Newline>>)
      BY <1>1, <1>2, <3>1, LineTyped
    <3>3. QED
      BY <1>6, <1>7, <3>1, <3>2 DEF Cat
  <2>3. whole \in Nat
    BY <1>1
  <2>4. QED
    BY <1>6, <1>8, <2>1, <2>2, <2>3, LinesAdded
<1>10. Len(V) = whole + 1 /\ \A l \in 1..(whole + 1) : V[l] = lines[l]
  BY <1>1 DEF FirstOf
<1>11. V \in Seq(Seq(Nat))
  BY <1>9 DEF Lines, HasWords
<1> HIDE DEF V
<1>12. CASE F[last] = F[whole]
  <2>1. HasWords(Cat(head, FlattenSeq(seqs)), Newline, V)
    BY <1>6, <1>9, <1>12 DEF Lines
  <2>2. Listed(V, files, first)
    <3>1. Len(V) # whole + 2 /\ Len(V) \in {whole + 1, whole + 2}
      BY <1>1, <1>10
    <3>2. QED
      BY <1>10, <3>1 DEF Listed, whole, lines
  <2>3. QED
    BY <2>1, <2>2 DEF head, seqs
<1>13. CASE F[last] # F[whole]
  <2>1. /\ last = whole + 1 /\ last \in 1..w
        /\ files[last].owner = NullString \/ files[last].group = NullString
    BY <1>1, <1>13
  <2>2. last - 1 = whole /\ last \in 1..last
    BY <1>1, <2>1
  <2>3. F[last] = F[whole] \o Line(files[last]).text /\ F[whole] \in Seq(Nat)
    <3>1. F[last] = F[last - 1] \o Line(files[last]).text
      BY <1>6, <2>2
    <3>2. whole \in 0..last
      BY <1>1, <1>3
    <3>3. F[whole] \in Seq(Nat)
      BY <1>6, <3>2
    <3>4. QED
      BY <2>2, <3>1, <3>3
  <2>4. files[last].owner # NullString
    <3>1. SUFFICES ASSUME files[last].owner = NullString PROVE FALSE
      OBVIOUS
    <3>2. Line(files[last]).text = <<>>
      BY <1>2, <2>1, <3>1, LineTyped
    <3>3. F[last] = F[whole]
      BY <2>3, <3>2
    <3>4. QED
      BY <1>13, <3>3
  <2> DEFINE u == OwnerText(files[last])
  <2>5. OneLine(u) /\ Line(files[last]).text = u
    BY <1>2, <2>1, <2>4, LineTyped
  <2> HIDE DEF u
  <2>6. HasWords(Cat(Cat(head, F[whole]), u), Newline, Append(V, u))
    BY <1>9, <2>5, LineAdded
  <2>7. Cat(Cat(head, F[whole]), u) = Cat(head, FlattenSeq(seqs))
    <3>1. IsText(head)
      BY <1>8 DEF Lines, HasWords, IsText
    <3>2. IsText(F[whole]) /\ IsText(u)
      BY <2>3, <2>5 DEF IsText, OneLine
    <3>3. Cat(Cat(head, F[whole]), u) = Cat(head, Cat(F[whole], u))
      BY <3>1, <3>2, CatRegroup
    <3>4. Cat(F[whole], u) = FlattenSeq(seqs)
      BY <1>6, <2>3, <2>5 DEF Cat
    <3>5. QED
      BY <3>3, <3>4
  <2>8. Listed(Append(V, u), files, first)
    <3> DEFINE W == Append(V, u)
    <3>1. u \in Seq(Nat)
      BY <2>5 DEF OneLine
    <3>2. Len(W) = Len(V) + 1 /\ \A l \in 1..Len(V) : W[l] = V[l]
      BY <1>11, <3>1
    <3> HIDE DEF W
    <3>3. Len(W) = whole + 2 /\ \A l \in 1..(whole + 1) : W[l] = lines[l]
      BY <1>1, <1>10, <3>2
    <3>4. files[whole + 1].owner # NullString
      BY <2>1, <2>4
    <3>5. QED
      BY <3>3, <3>4 DEF Listed, W, whole, lines
  <2>9. QED
    BY <2>6, <2>7, <2>8 DEF head, seqs
<1>14. QED
  BY <1>12, <1>13

(* What is read back with -l. *)
LongPart(long, files) ==
    LET lines == Split(long.text, Newline, None).words IN
    /\ long.crashed <=> Nameless(files) # {}
    /\ Len(lines) \in {Whole(files) + 1, Whole(files) + 2}
    /\ Len(lines) = Whole(files) + 2 => files[Whole(files) + 1].owner # NullString
    /\ Fields(lines[1])[2] = Decimal(SumFunction([k \in DOMAIN files |-> files[k].blocks \div 2]))
    /\ \A k \in 1..Whole(files) : LineReadsBack(lines[k + 1], files[k])

\* It is, when half the blocks are within a long.
LEMMA LongReadsBack ==
    ASSUME NEW files, FilesOK(files), GetTotalBlocks(files) <= LongMax
    PROVE  LongPart(HandleLongFormat(files), files)
<1> DEFINE half == SumFunction([k \in DOMAIN files |-> files[k].blocks \div 2])
           first == Cat(Total, Decimal(half))
           lines == LinesOf(files, first)
           long == HandleLongFormat(files)
           whole == Whole(files)
<1>1. half \in 0..LongMax /\ GetTotalBlocks(files) \div 2 = half
  <2>1. half \in Nat /\ GetTotalBlocks(files) = 2 * half /\ GetTotalBlocks(files) \div 2 = half
    BY TotalHalved
  <2> DEFINE total == GetTotalBlocks(files)
  <2> HIDE DEF half, total
  <2>2. half \in Nat /\ total = 2 * half /\ total <= LongMax /\ LongMax \in Nat
    BY <2>1, LargestNumbers DEF total
  <2>3. half \in 0..LongMax
    BY <2>2
  <2>4. QED
    BY <2>1, <2>3
<1> HIDE DEF half
<1>2. Text(Total \o FormatLd \o <<Newline>>, <<half>>) = Cat(first, <<Newline>>)
  BY <1>1, TotalPrinted
<1>3. PrintLines(files) = [crashed |-> Nameless(files) # {}, text |-> FlattenSeq(LineTexts(files))]
  BY PrintLinesAre
<1>4. /\ long.crashed <=> Nameless(files) # {}
      /\ long.text = Cat(Cat(first, <<Newline>>), FlattenSeq(LineTexts(files)))
  <2> DEFINE print == PrintLines(files)
             text == FlattenSeq(LineTexts(files))
             top == Text(Total \o FormatLd \o <<Newline>>, <<GetTotalBlocks(files) \div 2>>)
  <2>1. long = [crashed |-> print.crashed, text |-> top \o print.text]
    BY DEF HandleLongFormat
  <2>2. top = Cat(first, <<Newline>>)
    BY <1>1, <1>2
  <2>3. print = [crashed |-> Nameless(files) # {}, text |-> text]
    BY <1>3
  <2> HIDE DEF print, text, top, long
  <2>4. print.text = text /\ (print.crashed <=> Nameless(files) # {})
    BY <2>3
  <2>5. long.text = top \o print.text /\ long.crashed = print.crashed
    BY <2>1
  <2>6. long.text = Cat(top, text)
    BY <2>4, <2>5 DEF Cat
  <2>7. QED
    BY <2>2, <2>4, <2>5, <2>6 DEF text
<1> HIDE DEF long
<1>5. OneLine(first) /\ Fields(first)[2] = Decimal(half)
  BY <1>1, TotalLine
<1> HIDE DEF first
<1>6. PICK W : /\ HasWords(Cat(Cat(first, <<Newline>>), FlattenSeq(LineTexts(files))), Newline, W)
               /\ Listed(W, files, first)
  BY <1>5, ListingLines
<1>7. Split(long.text, Newline, None).words = W
  BY <1>4, <1>6, SplitGives
<1>8. /\ Len(W) \in {whole + 1, whole + 2}
      /\ Len(W) = whole + 2 => files[whole + 1].owner # NullString
      /\ \A l \in 1..(whole + 1) : W[l] = lines[l]
  BY <1>6 DEF Listed
<1>9. /\ Len(files) \in Nat /\ whole \in 0..Len(files)
      /\ \A k \in 1..whole : files[k].owner # NullString /\ files[k].group # NullString
  BY WholeIs
<1>10. lines[1] = first /\ \A k \in 1..whole : lines[k + 1] = LineText(files[k])
  <2> DEFINE w == Len(files)
  <2>1. lines = [l \in 1..(w + 1) |-> IF l = 1 THEN first ELSE LineText(files[l - 1])]
    BY DEF LinesOf
  <2> HIDE DEF lines, w, whole
  <2>2. 1 \in 1..(w + 1) /\ \A x \in 1..whole : x + 1 \in 1..(w + 1) /\ x + 1 # 1 /\ (x + 1) - 1 = x
    BY <1>9 DEF w
  <2>3. QED
    BY <2>1, <2>2
<1> HIDE DEF lines, whole
<1>11. \A k \in 1..whole : LineReadsBack(W[k + 1], files[k])
  <2>1. ASSUME NEW k \in 1..whole PROVE LineReadsBack(W[k + 1], files[k])
    <3>1. k + 1 \in 1..(whole + 1) /\ k \in 1..Len(files)
      BY <1>9
    <3>2. W[k + 1] = LineText(files[k])
      BY <1>8, <1>10, <3>1
    <3>3. FileOK(files[k])
      BY <3>1 DEF FilesOK
    <3>4. LineReadsBack(LineText(files[k]), files[k])
      BY <1>9, <3>3, LineTells
    <3>5. QED
      BY <3>2, <3>4
  <2>2. QED
    BY <2>1
<1>12. Fields(W[1])[2] = Decimal(half)
  <2>1. 1 \in 1..(whole + 1)
    BY <1>9
  <2>2. W[1] = first
    BY <1>8, <1>10, <2>1
  <2>3. QED
    BY <1>5, <2>2
<1>13. QED
  BY <1>4, <1>7, <1>8, <1>11, <1>12 DEF LongPart, whole, half, long

\* Names after one another, two blanks between them.
LEMMA NamesPrinted ==
    ASSUME NEW s \in Seq(Nat)
    PROVE  /\ Text(FormatS \o <<Space, Space>>, <<s>>) = Cat(Cat(s, <<Space>>), <<Space>>)
           /\ Text(FormatS \o <<Newline>>, <<s>>) = Cat(s, <<Newline>>)
<1> DEFINE f1 == FormatS
           f2 == f1 \o <<Space>>
           f3 == f2 \o <<Space>>
           t2 == s \o <<Space>>
           t3 == t2 \o <<Space>>
<1>1. Stands(f1, <<s>>, s)
  BY StandsFirst
<1>2. f1 \in Seq(Nat) /\ <<Space>> \in Seq(Nat)
  BY DEF FormatS, Percent, LetterS, Space
<1> HIDE DEF f1
<1>3. Stands(f1 \o <<Newline>>, <<s>>, s \o <<Newline>>)
  BY <1>1, StandsText, BlanksInFormats
<1>4. Stands(f2, <<s>>, t2)
  BY <1>1, StandsText, BlanksInFormats
<1> HIDE DEF f2, t2
<1>5. Stands(f3, <<s>>, t3)
  BY <1>4, StandsText, BlanksInFormats
<1>6. f3 = f1 \o <<Space, Space>>
  <2>1. (f1 \o <<Space>>) \o <<Space>> = f1 \o (<<Space>> \o <<Space>>)
    BY <1>2, TextsRegroup
  <2>2. <<Space>> \o <<Space>> = <<Space, Space>>
    BY ThreeArguments
  <2>3. QED
    BY <2>1, <2>2 DEF f2
<1> HIDE DEF f3, t3
<1>7. Text(f3, <<s>>) = t3 /\ Text(f1 \o <<Newline>>, <<s>>) = s \o <<Newline>>
  BY <1>3, <1>5, StandsPrinted
<1>8. QED
  BY <1>6, <1>7 DEF f1, t2, t3, Cat

\* What is read back without -l.
LEMMA ShortReadsBack ==
    ASSUME NEW files, FilesOK(files), PrintFiles(files) # <<>>
    PROVE  Fields(Split(PrintFiles(files), Newline, None).words[1])
               = [k \in DOMAIN files |-> files[k].name]
<1> DEFINE w == Len(files)
           names == [k \in DOMAIN files |-> files[k].name]
           piece == [k \in DOMAIN files |->
                        Text(FormatS \o (IF k < Len(files) THEN <<Space, Space>> ELSE <<Newline>>),
                             <<files[k].name>>)]
           sp == <<Space>>
           nl == <<Newline>>
<1>1. w \in Nat /\ DOMAIN files = 1..w
  BY DEF FilesOK
<1>2. \A k \in 1..w : Field(names[k]) /\ names[k] = files[k].name
  BY <1>1 DEF FilesOK, FileOK
<1>3. PrintFiles(files) = FlattenSeq(piece)
  BY DEF PrintFiles
<1>4. \A k \in 1..w : piece[k] = IF k < w THEN Cat(Cat(names[k], sp), sp) ELSE Cat(names[k], nl)
  <2>1. ASSUME NEW k \in 1..w
        PROVE  piece[k] = IF k < w THEN Cat(Cat(names[k], sp), sp) ELSE Cat(names[k], nl)
    <3> DEFINE s == files[k].name
    <3>1. s \in Seq(Nat) /\ s = names[k]
      BY <1>2 DEF Field
    <3>2. /\ Text(FormatS \o <<Space, Space>>, <<s>>) = Cat(Cat(s, sp), sp)
          /\ Text(FormatS \o nl, <<s>>) = Cat(s, nl)
      BY <3>1, NamesPrinted
    <3>3. piece[k] = Text(FormatS \o (IF k < w THEN <<Space, Space>> ELSE nl), <<s>>)
      BY <1>1
    <3> HIDE DEF s, piece, w, names, sp, nl
    <3>4. CASE k < w
      BY <3>1, <3>2, <3>3, <3>4
    <3>5. CASE ~ (k < w)
      BY <3>1, <3>2, <3>3, <3>5
    <3>6. QED
      BY <3>4, <3>5
  <2>2. QED
    BY <2>1
<1>5. piece = [k \in 1..w |-> piece[k]] /\ names = [k \in 1..w |-> names[k]]
  BY <1>1
<1>6. IsText(sp) /\ IsText(nl)
  BY DEF IsText, Space, Newline
<1> HIDE DEF w, names, piece
<1>7. \A k \in 1..w : IsText(names[k])
  BY <1>2 DEF Field, IsText
<1>8. piece \in Seq(Seq(Nat)) /\ Len(piece) = w
  <2>1. ASSUME NEW k \in 1..w PROVE piece[k] \in Seq(Nat)
    <3>1. IsText(Cat(Cat(names[k], sp), sp)) /\ IsText(Cat(names[k], nl))
      <4> HIDE DEF sp, nl
      <4> QED
        BY <1>6, <1>7, CatTyped
    <3>2. QED
      BY <1>4, <3>1 DEF IsText
  <2>2. QED
    BY <1>1, <1>5, <2>1
<1>9. PICK F : Flattens(F, piece, Nat)
  BY <1>8, Flattened
<1>10. /\ F[0] = <<>> /\ F[w] = FlattenSeq(piece) /\ (\A x \in 0..w : F[x] \in Seq(Nat))
       /\ \A x \in 1..w : F[x] = F[x - 1] \o piece[x]
  BY <1>8, <1>9 DEF Flattens
<1>11. w # 0
  <2>1. SUFFICES ASSUME w = 0 PROVE FALSE
    OBVIOUS
  <2>2. QED
    BY <1>3, <1>10, <2>1
<1> DEFINE v == w - 1
           D == 0..v
           P == {k \in D : Row(F[k], FirstOf(names, k)) /\ Ended(F[k], Space)}
<1>12. v \in Nat /\ v + 1 = w /\ \A k \in D : k \in 0..w /\ k < w
  BY <1>1, <1>11
<1> HIDE DEF v
<1>13. D = P
  <2>1. ASSUME NEW k \in D, \A l \in D : l < k => l \in P PROVE k \in P
    <3>1. CASE k = 0
      <4>1. FirstOf(names, 0) = <<>>
        BY DEF FirstOf
      <4>2. QED
        BY <1>10, <3>1, <4>1, RowNothing
    <3>2. CASE k # 0
      <4> DEFINE y == k - 1
      <4>1. y \in D /\ y < k /\ y \in Nat /\ y + 1 = k /\ k \in 1..w /\ k < w
        BY <1>12, <3>2
      <4>2. F[k] = F[y] \o piece[k]
        BY <1>10, <4>1
      <4> HIDE DEF y
      <4>3. Row(F[y], FirstOf(names, y)) /\ Ended(F[y], Space)
        BY <2>1, <4>1
      <4>4. F[k] = Cat(F[y], Cat(Cat(names[k], sp), sp))
        BY <1>4, <4>1, <4>2 DEF Cat
      <4> DEFINE t1 == Cat(F[y], names[k])
                 t2 == Cat(t1, sp)
                 t3 == Cat(t2, sp)
      <4>5. Row(Cat(F[y], names[y + 1]), FirstOf(names, y + 1))
        <5>1. Field(names[y + 1])
          BY <1>2, <4>1
        <5>2. QED
          BY <4>1, <4>3, <5>1, RowColumn
      <4>6. Row(t1, FirstOf(names, k))
        BY <4>1, <4>5
      <4> HIDE DEF t1
      <4>7. Row(t2, FirstOf(names, k))
        BY <4>6, RowOn
      <4> HIDE DEF t2
      <4>8. Row(t3, FirstOf(names, k)) /\ Ended(t3, Space)
        BY <4>7, RowOn
      <4>9. F[k] = t3
        <5>1. IsText(F[y]) /\ IsText(names[k])
          BY <1>7, <4>1, <4>3, RowOn
        <5> HIDE DEF sp
        <5> DEFINE m == Cat(names[k], sp)
        <5>2. IsText(m) /\ Cat(Cat(F[y], names[k]), sp) = Cat(F[y], m)
          BY <1>6, <5>1, CatTyped, CatRegroup
        <5> HIDE DEF m
        <5>3. Cat(Cat(F[y], m), sp) = Cat(F[y], Cat(m, sp))
          BY <1>6, <5>1, <5>2, CatRegroup
        <5>4. QED
          BY <4>4, <5>2, <5>3 DEF t1, t2, m
      <4> HIDE DEF t3
      <4>10. QED
        BY <4>8, <4>9
    <3>3. QED
      BY <3>1, <3>2
  <2>2. D \in SUBSET Nat /\ P \in SUBSET D
    BY <1>12
  <2> HIDE DEF D, P
  <2>3. QED
    BY <2>1, <2>2, Induction
<1>14. v \in D
  BY <1>12
<1>15. Row(F[v], FirstOf(names, v)) /\ Ended(F[v], Space)
  BY <1>13, <1>14
<1> HIDE DEF D, P
<1> DEFINE text == Cat(F[v], names[w])
<1>16. Row(text, FirstOf(names, w))
  <2>1. Row(Cat(F[v], names[v + 1]), FirstOf(names, v + 1))
    <3>1. v + 1 \in 1..w
      BY <1>1, <1>12
    <3>2. Field(names[v + 1])
      BY <1>2, <3>1
    <3>3. QED
      BY <1>12, <1>15, <3>2, RowColumn
  <2>2. QED
    BY <1>12, <2>1
<1>17. F[w] = Cat(text, nl)
  <2>1. w \in 1..w /\ ~ (w < w) /\ w - 1 = v
    BY <1>1, <1>11, <1>12
  <2>2. F[w] = Cat(F[v], Cat(names[w], nl))
    BY <1>4, <1>10, <2>1 DEF Cat
  <2>3. IsText(F[v]) /\ IsText(names[w])
    BY <1>7, <1>15, <2>1, RowOn
  <2> HIDE DEF nl
  <2>4. QED
    BY <1>6, <2>2, <2>3, CatRegroup
<1> HIDE DEF text
<1>18. FirstOf(names, w) # <<>>
  BY <1>1, <1>11, FirstOfSome
<1>19. OneLine(text)
  BY <1>16, <1>18, RowNotEmpty, RowIsLine
<1>20. HasWords(F[w], Newline, Append(<<>>, text))
  <2>1. Lines(<<>>, <<>>)
    BY NoWords DEF Lines, Ended
  <2>2. Lines(Cat(<<>>, Cat(text, nl)), Append(<<>>, text))
    BY <1>19, <2>1, LineAdded
  <2>3. F[w] \in Seq(Nat)
    BY <1>1, <1>10
  <2> DEFINE whole == F[w]
  <2> HIDE DEF whole
  <2>4. Cat(<<>>, whole) = whole
    BY <2>3, NothingBefore DEF Cat, whole
  <2>5. QED
    BY <1>17, <2>2, <2>4 DEF Lines, whole
<1>21. Append(<<>>, text)[1] = text
  <2>1. text \in Seq(Nat) /\ <<>> \in Seq(Seq(Nat)) /\ Len(<<>>) = 0
    BY <1>19 DEF OneLine
  <2>2. Append(<<>>, text)[Len(<<>>) + 1] = text
    BY <2>1, AppendAt
  <2>3. Len(<<>>) + 1 = 1
    OBVIOUS
  <2>4. QED
    BY <2>2, <2>3
<1>22. Split(PrintFiles(files), Newline, None).words[1] = text
  BY <1>3, <1>10, <1>20, <1>21, SplitGives
<1>23. Fields(text) = FirstOf(names, w)
  BY <1>16, SplitGives DEF Row, Fields
<1>24. FirstOf(names, w) = names
  BY <1>5 DEF FirstOf
<1>25. QED
  BY <1>22, <1>23, <1>24 DEF names

\* What is printed for files, with -l and without, tells them.
THEOREM ListingsReadBack ==
    ASSUME NEW files, FilesOK(files), GetTotalBlocks(files) <= LongMax
    PROVE  ListingReadsBack([long |-> HandleLongFormat(files), short |-> PrintFiles(files)], files)
<1> DEFINE r == [long |-> HandleLongFormat(files), short |-> PrintFiles(files)]
<1>1. r.long = HandleLongFormat(files) /\ r.short = PrintFiles(files)
  OBVIOUS
<1>2. LongPart(r.long, files)
  BY <1>1, LongReadsBack
<1>3. r.short # <<>> =>
        Fields(Split(r.short, Newline, None).words[1]) = [k \in DOMAIN files |-> files[k].name]
  BY <1>1, ShortReadsBack
<1> HIDE DEF r
<1>4. ListingReadsBack(r, files)
  BY <1>2, <1>3, Zenon DEF ListingReadsBack, LongPart, Nameless, Whole
<1>5. QED
  BY <1>4 DEF r

----------------------------------------------------------------------------
(* Listings: the files of the tasks. *)

\* The dates of the files that are listed.
LEMMA DatesAreOK == ASSUME NEW day \in {Ninth, Fifteenth} PROVE TimeOK(Mtime(day))
<1> DEFINE time == Mtime(day)
<1>1. /\ time.weekday = <<84, 104, 117>> /\ time.month = <<74, 97, 110>> /\ time.day = day
      /\ time.clock = <<48, 53, 58, 51, 48>> /\ time.second = <<58, 48, 55>>
      /\ time.year = <<49, 57, 55, 48>>
  BY DEF Mtime
<1> HIDE DEF time
<1>2. time.weekday \in Seq(Nat) /\ Len(time.weekday) = 3 /\ time.second \in Seq(Nat) /\ time.year \in Seq(Nat)
  BY <1>1
<1>3. Field(time.month) /\ Len(time.month) = 3
  <2> DEFINE s == <<74, 97, 110>>
  <2>1. s \in Seq(Nat) /\ Len(s) = 3 /\ s[1] = 74 /\ s[2] = 97 /\ s[3] = 110
    OBVIOUS
  <2> HIDE DEF s
  <2>2. s # <<>> /\ \A l \in 1..Len(s) : s[l] # 32 /\ s[l] # 10
    <3>1. \A l \in 1..Len(s) : l = 1 \/ l = 2 \/ l = 3
      BY <2>1
    <3>2. s # <<>>
      <4>1. SUFFICES ASSUME s = <<>> PROVE FALSE
        OBVIOUS
      <4>2. QED
        BY <2>1, <4>1
    <3>3. QED
      BY <2>1, <3>1, <3>2
  <2>3. time.month = s
    BY <1>1 DEF s
  <2>4. QED
    BY <2>1, <2>2, <2>3 DEF Field, Space, Newline
<1>4. Field(time.clock) /\ Len(time.clock) = 5
  <2> DEFINE s == <<48, 53, 58, 51, 48>>
  <2>1. /\ s \in Seq(Nat) /\ Len(s) = 5
        /\ s[1] = 48 /\ s[2] = 53 /\ s[3] = 58 /\ s[4] = 51 /\ s[5] = 48
    OBVIOUS
  <2> HIDE DEF s
  <2>2. s # <<>> /\ \A l \in 1..Len(s) : s[l] # 32 /\ s[l] # 10
    <3>1. \A l \in 1..Len(s) : l = 1 \/ l = 2 \/ l = 3 \/ l = 4 \/ l = 5
      BY <2>1
    <3>2. s # <<>>
      <4>1. SUFFICES ASSUME s = <<>> PROVE FALSE
        OBVIOUS
      <4>2. QED
        BY <2>1, <4>1
    <3>3. QED
      BY <2>1, <3>1, <3>2
  <2>3. time.clock = s
    BY <1>1 DEF s
  <2>4. QED
    BY <2>1, <2>2, <2>3 DEF Field, Space, Newline
<1>5. time.day \in Seq(Nat) /\ Len(time.day) = 2 /\ Field(DayField(time.day))
  <2>1. CASE day = Ninth
    <3>1. time.day = <<32, 57>>
      BY <1>1, <2>1 DEF Ninth, Space
    <3>2. <<32, 57>> \in Seq(Nat) /\ Len(<<32, 57>>) = 2 /\ Head(<<32, 57>>) = 32 /\ Tail(<<32, 57>>) = <<57>>
      OBVIOUS
    <3>3. DayField(time.day) = <<57>>
      BY <3>1, <3>2 DEF DayField, Space
    <3>4. Field(<<57>>)
      BY DEF Field, Space, Newline
    <3>5. QED
      BY <3>1, <3>2, <3>3, <3>4
  <2>2. CASE day = Fifteenth
    <3>1. time.day = <<49, 53>>
      BY <1>1, <2>2 DEF Fifteenth
    <3>2. <<49, 53>> \in Seq(Nat) /\ Len(<<49, 53>>) = 2 /\ Head(<<49, 53>>) = 49
      OBVIOUS
    <3>3. DayField(time.day) = <<49, 53>>
      BY <3>1, <3>2 DEF DayField, Space
    <3>4. Field(<<49, 53>>)
      BY DEF Field, Space, Newline
    <3>5. QED
      BY <3>1, <3>2, <3>3, <3>4
  <2>3. QED
    BY <2>1, <2>2
<1>6. TimeOK(time)
  BY <1>2, <1>3, <1>4, <1>5 DEF TimeOK
<1>7. QED
  BY <1>6 DEF time

\* A long holds the blocks of two files.
LEMMA LongHoldsBlocks == 16 <= LongMax /\ LongMax \in Nat
<1>1. PICK h, m, top, times : WidthsAre(h, m, top, times)
  BY Widths
<1>2. QED
  BY <1>1 DEF WidthsAre

(* What File is given. *)
FileGiven(mode, nlink, owner, group, size, day, target) ==
    /\ ModeOK(mode) /\ nlink \in 0..IntMax /\ size \in 0..9 /\ day \in {Ninth, Fifteenth}
    /\ owner = NullString \/ Field(owner)
    /\ group = NullString \/ Field(group)
    /\ target = NullString \/ Field(target)

\* A file of the tasks can be listed, and has no more than sixteen blocks.
LEMMA FileIsOK ==
    ASSUME NEW mode, NEW nlink, NEW owner, NEW group, NEW size, NEW day, NEW target,
           FileGiven(mode, nlink, owner, group, size, day, target)
    PROVE  LET file == File(mode, nlink, owner, group, size, day, target)
           IN  FileOK(file) /\ file.blocks \in 0..16
<1> DEFINE file == File(mode, nlink, owner, group, size, day, target)
           blocks == 8 * ((size + 7) \div 8)
<1>1. /\ file.mode = mode /\ file.nlink = nlink /\ file.owner = owner /\ file.group = group
      /\ file.size = size /\ file.blocks = blocks /\ file.mtime = Mtime(day)
      /\ file.name = <<102>> /\ file.target = target
  BY DEF File
<1>2. blocks \in 0..16 /\ blocks \in Nat /\ blocks % 2 = 0
  <2>1. size \in {0, 1, 2, 3, 4, 5, 6, 7, 8, 9}
    BY DEF FileGiven
  <2>2. (size + 7) \div 8 \in {0, 1, 2}
    BY <2>1
  <2>3. blocks \in {0, 8, 16}
    BY <2>2
  <2> HIDE DEF blocks
  <2>4. QED
    BY <2>3
<1>3. size \in 0..LongMax
  BY LongHoldsBlocks DEF FileGiven
<1>4. TimeOK(Mtime(day))
  BY DatesAreOK DEF FileGiven
<1>5. Field(<<102>>)
  BY DEF Field, Space, Newline
<1> HIDE DEF file, blocks
<1>6. FileOK(file)
  BY <1>1, <1>2, <1>3, <1>4, <1>5 DEF FileOK, FileGiven
<1>7. file.blocks \in 0..16
  BY <1>1, <1>2
<1>8. QED
  BY <1>6, <1>7 DEF file

\* The letters that owners, groups and targets are named by.
LEMMA NamesAreFields == Field(<<97>>) /\ Field(<<98>>) /\ Field(<<103>>)
<1>1. <<97>> \in Seq(Nat) /\ <<98>> \in Seq(Nat) /\ <<103>> \in Seq(Nat)
  OBVIOUS
<1>2. <<97>> # <<>> /\ <<98>> # <<>> /\ <<103>> # <<>>
  OBVIOUS
<1>3. QED
  BY <1>1, <1>2 DEF Field, Space, Newline

\* The files of the tasks.
LEMMA FilesAreOK ==
    /\ \A file \in Files : FileOK(file) /\ file.blocks \in 0..16
    /\ \A mode \in Modes : FileOK(Plainly(mode)) /\ Plainly(mode).blocks \in 0..16
<1>1. LET file == File([type |-> "file", bits |-> {1}], 1, <<97>>, NullString, 1, Ninth, NullString)
      IN  FileOK(file) /\ file.blocks \in 0..16
  <2> DEFINE mode == [type |-> "file", bits |-> {1}]
  <2>1. ModeOK(mode)
    BY DEF ModeOK
  <2> HIDE DEF mode
  <2>2. 1 \in 0..IntMax /\ 1 \in 0..9
    BY LargestNumbers
  <2>3. FileGiven(mode, 1, <<97>>, NullString, 1, Ninth, NullString)
    BY <2>1, <2>2, NamesAreFields DEF FileGiven
  <2>4. QED
    BY <2>3, FileIsOK DEF mode
<1>2. ASSUME NEW mode \in Modes
      PROVE  FileOK(Plainly(mode)) /\ Plainly(mode).blocks \in 0..16
  <2>1. ModeOK(mode)
    BY DEF ModeOK, Modes
  <2>2. 1 \in 0..IntMax /\ 5 \in 0..9
    BY LargestNumbers
  <2>3. FileGiven(mode, 1, <<97>>, <<98>>, 5, Fifteenth, <<103>>)
    BY <2>1, <2>2, NamesAreFields DEF FileGiven
  <2>4. QED
    BY <2>3, FileIsOK DEF Plainly
<1>3. ASSUME NEW file \in Files
      PROVE  FileOK(file) /\ file.blocks \in 0..16
  <2> DEFINE A == {File([type |-> type, bits |-> {1, 2, 4}], nlink, owner, <<98>>, size, Ninth, target) :
                      type \in {"file", "link"}, nlink \in {1, IntMax},
                      owner \in {<<97>>, NullString}, size \in {0, 9},
                      target \in {<<103>>, NullString}}
             x == File([type |-> "file", bits |-> {1}], 1, <<97>>, NullString, 1, Ninth, NullString)
  <2>1. file \in A \/ file = x
    <3>1. Files = A \cup {x}
      BY DEF Files
    <3> HIDE DEF A, x
    <3>2. QED
      BY <3>1
  <2>2. CASE file = x
    BY <1>1, <2>2
  <2>3. CASE file \in A
    <3>1. PICK type \in {"file", "link"}, nlink \in {1, IntMax}, owner \in {<<97>>, NullString},
               size \in {0, 9}, target \in {<<103>>, NullString} :
             file = File([type |-> type, bits |-> {1, 2, 4}], nlink, owner, <<98>>, size, Ninth, target)
      BY <2>3
    <3> DEFINE y == File([type |-> type, bits |-> {1, 2, 4}], nlink, owner, <<98>>, size, Ninth, target)
    <3>2. FileOK(y) /\ y.blocks \in 0..16
      <4> DEFINE mode == [type |-> type, bits |-> {1, 2, 4}]
      <4>1. ModeOK(mode)
        BY DEF ModeOK
      <4> HIDE DEF mode
      <4>2. nlink \in 0..IntMax
        BY LargestNumbers
      <4>3. size \in 0..9
        OBVIOUS
      <4>4. FileGiven(mode, nlink, owner, <<98>>, size, Ninth, target)
        BY <4>1, <4>2, <4>3, NamesAreFields DEF FileGiven
      <4>5. QED
        BY <4>4, FileIsOK DEF mode
    <3>3. file = y
      BY <3>1
    <3> HIDE DEF y
    <3>4. QED
      BY <3>2, <3>3
  <2>4. QED
    BY <2>1, <2>2, <2>3
<1>4. QED
  BY <1>2, <1>3

\* The files of a task can be listed, and their blocks fit in a long.
LEMMA ListingsAreOK ==
    ASSUME NEW listing \in LongTasks
    PROVE  FilesOK(listing.files) /\ GetTotalBlocks(listing.files) <= LongMax
<1> DEFINE files == listing.files
           w == Len(files)
           blocks == [k \in DOMAIN files |-> files[k].blocks]
<1>1. files \in {<<Plainly(m)>> : m \in Modes} \cup Strings(Files, MaxLine - 1)
  BY DEF LongTasks
<1> HIDE DEF files
<1>2. /\ \E S : files \in Seq(S)
      /\ w \in Nat /\ 16 * w <= LongMax
      /\ \A k \in 1..w : FileOK(files[k]) /\ files[k].blocks \in 0..16
  <2>1. CASE files \in {<<Plainly(m)>> : m \in Modes}
    <3>1. PICK m \in Modes : files = <<Plainly(m)>>
      BY <2>1
    <3> DEFINE x == Plainly(m)
    <3>2. FileOK(x) /\ x.blocks \in 0..16
      BY FilesAreOK
    <3>3. files = <<x>>
      BY <3>1
    <3> HIDE DEF x
    <3>4. files \in Seq({x}) /\ Len(files) = 1 /\ files[1] = x
      BY <3>3
    <3>5. QED
      BY <3>2, <3>4, LongHoldsBlocks
  <2>2. CASE files \in Strings(Files, MaxLine - 1)
    <3> DEFINE max == MaxLine - 1
    <3>1. max \in Nat
      <4>1. PICK k \in 0..MaxLine - 1 : files \in [1..k -> Files]
        BY <2>2 DEF Strings
      <4>2. QED
        BY <4>1, LengthsAssumption
    <3> HIDE DEF max
    <3>2. files \in Seq(Files) /\ w \in 0..max
      BY <2>2, <3>1, StringsAreSequences DEF max
    <3>3. w \in Nat /\ 16 * w <= LongMax
      BY <3>1, <3>2, TotalAssumption, LengthsAssumption, LongHoldsBlocks DEF max
    <3>4. \A k \in 1..w : files[k] \in Files
      BY <3>2
    <3>5. QED
      BY <3>2, <3>3, <3>4, FilesAreOK
  <2>3. QED
    BY <1>1, <2>1, <2>2
<1>3. FilesOK(files)
  BY <1>2 DEF FilesOK
<1>4. GetTotalBlocks(files) \in 0..16 * w
  <2>1. DOMAIN files = 1..w /\ DOMAIN blocks = 1..w
    BY <1>2
  <2>2. \A k \in 1..w : blocks[k] \in 0..16
    BY <1>2, <2>1
  <2>3. GetTotalBlocks(files) = SumFunctionOnSet(blocks, DOMAIN blocks)
    BY DEF GetTotalBlocks, SumFunction
  <2> HIDE DEF blocks, w
  <2>4. SumFunctionOnSet(blocks, 1..w) \in 0..16 * w
    BY <1>2, <2>2, SumBounded
  <2>5. QED
    BY <2>1, <2>3, <2>4
<1> HIDE DEF w
<1>5. GetTotalBlocks(files) <= LongMax
  BY <1>2, <1>4, LongHoldsBlocks
<1>6. QED
  BY <1>3, <1>5 DEF files

\* The listings.
LEMMA CallLongMatches == ASSUME TaskOK, CallLong PROVE LongLineReadsBack'
<1> DEFINE files == task.files
           r == [long |-> HandleLongFormat(files), short |-> PrintFiles(files)]
<1>1. task.kind = "long" /\ task' = task /\ result' = <<r>>
  BY DEF CallLong, Gives
<1>2. task \in LongTasks
  BY <1>1, KindTells DEF TaskOfKind
<1>3. FilesOK(files) /\ GetTotalBlocks(files) <= LongMax
  BY <1>2, ListingsAreOK
<1>4. result'[1] = r /\ task'.files = files
  BY <1>1
<1> HIDE DEF files
<1>5. ListingReadsBack(r, files)
  BY <1>3, ListingsReadBack
<1> HIDE DEF r
<1>6. ListingReadsBack(result'[1], task'.files)
  BY <1>4, <1>5
<1>7. QED
  BY <1>6 DEF LongLineReadsBack

(* The tasks never change: with what they are, LongLineReadsBack is inductive. *)
LongInv == TaskOK /\ LongLineReadsBack

\* It holds before any call.
LEMMA LongInitInv == MCInit => LongInv
<1> SUFFICES ASSUME MCInit PROVE LongInv
  OBVIOUS
<1>1. TaskOK
  BY DEF MCInit, TaskOK
<1>2. ~ Result("long")
  BY DEF MCInit, Result
<1>3. QED
  BY <1>1, <1>2 DEF LongInv, LongLineReadsBack

\* A call that lists nothing leaves it nothing to answer for.
LEMMA GivesNoListing ==
    ASSUME NEW kind, NEW value, Gives(kind, value), TaskOK, kind # "long" PROVE LongInv'
<1>1. task' = task /\ task.kind = kind
  BY DEF Gives
<1>2. TaskOK'
  BY <1>1 DEF TaskOK, NumberTasks, AtoiTasks, PrintfTasks, SearchTasks, SubStrTasks, TrimTasks, SplitTasks, MapTasks, LongTasks
<1>3. ~ Result("long")'
  BY <1>1 DEF Result
<1>4. QED
  BY <1>2, <1>3 DEF LongInv, LongLineReadsBack

\* Every call keeps it.
LEMMA LongNextInv == LongInv /\ [MCNext]_vars => LongInv'
<1> SUFFICES ASSUME LongInv, [MCNext]_vars PROVE LongInv'
  OBVIOUS
<1>0. TaskOK /\ LongLineReadsBack
  BY DEF LongInv
<1>1. CASE UNCHANGED <<task, result>>
  <2>1. task' = task /\ result' = result
    BY <1>1
  <2>2. TaskOK'
    BY <1>0, <2>1 DEF TaskOK, NumberTasks, AtoiTasks, PrintfTasks, SearchTasks, SubStrTasks, TrimTasks, SplitTasks, MapTasks, LongTasks
  <2>3. LongLineReadsBack'
    BY <1>0, <2>1, Zenon DEF LongLineReadsBack, Result
  <2>4. QED
    BY <2>2, <2>3 DEF LongInv
<1>2. CASE CallLong
  <2>1. LongLineReadsBack'
    BY <1>0, <1>2, CallLongMatches
  <2>2. task' = task
    BY <1>2 DEF CallLong, Gives
  <2>3. TaskOK'
    BY <1>0, <2>2 DEF TaskOK, NumberTasks, AtoiTasks, PrintfTasks, SearchTasks, SubStrTasks, TrimTasks, SplitTasks, MapTasks, LongTasks
  <2>4. QED
    BY <2>1, <2>3 DEF LongInv
<1>3. CASE CallNumber
  BY <1>0, <1>3, GivesNoListing DEF CallNumber
<1>4. CASE CallAtoi
  BY <1>0, <1>4, GivesNoListing DEF CallAtoi
<1>5. CASE CallPrintf
  BY <1>0, <1>5, GivesNoListing DEF CallPrintf
<1>6. CASE CallSearch
  BY <1>0, <1>6, GivesNoListing DEF CallSearch
<1>7. CASE CallSubStr
  BY <1>0, <1>7, GivesNoListing DEF CallSubStr
<1>8. CASE CallTrim
  BY <1>0, <1>8, GivesNoListing DEF CallTrim
<1>9. CASE CallSplit
  BY <1>0, <1>9, GivesNoListing DEF CallSplit
<1>10. CASE CallMap
  BY <1>0, <1>10, GivesNoListing DEF CallMap
<1>11. QED
  BY <1>1, <1>2, <1>3, <1>4, <1>5, <1>6, <1>7, <1>8, <1>9, <1>10 DEF MCNext, Memory, vars

\* What ft_ls prints for a list of files tells them, for every width of int and long, every
\* list and every mode.
THEOREM LongLinesReadBack == MCSpec => []LongLineReadsBack
<1>1. MCSpec => []LongInv
  BY LongInitInv, LongNextInv, PTL DEF MCSpec
<1>2. LongInv => LongLineReadsBack
  BY DEF LongInv
<1>3. QED
  BY <1>1, <1>2, PTL

----------------------------------------------------------------------------
(* Memory. *)

(* Where a call can be. *)
Labels == {"ready", "loop", "strlen", "scan_dst", "scan_src", "append", "returned"}

(* Memory, arguments and counters keep to their sets. *)
MemTypeOK ==
    /\ mem \in [Cells -> Bytes] /\ start \in [Cells -> Bytes]
    /\ pc \in Labels /\ fn \in Functions \cup {"none"}
    /\ dst \in Cells \cup {Null} /\ src \in Cells \cup {Null}
    /\ n \in 0..Size /\ c \in Bytes /\ i \in Nat /\ j \in Nat /\ ret \in Int

\* Every call under way is legal, and in a loop the pointers are not NULL.
CallInv ==
    /\ pc = "ready" => mem = start /\ fn = "none" /\ i = 0 /\ j = 0 /\ ret = Null
    /\ pc # "ready" => fn \in Functions /\ Legal(start, fn, dst, src, n)
    /\ fn # "none" /\ pc # "returned" => dst \in Cells
    /\ fn \in {"ft_memcpy", "ft_memmove"} /\ pc # "returned" => src \in Cells
    /\ fn \in {"ft_memset", "ft_bzero", "ft_memcpy", "ft_memmove"} => pc \in {"loop", "returned"}
    /\ fn = "ft_strlcpy" => pc \in {"loop", "strlen", "returned"} /\ src \in Cells
    /\ fn = "ft_strlcat" =>
          pc \in {"scan_dst", "scan_src", "append", "returned"} /\ src \in Cells
    /\ fn = "ft_bzero" => c = 0

\* The first size cells of the destination are filled.
FillInv ==
    fn \in {"ft_memset", "ft_bzero"} /\ pc = "loop" =>
        i <= n /\ \A x \in Cells : mem[x] = IF dst <= x /\ x < dst + i THEN c ELSE start[x]

\* The cells of the destination that have been written lie where no later step reads.
CopyInv ==
    fn \in {"ft_memcpy", "ft_memmove"} /\ pc = "loop" =>
        /\ i <= n
        /\ \A x \in Cells : mem[x] =
              IF Downwards(fn, dst, src)
              THEN IF dst + i <= x /\ x < dst + n THEN start[src + (x - dst)] ELSE start[x]
              ELSE IF dst <= x /\ x < dst + i THEN start[src + (x - dst)] ELSE start[x]

\* No NUL among the first k bytes of the string that was at p.
NoNulBefore(p, k) == \A m \in 0..k - 1 : start[p + m] # 0

\* ft_strlcpy has copied i bytes and no NUL, or has ended the copy and counts on.
StrLCpyInv ==
    fn = "ft_strlcpy" =>
        /\ pc = "loop" =>
              /\ i = 0 \/ i < n
              /\ j = 0
              /\ NoNulBefore(src, i)
              /\ \A x \in Cells : mem[x] =
                    IF dst <= x /\ x < dst + i THEN start[src + (x - dst)] ELSE start[x]
        /\ pc = "strlen" =>
              /\ NoNulBefore(src, j) /\ NoNulBefore(src, i)
              /\ n = 0 => mem = start
              /\ n > 0 =>
                  /\ i < n
                  /\ i + 1 = n \/ start[src + i] = 0
                  /\ \A x \in Cells : mem[x] =
                        IF dst <= x /\ x < dst + i THEN start[src + (x - dst)]
                        ELSE IF x = dst + i THEN 0 ELSE start[x]

\* The string at dst was d bytes long, the one at src l bytes, and j bytes have been
\* appended.
Appended(d, l) ==
    /\ WasLength(dst, d) /\ WasLength(src, l)
    /\ ret = d + l /\ i = d + j /\ j <= l
    /\ j = 0 \/ i < n
    /\ \A x \in Cells : mem[x] =
          IF dst + d <= x /\ x < dst + i THEN start[src + (x - dst - d)] ELSE start[x]

\* ft_strlcat writes nothing before it knows both lengths, and then after the destination.
StrLCatInv ==
    fn = "ft_strlcat" =>
        /\ pc = "scan_dst" => mem = start /\ NoNulBefore(dst, i) /\ j = 0
        /\ pc = "scan_src" => mem = start /\ WasLength(dst, i) /\ NoNulBefore(src, j)
        /\ pc = "append" => \E d, l \in Nat : Appended(d, l)

(* The invariant: together the parts above are inductive, and WritesAsPromised follows. *)
MemInv ==
    /\ MemTypeOK /\ CallInv /\ FillInv /\ CopyInv /\ StrLCpyInv /\ StrLCatInv
    /\ WritesAsPromised

USE SizeAssumption, BytesAssumption

\* A string has one length.
LEMMA OneLength ==
    ASSUME NEW p \in Cells, NEW k \in Nat, NEW l \in Nat,
           WasLength(p, k), WasLength(p, l)
    PROVE  k = l
<1>1. CASE k < l
  BY <1>1 DEF WasLength
<1>2. CASE l < k
  BY <1>2 DEF WasLength
<1> QED  BY <1>1, <1>2

\* While no NUL was found, the string goes on within the memory.
LEMMA StringGoesOn ==
    ASSUME NEW p \in Cells, NEW k \in Nat, NEW l \in Nat,
           EndsAt(start, p, l), NoNulBefore(p, k)
    PROVE  k <= l /\ p + k \in Cells
<1>1. k <= l
  BY DEF EndsAt, NoNulBefore
<1> QED  BY <1>1 DEF EndsAt, Cells

\* One more byte of the string is not NUL.
LEMMA OneMore ==
    ASSUME NEW p \in Cells, NEW k \in Nat, NoNulBefore(p, k), start[p + k] # 0
    PROVE  NoNulBefore(p, k + 1)
BY DEF NoNulBefore

\* The NUL is found: that was the length.
LEMMA EndFound ==
    ASSUME NEW p \in Cells, NEW k \in Nat, NoNulBefore(p, k), p + k \in Cells, start[p + k] = 0
    PROVE  WasLength(p, k)
BY DEF NoNulBefore, WasLength

\* What Store does to the memory.
LEMMA Stored ==
    ASSUME MemTypeOK, NEW k \in Int, dst + k \in Cells, NEW b \in Bytes, Store(k, b)
    PROVE  /\ mem' \in [Cells -> Bytes]
           /\ \A x \in Cells : mem'[x] = IF x = dst + k THEN b ELSE mem[x]
BY DEF MemTypeOK, Store

\* It holds before any call.
LEMMA MemInitInv == MemInit => MemInv
BY DEF MemInit, MemInv, MemTypeOK, CallInv, FillInv, CopyInv, StrLCpyInv, StrLCatInv,
       WritesAsPromised, Labels, Functions, Null

\* A legal call may be made.
LEMMA CallKeepsInv ==
    ASSUME MemInv, Call
    PROVE  MemInv'
<1>1. PICK f \in Functions, d \in Cells \cup {Null}, s \in Cells \cup {Null}, size \in 0..Size,
           b \in Bytes :
         /\ Legal(mem, f, d, s, size)
         /\ f # "ft_memset" => b = 0
         /\ fn' = f /\ dst' = d /\ src' = s /\ n' = size /\ c' = b
         /\ i' = IF Downwards(f, d, s) THEN size ELSE 0
         /\ IF f \in {"ft_memcpy", "ft_memmove"} /\ BothNull(d, s)
            THEN pc' = "returned"
            ELSE pc' = Entry(f)
  BY DEF Call
<1>2. start' = mem /\ mem' = mem /\ j' = 0 /\ ret' = Null
  BY DEF Call, MemInv, CallInv
<1>3. MemTypeOK'
  BY <1>1, <1>2 DEF MemInv, MemTypeOK, Entry, Labels, Null
<1>4. Legal(start', fn', dst', src', n')
  BY <1>1, <1>2
<1>5. CallInv'
  BY <1>1, <1>2, <1>4 DEF CallInv, Legal, Functions, BothNull, Inside, Entry, Null, Cells
<1>6. NoNulBefore(dst, 0)' /\ NoNulBefore(src, 0)'
  BY DEF NoNulBefore
<1>7. FillInv' /\ CopyInv'
  BY <1>1, <1>2, <1>3 DEF FillInv, CopyInv, Downwards, MemTypeOK, Cells, Null
<1>8. ASSUME fn' = "ft_strlcpy" PROVE StrLCpyInv'
  <2>1. pc' = "loop" /\ i' = 0 /\ dst' \in Cells
    BY <1>1, <1>5, <1>8 DEF Downwards, Entry, CallInv
  <2>2. NoNulBefore(src, i)'
    BY <1>6, <2>1
  <2>3. \A x \in Cells : ~(d <= x /\ x < d + 0)
    BY <1>1, <2>1 DEF Cells
  <2>4. \A x \in Cells : mem'[x] = start'[x]
    BY <1>2
  <2> QED
    BY <1>1, <1>2, <2>1, <2>2, <2>3, <2>4 DEF StrLCpyInv
<1>9. ASSUME fn' = "ft_strlcat" PROVE StrLCatInv'
  <2>1. pc' = "scan_dst" /\ i' = 0
    BY <1>1, <1>9 DEF Downwards, Entry
  <2>2. NoNulBefore(dst, i)'
    BY <1>6, <2>1
  <2> QED
    BY <1>2, <2>1, <2>2 DEF StrLCatInv
<1>10. ASSUME pc' = "returned" PROVE fn' \in {"ft_memcpy", "ft_memmove"} /\ dst' = Null
  BY <1>1, <1>10 DEF Entry, BothNull
<1>11. WritesAsPromised'
  BY <1>2, <1>10 DEF WritesAsPromised, FilledAsAsked, CopiedAsAsked, StringCopied, StringAppended
<1> QED
  BY <1>3, <1>5, <1>7, <1>8, <1>9, <1>11 DEF MemInv, StrLCpyInv, StrLCatInv

\* ft_memset and ft_bzero fill one byte after another.
LEMMA MemSetKeepsInv ==
    ASSUME MemInv, MemSet \/ Bzero
    PROVE  MemInv'
<1>1. fn \in {"ft_memset", "ft_bzero"} /\ pc = "loop" /\ UNCHANGED <<arguments, j>>
  BY DEF MemSet, Bzero, At
<1>2. /\ MemTypeOK /\ dst \in Cells /\ dst + n <= Size /\ i <= n
      /\ \A x \in Cells : mem[x] = IF dst <= x /\ x < dst + i THEN c ELSE start[x]
      /\ fn = "ft_bzero" => c = 0
  BY <1>1 DEF MemInv, CallInv, FillInv, Legal, Inside
<1>3. CASE i < n /\ Store(i, c) /\ i' = i + 1 /\ UNCHANGED <<pc, ret>>
  <2>1. dst + i \in Cells /\ c \in Bytes /\ i \in Int
    BY <1>2, <1>3 DEF Cells, MemTypeOK
  <2>2. /\ mem' \in [Cells -> Bytes]
        /\ \A x \in Cells : mem'[x] = IF x = dst + i THEN c ELSE mem[x]
    BY <1>2, <1>3, <2>1, Stored
  <2>3. MemTypeOK' /\ CallInv'
    BY <1>1, <1>2, <1>3, <2>2 DEF MemTypeOK, CallInv, MemInv, arguments
  <2>4. \A x \in Cells : mem'[x] = IF dst <= x /\ x < dst + (i + 1) THEN c ELSE start[x]
    BY <1>2, <2>1, <2>2 DEF Cells, MemTypeOK
  <2>5. FillInv'
    BY <1>1, <1>2, <1>3, <2>4 DEF FillInv, arguments, MemTypeOK
  <2> QED
    BY <1>1, <1>3, <2>3, <2>5
       DEF MemInv, CopyInv, StrLCpyInv, StrLCatInv, WritesAsPromised, arguments
<1>4. CASE i >= n /\ pc' = "returned" /\ ret' \in Int /\ UNCHANGED <<mem, i>>
  <2>1. MemTypeOK' /\ CallInv'
    BY <1>1, <1>2, <1>4 DEF MemTypeOK, CallInv, MemInv, arguments, Labels
  <2>2. \A x \in Cells : mem[x] = IF dst + 0 <= x /\ x < dst + 0 + n THEN c ELSE start[x]
    BY <1>2, <1>4 DEF MemTypeOK, Cells
  <2>3. WritesAsPromised'
    BY <1>1, <1>4, <2>2
       DEF WritesAsPromised, FilledAsAsked, Holds, CopiedAsAsked, StringCopied, StringAppended,
           arguments
  <2> QED
    BY <1>1, <1>4, <2>1, <2>3 DEF MemInv, FillInv, CopyInv, StrLCpyInv, StrLCatInv, arguments
<1> QED
  BY <1>1, <1>2, <1>3, <1>4 DEF MemSet, Bzero, Return, MemTypeOK, At, Null, Cells

\* ft_memcpy and ft_memmove read no byte they have overwritten.
LEMMA CopyKeepsInv ==
    ASSUME MemInv, MemCpy \/ MemMove
    PROVE  MemInv'
<1> DEFINE Moved(x) ==
      IF Downwards(fn, dst, src)
      THEN IF dst + i <= x /\ x < dst + n THEN start[src + (x - dst)] ELSE start[x]
      ELSE IF dst <= x /\ x < dst + i THEN start[src + (x - dst)] ELSE start[x]
<1>1. fn \in {"ft_memcpy", "ft_memmove"} /\ pc = "loop" /\ UNCHANGED <<arguments, j>>
  BY DEF MemCpy, MemMove, At
<1>2. /\ MemTypeOK /\ dst \in Cells /\ src \in Cells /\ i <= n
      /\ \A x \in Cells : mem[x] = Moved(x)
  BY <1>1 DEF MemInv, CallInv, CopyInv
<1>3. /\ dst + n <= Size /\ src + n <= Size
      /\ fn = "ft_memcpy" => dst + n <= src \/ src + n <= dst
  <2>1. ~BothNull(dst, src)
    BY <1>2 DEF BothNull, Null, Cells
  <2>2. Legal(start, fn, dst, src, n)
    BY <1>1 DEF MemInv, CallInv
  <2> QED  BY <1>1, <2>1, <2>2 DEF Legal, Inside, Apart
<1>4. /\ dst \in Nat /\ src \in Nat /\ i \in Nat /\ n \in Nat
      /\ mem \in [Cells -> Bytes] /\ start \in [Cells -> Bytes]
  BY <1>2 DEF MemTypeOK, Cells
<1>5. CASE Downwards(fn, dst, src) /\ i > 0 /\ i' = i - 1 /\ Store(i - 1, mem[src + i - 1])
           /\ UNCHANGED <<pc, ret>>
  <2>1. dst + (i - 1) \in Cells /\ src + i - 1 \in Cells /\ i - 1 \in Int
    BY <1>2, <1>3, <1>4, <1>5 DEF Cells
  <2>2. mem[src + i - 1] = start[src + i - 1]
    BY <1>1, <1>2, <1>3, <1>4, <1>5, <2>1 DEF Downwards
  <2>3. mem[src + i - 1] \in Bytes
    BY <1>4, <2>1
  <2>4. /\ mem' \in [Cells -> Bytes]
        /\ \A x \in Cells : mem'[x] = IF x = dst + (i - 1) THEN start[src + i - 1] ELSE mem[x]
    BY <1>2, <1>5, <2>1, <2>2, <2>3, Stored
  <2>5. MemTypeOK' /\ CallInv'
    BY <1>1, <1>2, <1>5, <2>4 DEF MemTypeOK, CallInv, MemInv, arguments
  <2>6. ASSUME NEW x \in Cells
        PROVE  mem'[x] = IF dst + (i - 1) <= x /\ x < dst + n
                         THEN start[src + (x - dst)] ELSE start[x]
    <3>1. x \in Int
      BY DEF Cells
    <3>2. CASE x = dst + (i - 1)
      <4>1. src + i - 1 = src + (x - dst)
        BY <1>4, <3>1, <3>2
      <4> QED  BY <1>2, <1>4, <1>5, <2>4, <3>1, <3>2, <4>1
    <3>3. CASE x # dst + (i - 1)
      BY <1>2, <1>4, <1>5, <2>4, <3>1, <3>3
    <3> QED  BY <3>2, <3>3
  <2>7. CopyInv'
    BY <1>1, <1>2, <1>4, <1>5, <2>6 DEF CopyInv, arguments, Downwards
  <2> QED
    BY <1>1, <1>5, <2>5, <2>7
       DEF MemInv, FillInv, StrLCpyInv, StrLCatInv, WritesAsPromised, arguments
<1>6. CASE ~Downwards(fn, dst, src) /\ i < n /\ i' = i + 1 /\ Store(i, mem[src + i])
           /\ UNCHANGED <<pc, ret>>
  <2>1. dst + i \in Cells /\ src + i \in Cells /\ i \in Int
    BY <1>2, <1>3, <1>4, <1>6 DEF Cells
  <2>2. mem[src + i] = start[src + i]
    BY <1>1, <1>2, <1>3, <1>4, <1>6, <2>1 DEF Downwards
  <2>3. mem[src + i] \in Bytes
    BY <1>4, <2>1
  <2>4. /\ mem' \in [Cells -> Bytes]
        /\ \A x \in Cells : mem'[x] = IF x = dst + i THEN start[src + i] ELSE mem[x]
    BY <1>2, <1>6, <2>1, <2>2, <2>3, Stored
  <2>5. MemTypeOK' /\ CallInv'
    BY <1>1, <1>2, <1>6, <2>4 DEF MemTypeOK, CallInv, MemInv, arguments
  <2>6. ASSUME NEW x \in Cells
        PROVE  mem'[x] = IF dst <= x /\ x < dst + (i + 1)
                         THEN start[src + (x - dst)] ELSE start[x]
    <3>1. x \in Int
      BY DEF Cells
    <3>2. CASE x = dst + i
      <4>1. src + i = src + (x - dst)
        BY <1>4, <3>1, <3>2
      <4> QED  BY <1>2, <1>4, <1>6, <2>4, <3>1, <3>2, <4>1
    <3>3. CASE x # dst + i
      BY <1>2, <1>4, <1>6, <2>4, <3>1, <3>3
    <3> QED  BY <3>2, <3>3
  <2>7. CopyInv'
    BY <1>1, <1>2, <1>4, <1>6, <2>6 DEF CopyInv, arguments, Downwards
  <2> QED
    BY <1>1, <1>6, <2>5, <2>7
       DEF MemInv, FillInv, StrLCpyInv, StrLCatInv, WritesAsPromised, arguments
<1>7. CASE i = (IF Downwards(fn, dst, src) THEN 0 ELSE n) /\ pc' = "returned" /\ ret' = dst
           /\ UNCHANGED <<mem, i>>
  <2>1. MemTypeOK' /\ CallInv'
    BY <1>1, <1>2, <1>4, <1>7 DEF MemTypeOK, CallInv, MemInv, arguments, Labels
  <2>2. \A x \in Cells : mem[x] = IF dst + 0 <= x /\ x < dst + 0 + n
                                   THEN start[src + (x - dst - 0)] ELSE start[x]
    BY <1>2, <1>4, <1>7 DEF Cells
  <2>3. dst # Null
    BY <1>4 DEF Null
  <2>4. WritesAsPromised'
    BY <1>1, <1>7, <2>2, <2>3
       DEF WritesAsPromised, FilledAsAsked, Holds, CopiedAsAsked, StringCopied, StringAppended,
           arguments
  <2> QED
    BY <1>1, <1>7, <2>1, <2>4 DEF MemInv, FillInv, CopyInv, StrLCpyInv, StrLCatInv, arguments
<1> QED
  BY <1>1, <1>2, <1>4, <1>5, <1>6, <1>7 DEF MemCpy, MemMove, Return, Downwards, At

\* The strings of a legal ft_strlcpy.
LEMMA CopiedStrings ==
    ASSUME MemInv, fn = "ft_strlcpy"
    PROVE  /\ src \in Cells /\ dst \in Cells /\ dst + n <= Size
           /\ \E k \in 0..Size : EndsAt(start, src, k) /\ Apart(dst, n, src, k + 1)
<1>1. Legal(start, fn, dst, src, n)
  BY DEF MemInv, CallInv
<1> QED  BY <1>1 DEF Legal, Inside, MemInv, CallInv

\* ft_strlcpy copies a byte, or ends the copy.
LEMMA StrLCpyKeepsInv ==
    ASSUME MemInv, StrLCpy
    PROVE  MemInv'
<1>1. fn = "ft_strlcpy" /\ pc = "loop" /\ UNCHANGED <<arguments, j, ret>>
  BY DEF StrLCpy, At
<1>2. /\ src \in Cells /\ dst \in Cells /\ dst + n <= Size
      /\ MemTypeOK /\ (i = 0 \/ i < n) /\ j = 0 /\ NoNulBefore(src, i)
      /\ \A x \in Cells : mem[x] =
            IF dst <= x /\ x < dst + i THEN start[src + (x - dst)] ELSE start[x]
  BY <1>1, CopiedStrings DEF MemInv, StrLCpyInv
<1>3. PICK k \in 0..Size : EndsAt(start, src, k) /\ Apart(dst, n, src, k + 1)
  BY <1>1, CopiedStrings
<1>4. /\ dst \in Nat /\ src \in Nat /\ i \in Nat /\ n \in Nat
      /\ mem \in [Cells -> Bytes] /\ start \in [Cells -> Bytes]
  BY <1>2 DEF MemTypeOK, Cells
<1>5. i <= k /\ src + i \in Cells
  BY <1>2, <1>3, <1>4, StringGoesOn
<1>6. mem[src + i] = start[src + i]
  BY <1>2, <1>3, <1>4, <1>5 DEF Apart
<1>7. CASE i + 1 < n /\ mem[src + i] # 0 /\ Store(i, mem[src + i]) /\ i' = i + 1 /\ pc' = pc
  <2>1. dst + i \in Cells /\ i \in Int
    BY <1>2, <1>4, <1>7 DEF Cells
  <2>2. mem[src + i] \in Bytes
    BY <1>4, <1>5
  <2>3. /\ mem' \in [Cells -> Bytes]
        /\ \A x \in Cells : mem'[x] = IF x = dst + i THEN start[src + i] ELSE mem[x]
    BY <1>2, <1>6, <1>7, <2>1, <2>2, Stored
  <2>4. MemTypeOK' /\ CallInv'
    BY <1>1, <1>2, <1>7, <2>3 DEF MemTypeOK, CallInv, MemInv, arguments
  <2>5. ASSUME NEW x \in Cells
        PROVE  mem'[x] = IF dst <= x /\ x < dst + (i + 1)
                         THEN start[src + (x - dst)] ELSE start[x]
    <3>1. x \in Int
      BY DEF Cells
    <3>2. CASE x = dst + i
      <4>1. src + i = src + (x - dst)
        BY <1>4, <3>1, <3>2
      <4> QED  BY <1>4, <2>3, <3>1, <3>2, <4>1
    <3>3. CASE x # dst + i
      BY <1>2, <1>4, <2>3, <3>1, <3>3
    <3> QED  BY <3>2, <3>3
  <2>6. NoNulBefore(src, i + 1)
    BY <1>2, <1>4, <1>6, <1>7, OneMore
  <2>7. NoNulBefore(src, i)'
    BY <1>1, <1>7, <2>6 DEF NoNulBefore, arguments
  <2>8. StrLCpyInv'
    BY <1>1, <1>2, <1>4, <1>7, <2>5, <2>7 DEF StrLCpyInv, arguments
  <2> QED
    BY <1>1, <1>7, <2>4, <2>8
       DEF MemInv, FillInv, CopyInv, StrLCatInv, WritesAsPromised, arguments
<1>8. CASE ~(i + 1 < n /\ mem[src + i] # 0) /\ pc' = "strlen" /\ i' = i
           /\ (IF n > 0 THEN Store(i, 0) ELSE UNCHANGED mem)
  <2>1. CASE n = 0
    <3>1. i = 0 /\ mem' = mem
      BY <1>2, <1>4, <1>8, <2>1
    <3>2. \A x \in Cells : mem[x] = start[x]
      BY <1>2, <1>4, <3>1 DEF Cells
    <3>3. mem' = start
      BY <1>4, <3>1, <3>2
    <3>4. MemTypeOK' /\ CallInv'
      BY <1>1, <1>2, <1>8, <3>1 DEF MemTypeOK, CallInv, MemInv, arguments, Labels
    <3>5. NoNulBefore(src, i)' /\ NoNulBefore(src, j)'
      BY <1>1, <1>2, <1>8, <3>1 DEF NoNulBefore, arguments
    <3>6. StrLCpyInv'
      BY <1>1, <1>8, <2>1, <3>3, <3>5 DEF StrLCpyInv, arguments
    <3> QED
      BY <1>1, <1>8, <3>4, <3>6
         DEF MemInv, FillInv, CopyInv, StrLCatInv, WritesAsPromised, arguments
  <2>2. CASE n > 0
    <3>1. i < n /\ dst + i \in Cells /\ i \in Int /\ 0 \in Bytes
      BY <1>2, <1>4, <2>2 DEF Cells
    <3>2. /\ mem' \in [Cells -> Bytes]
          /\ \A x \in Cells : mem'[x] = IF x = dst + i THEN 0 ELSE mem[x]
      BY <1>2, <1>8, <2>2, <3>1, Stored
    <3>3. MemTypeOK' /\ CallInv'
      BY <1>1, <1>2, <1>8, <3>2 DEF MemTypeOK, CallInv, MemInv, arguments, Labels
    <3>4. NoNulBefore(src, i)' /\ NoNulBefore(src, j)'
      BY <1>1, <1>2, <1>8 DEF NoNulBefore, arguments
    <3>5. i + 1 = n \/ start[src + i] = 0
      BY <1>4, <1>6, <1>8, <3>1
    <3>6. \A x \in Cells : mem'[x] = IF dst <= x /\ x < dst + i THEN start[src + (x - dst)]
                                     ELSE IF x = dst + i THEN 0 ELSE start[x]
      BY <1>2, <1>4, <3>2 DEF Cells
    <3>7. StrLCpyInv'
      BY <1>1, <1>4, <1>8, <2>2, <3>1, <3>4, <3>5, <3>6 DEF StrLCpyInv, arguments
    <3> QED
      BY <1>1, <1>8, <3>3, <3>7
         DEF MemInv, FillInv, CopyInv, StrLCatInv, WritesAsPromised, arguments
  <2> QED  BY <1>4, <2>1, <2>2
<1> QED  BY <1>7, <1>8 DEF StrLCpy

\* ft_strlcpy counts the bytes of the source for its result.
LEMMA StrLenKeepsInv ==
    ASSUME MemInv, StrLen
    PROVE  MemInv'
<1>1. fn = "ft_strlcpy" /\ pc = "strlen" /\ UNCHANGED <<mem, arguments, i>>
  BY DEF StrLen, At
<1>2. /\ src \in Cells /\ dst \in Cells /\ dst + n <= Size
      /\ MemTypeOK /\ NoNulBefore(src, j) /\ NoNulBefore(src, i)
      /\ n = 0 => mem = start
      /\ n > 0 =>
            /\ i < n
            /\ i + 1 = n \/ start[src + i] = 0
            /\ \A x \in Cells : mem[x] =
                  IF dst <= x /\ x < dst + i THEN start[src + (x - dst)]
                  ELSE IF x = dst + i THEN 0 ELSE start[x]
  BY <1>1, CopiedStrings DEF MemInv, StrLCpyInv
<1>3. PICK k \in 0..Size : EndsAt(start, src, k) /\ Apart(dst, n, src, k + 1)
  BY <1>1, CopiedStrings
<1>4. /\ dst \in Nat /\ src \in Nat /\ i \in Nat /\ j \in Nat /\ n \in Nat
      /\ mem \in [Cells -> Bytes] /\ start \in [Cells -> Bytes]
  BY <1>2 DEF MemTypeOK, Cells
<1>5. j <= k /\ src + j \in Cells
  BY <1>2, <1>3, <1>4, StringGoesOn
<1>6. mem[src + j] = start[src + j]
  BY <1>2, <1>3, <1>4, <1>5 DEF Apart
<1>7. CASE mem[src + j] # 0 /\ j' = j + 1 /\ UNCHANGED <<pc, ret>>
  <2>1. MemTypeOK' /\ CallInv'
    BY <1>1, <1>2, <1>7 DEF MemTypeOK, CallInv, MemInv, arguments
  <2>2. NoNulBefore(src, j + 1)
    BY <1>2, <1>4, <1>6, <1>7, OneMore
  <2>3. NoNulBefore(src, j)' /\ NoNulBefore(src, i)'
    BY <1>1, <1>2, <1>7, <2>2 DEF NoNulBefore, arguments
  <2>4. StrLCpyInv'
    BY <1>1, <1>2, <1>7, <2>3 DEF StrLCpyInv, arguments
  <2> QED
    BY <1>1, <1>7, <2>1, <2>4
       DEF MemInv, FillInv, CopyInv, StrLCatInv, WritesAsPromised, arguments
<1>8. CASE mem[src + j] = 0 /\ Return(j) /\ j' = j
  <2>1. WasLength(src, j)
    BY <1>2, <1>4, <1>5, <1>6, <1>8, EndFound
  <2>2. MemTypeOK' /\ CallInv'
    BY <1>1, <1>2, <1>4, <1>8 DEF MemTypeOK, CallInv, MemInv, arguments, Labels, Return
  <2>3. ASSUME n > 0
        PROVE  /\ i = Least(j, n - 1)
               /\ \A x \in Cells : mem[x] =
                     IF dst + 0 <= x /\ x < dst + 0 + (i + 1)
                     THEN IF x - dst - 0 < i THEN start[src + (x - dst - 0)] ELSE 0
                     ELSE start[x]
    <3>1. i <= j
      BY <1>2, <1>4, <2>1 DEF NoNulBefore, WasLength
    <3>2. i < j => start[src + i] # 0
      BY <1>4, <2>1 DEF WasLength
    <3> QED  BY <1>2, <1>4, <2>3, <3>1, <3>2 DEF Least, Cells
  <2>4. StringCopied'
    <3>1. ASSUME NEW l \in 0..Size, WasLength(src, l)
          PROVE  /\ j = l
                 /\ n # 0 => Holds(0, Least(l, n - 1) + 1,
                                   LAMBDA m : IF m < Least(l, n - 1) THEN start[src + m] ELSE 0)
      <4>1. l = j
        BY <1>2, <2>1, <1>4, <3>1, OneLength
      <4> QED  BY <1>4, <2>3, <4>1 DEF Holds
    <3>2. \A l \in 0..Size : WasLength(src, l)' = WasLength(src, l)
      BY <1>1 DEF WasLength, arguments
    <3>3. ret' = j /\ mem' = mem /\ start' = start /\ n' = n /\ src' = src /\ dst' = dst
      BY <1>1, <1>8 DEF Return, arguments
    <3> QED
      BY <1>2, <3>1, <3>2, <3>3 DEF StringCopied, Holds
  <2>5. WritesAsPromised'
    BY <1>1, <2>4
       DEF WritesAsPromised, FilledAsAsked, CopiedAsAsked, StringAppended, arguments
  <2> QED
    BY <1>1, <1>8, <2>2, <2>5
       DEF MemInv, FillInv, CopyInv, StrLCpyInv, StrLCatInv, arguments, Return
<1> QED  BY <1>7, <1>8 DEF StrLen

\* The strings of a legal ft_strlcat.
LEMMA AppendedStrings ==
    ASSUME MemInv, fn = "ft_strlcat"
    PROVE  /\ src \in Cells /\ dst \in Cells /\ dst + n <= Size
           /\ \E k, l \in 0..Size :
                 /\ EndsAt(start, dst, k) /\ EndsAt(start, src, l)
                 /\ Apart(dst, n, src, l + 1) /\ Apart(dst, k + 1, src, l + 1)
<1>1. Legal(start, fn, dst, src, n)
  BY DEF MemInv, CallInv
<1> QED  BY <1>1 DEF Legal, Inside, MemInv, CallInv

\* ft_strlcat measures the destination and then the source.
LEMMA StrLCatLengthsKeepsInv ==
    ASSUME MemInv, StrLCatLengths
    PROVE  MemInv'
<1>1. fn = "ft_strlcat" /\ pc \in {"scan_dst", "scan_src"} /\ UNCHANGED <<mem, arguments>>
  BY DEF StrLCatLengths
<1>2. MemTypeOK /\ src \in Cells /\ dst \in Cells /\ mem = start
  BY <1>1, AppendedStrings DEF MemInv, StrLCatInv
<1>3. PICK k \in 0..Size, l \in 0..Size :
         EndsAt(start, dst, k) /\ EndsAt(start, src, l)
  BY <1>1, AppendedStrings
<1>4. i \in Nat /\ j \in Nat /\ dst \in Nat /\ src \in Nat
  BY <1>2 DEF MemTypeOK, Cells
<1>5. CASE pc = "scan_dst" /\ UNCHANGED <<j, ret>>
  <2>1. NoNulBefore(dst, i) /\ j = 0
    BY <1>1, <1>5 DEF MemInv, StrLCatInv
  <2>2. dst + i \in Cells
    BY <1>2, <1>3, <1>4, <2>1, StringGoesOn
  <2>3. CASE mem[dst + i] # 0 /\ i' = i + 1 /\ UNCHANGED pc
    <3>1. NoNulBefore(dst, i + 1)
      BY <1>2, <1>4, <2>1, <2>3, OneMore
    <3>2. NoNulBefore(dst, i)'
      BY <1>1, <2>3, <3>1 DEF NoNulBefore, arguments
    <3>3. MemTypeOK' /\ CallInv'
      BY <1>1, <1>2, <1>5, <2>3 DEF MemTypeOK, CallInv, MemInv, arguments
    <3> QED
      BY <1>1, <1>2, <1>5, <2>1, <2>3, <3>2, <3>3
         DEF MemInv, FillInv, CopyInv, StrLCpyInv, StrLCatInv, WritesAsPromised, arguments
  <2>4. CASE mem[dst + i] = 0 /\ pc' = "scan_src" /\ UNCHANGED i
    <3>1. WasLength(dst, i)
      BY <1>2, <1>4, <2>1, <2>2, <2>4, EndFound
    <3>2. WasLength(dst, i)' /\ NoNulBefore(src, j)'
      BY <1>1, <1>5, <2>1, <2>4, <3>1 DEF NoNulBefore, WasLength, arguments
    <3>3. MemTypeOK' /\ CallInv'
      BY <1>1, <1>2, <1>5, <2>4 DEF MemTypeOK, CallInv, MemInv, arguments, Labels
    <3> QED
      BY <1>1, <1>2, <1>5, <2>1, <2>4, <3>2, <3>3
         DEF MemInv, FillInv, CopyInv, StrLCpyInv, StrLCatInv, WritesAsPromised, arguments
  <2> QED  BY <1>5, <2>3, <2>4 DEF StrLCatLengths
<1>6. CASE pc = "scan_src" /\ UNCHANGED i
  <2>1. WasLength(dst, i) /\ NoNulBefore(src, j)
    BY <1>1, <1>6 DEF MemInv, StrLCatInv
  <2>2. src + j \in Cells
    BY <1>2, <1>3, <1>4, <2>1, StringGoesOn
  <2>3. CASE mem[src + j] # 0 /\ j' = j + 1 /\ UNCHANGED <<pc, ret>>
    <3>1. NoNulBefore(src, j + 1)
      BY <1>2, <1>4, <2>1, <2>3, OneMore
    <3>2. WasLength(dst, i)' /\ NoNulBefore(src, j)'
      BY <1>1, <1>6, <2>1, <2>3, <3>1 DEF NoNulBefore, WasLength, arguments
    <3>3. MemTypeOK' /\ CallInv'
      BY <1>1, <1>2, <1>6, <2>3 DEF MemTypeOK, CallInv, MemInv, arguments
    <3> QED
      BY <1>1, <1>2, <1>6, <2>3, <3>2, <3>3
         DEF MemInv, FillInv, CopyInv, StrLCpyInv, StrLCatInv, WritesAsPromised, arguments
  <2>4. CASE mem[src + j] = 0 /\ pc' = "append" /\ ret' = i + j /\ j' = 0
    <3>1. WasLength(src, j)
      BY <1>2, <1>4, <2>1, <2>2, <2>4, EndFound
    <3>2. \A x \in Cells : ~(dst + i <= x /\ x < dst + i) /\ mem[x] = start[x]
      BY <1>2, <1>4 DEF Cells
    <3>3. /\ start' = start /\ mem' = mem /\ dst' = dst /\ src' = src /\ n' = n /\ i' = i
          /\ j' = 0 /\ ret' = i + j /\ i = i + 0
      BY <1>1, <1>4, <1>6, <2>4 DEF arguments
    <3>4. \E d, m \in Nat : Appended(d, m)'
      <4>1. PICK d \in Nat, m \in Nat : d = i /\ m = j
        BY <1>4
      <4>2. /\ WasLength(dst, d) /\ WasLength(src, m)
            /\ \A x \in Cells : mem[x] =
                  IF dst + d <= x /\ x < dst + i THEN start[src + (x - dst - d)] ELSE start[x]
        BY <2>1, <3>1, <3>2, <4>1
      <4>3. WasLength(dst, d)' /\ WasLength(src, m)'
        BY <3>3, <4>2 DEF WasLength
      <4>4. Appended(d, m)'
        BY <3>3, <4>1, <4>2, <4>3 DEF Appended
      <4> QED  BY <4>4
    <3>5. MemTypeOK' /\ CallInv'
      BY <1>1, <1>2, <1>4, <1>6, <2>4 DEF MemTypeOK, CallInv, MemInv, arguments, Labels
    <3> QED
      BY <1>1, <2>4, <3>3, <3>4, <3>5
         DEF MemInv, FillInv, CopyInv, StrLCpyInv, StrLCatInv, WritesAsPromised, arguments
  <2> QED  BY <1>6, <2>3, <2>4 DEF StrLCatLengths
<1> QED  BY <1>5, <1>6 DEF StrLCatLengths

\* ft_strlcat appends a byte, or ends the string.
LEMMA StrLCatKeepsInv ==
    ASSUME MemInv, StrLCat
    PROVE  MemInv'
<1>1. fn = "ft_strlcat" /\ pc = "append" /\ UNCHANGED arguments
  BY DEF StrLCat, At
<1>2. PICK d \in Nat, l \in Nat : Appended(d, l)
  BY <1>1 DEF MemInv, StrLCatInv
<1>3. /\ MemTypeOK /\ src \in Cells /\ dst \in Cells /\ dst + n <= Size
  BY <1>1, AppendedStrings DEF MemInv
<1>4. /\ dst \in Nat /\ src \in Nat /\ i \in Nat /\ j \in Nat /\ n \in Nat /\ ret \in Int
      /\ mem \in [Cells -> Bytes] /\ start \in [Cells -> Bytes]
  BY <1>3 DEF MemTypeOK, Cells
<1>5. /\ WasLength(dst, d) /\ WasLength(src, l)
      /\ ret = d + l /\ i = d + j /\ j <= l
      /\ j = 0 \/ i < n
      /\ \A x \in Cells : mem[x] =
            IF dst + d <= x /\ x < dst + i THEN start[src + (x - dst - d)] ELSE start[x]
  BY <1>2 DEF Appended
<1>6. PICK k \in 0..Size, m \in 0..Size :
         /\ EndsAt(start, dst, k) /\ EndsAt(start, src, m)
         /\ Apart(dst, n, src, m + 1) /\ Apart(dst, k + 1, src, m + 1)
  BY <1>1, AppendedStrings
<1>7. /\ d <= k /\ l <= m
      /\ dst + d \in Cells /\ src + l \in Cells /\ start[dst + d] = 0 /\ start[src + l] = 0
  BY <1>5, <1>6 DEF WasLength, EndsAt
<1>8. src + j \in Cells
  BY <1>4, <1>5, <1>7 DEF Cells
<1>9. mem[src + j] = start[src + j]
  BY <1>4, <1>5, <1>6, <1>7, <1>8 DEF Apart
<1>10. start[src + j] # 0 <=> j < l
  BY <1>4, <1>5, <1>7 DEF WasLength
<1>11. WasLength(dst, d)' /\ WasLength(src, l)'
  BY <1>1, <1>5 DEF WasLength, arguments
<1>12. CASE mem[src + j] # 0 /\ i + 1 < n /\ Store(i, mem[src + j]) /\ i' = i + 1 /\ j' = j + 1
            /\ UNCHANGED <<pc, ret>>
  <2>1. dst + i \in Cells /\ i \in Int /\ mem[src + j] \in Bytes
    BY <1>3, <1>4, <1>8, <1>12 DEF Cells
  <2>2. /\ mem' \in [Cells -> Bytes]
        /\ \A x \in Cells : mem'[x] = IF x = dst + i THEN start[src + j] ELSE mem[x]
    BY <1>3, <1>9, <1>12, <2>1, Stored
  <2>3. ASSUME NEW x \in Cells
        PROVE  mem'[x] = IF dst + d <= x /\ x < dst + (i + 1)
                         THEN start[src + (x - dst - d)] ELSE start[x]
    <3>1. x \in Int
      BY DEF Cells
    <3>2. CASE x = dst + i
      <4>1. src + j = src + (x - dst - d)
        BY <1>4, <1>5, <3>1, <3>2
      <4> QED  BY <1>4, <1>5, <2>2, <3>1, <3>2, <4>1
    <3>3. CASE x # dst + i
      BY <1>4, <1>5, <2>2, <3>1, <3>3
    <3> QED  BY <3>2, <3>3
  <2>4. Appended(d, l)'
    BY <1>1, <1>4, <1>5, <1>9, <1>10, <1>11, <1>12, <2>3 DEF Appended, arguments
  <2>5. MemTypeOK' /\ CallInv'
    BY <1>1, <1>3, <1>12, <2>2 DEF MemTypeOK, CallInv, MemInv, arguments
  <2> QED
    BY <1>1, <1>12, <2>4, <2>5
       DEF MemInv, FillInv, CopyInv, StrLCpyInv, StrLCatInv, WritesAsPromised, arguments
<1>13. CASE ~(mem[src + j] # 0 /\ i + 1 < n) /\ Store(i, 0) /\ i' = i /\ j' = j
            /\ Return(IF i > n THEN ret - i + n ELSE ret)
  <2>1. dst + i \in Cells /\ i \in Int /\ 0 \in Bytes
    BY <1>3, <1>4, <1>5, <1>7 DEF Cells
  <2>2. /\ mem' \in [Cells -> Bytes]
        /\ \A x \in Cells : mem'[x] = IF x = dst + i THEN 0 ELSE mem[x]
    BY <1>3, <1>13, <2>1, Stored
  <2>3. ret' = l + Least(d, n)
    BY <1>4, <1>5, <1>13 DEF Return, Least
  <2>4. ASSUME n <= d PROVE mem' = start
    <3>1. i = d
      BY <1>4, <1>5, <2>4
    <3>2. ASSUME NEW x \in Cells PROVE mem'[x] = start[x]
      <4>1. x \in Int
        BY DEF Cells
      <4>2. x # dst + i => mem[x] = start[x]
        BY <1>4, <1>5, <3>1, <4>1
      <4> QED  BY <1>7, <2>2, <3>1, <4>2
    <3> QED  BY <1>4, <2>2, <3>2
  <2>5. ASSUME n > d
        PROVE  /\ j = Least(l, n - 1 - d)
               /\ \A x \in Cells : mem'[x] =
                     IF dst + d <= x /\ x < dst + d + (j + 1)
                     THEN IF x - dst - d < j THEN start[src + (x - dst - d)] ELSE 0
                     ELSE start[x]
    <3>1. j = Least(l, n - 1 - d)
      BY <1>4, <1>5, <1>9, <1>10, <1>13, <2>5 DEF Least
    <3>2. ASSUME NEW x \in Cells
          PROVE  mem'[x] = IF dst + d <= x /\ x < dst + d + (j + 1)
                           THEN IF x - dst - d < j THEN start[src + (x - dst - d)] ELSE 0
                           ELSE start[x]
      <4>1. x \in Int
        BY DEF Cells
      <4>2. CASE x = dst + i
        <5>1. dst + d <= x /\ x < dst + d + (j + 1) /\ ~(x - dst - d < j)
          BY <1>4, <1>5, <4>1, <4>2
        <5> QED  BY <2>2, <4>2, <5>1
      <4>3. CASE x # dst + i
        <5>1. mem'[x] = IF dst + d <= x /\ x < dst + i THEN start[src + (x - dst - d)] ELSE start[x]
          BY <1>5, <2>2, <4>3
        <5>2. (dst + d <= x /\ x < dst + i) <=> (dst + d <= x /\ x < dst + d + (j + 1))
          BY <1>4, <1>5, <4>1, <4>3
        <5>3. dst + d <= x /\ x < dst + i => x - dst - d < j
          BY <1>4, <1>5, <4>1
        <5> QED  BY <5>1, <5>2, <5>3
      <4> QED  BY <4>2, <4>3
    <3> QED  BY <3>1, <3>2
  <2>6. ASSUME NEW e \in 0..Size, NEW f \in 0..Size, WasLength(dst, e), WasLength(src, f)
        PROVE  e = d /\ f = l
    BY <1>3, <1>5, <2>6, OneLength
  <2>7. StringAppended'
    <3>1. \A e \in 0..Size : /\ WasLength(dst, e)' <=> WasLength(dst, e)
                             /\ WasLength(src, e)' <=> WasLength(src, e)
      BY <1>1 DEF WasLength, arguments
    <3>2. start' = start /\ n' = n /\ src' = src /\ dst' = dst
      BY <1>1 DEF arguments
    <3> QED
      BY <1>4, <2>3, <2>4, <2>5, <2>6, <3>1, <3>2 DEF StringAppended, Holds
  <2>8. WritesAsPromised'
    BY <1>1, <2>7
       DEF WritesAsPromised, FilledAsAsked, CopiedAsAsked, StringCopied, arguments
  <2>9. MemTypeOK' /\ CallInv'
    <3>1. ret' \in Int
      BY <1>4, <1>13 DEF Return
    <3> QED
      BY <1>1, <1>3, <1>13, <2>2, <3>1
         DEF MemTypeOK, CallInv, MemInv, arguments, Labels, Return
  <2> QED
    BY <1>1, <1>13, <2>8, <2>9
       DEF MemInv, FillInv, CopyInv, StrLCpyInv, StrLCatInv, arguments, Return
<1> QED  BY <1>12, <1>13 DEF StrLCat

\* Every step keeps it.
LEMMA MemNextInv ==
    ASSUME MemInv, [MemNext]_memory
    PROVE  MemInv'
<1>1. CASE UNCHANGED memory
  BY <1>1 DEF memory, arguments, MemInv, MemTypeOK, CallInv, FillInv, CopyInv, StrLCpyInv,
              StrLCatInv, Appended, WritesAsPromised, FilledAsAsked, CopiedAsAsked, StringCopied,
              StringAppended, Holds, WasLength, NoNulBefore
<1> QED
  BY <1>1, CallKeepsInv, MemSetKeepsInv, CopyKeepsInv, StrLCpyKeepsInv, StrLenKeepsInv,
     StrLCatLengthsKeepsInv, StrLCatKeepsInv
     DEF MemNext

\* The functions of libft that write to memory, called legally, do to it exactly what their
\* man pages say, whatever the size of the memory, the areas and the strings: ft_memmove on
\* areas that overlap, ft_strlcpy and ft_strlcat with any room.
THEOREM MemoryWrittenAsPromised == MemSpec => []WritesAsPromised
<1>1. MemInit => MemInv
  BY MemInitInv
<1>2. MemInv /\ [MemNext]_memory => MemInv'
  BY MemNextInv
<1>3. MemInv => WritesAsPromised
  BY DEF MemInv
<1> QED  BY <1>1, <1>2, <1>3, PTL DEF MemSpec

\* So it is when the calls are those of MCLibft, which take turns with calls that use no memory.
THEOREM LibftMemoryWrittenAsPromised == MCSpec => []WritesAsPromised
<1>1. MCInit => MemInit
  BY DEF MCInit
<1>2. [MCNext]_vars => [MemNext]_memory
  BY DEF MCNext, Memory, CallNumber, CallAtoi, CallPrintf, CallSearch, CallSubStr, CallTrim, CallSplit,
         CallMap, CallLong, Gives, vars
<1>3. MCSpec => MemSpec
  BY <1>1, <1>2, PTL DEF MCSpec, MemSpec
<1>4. QED
  BY <1>3, MemoryWrittenAsPromised, PTL

=============================================================================
