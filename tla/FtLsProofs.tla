----------------------------- MODULE FtLsProofs -----------------------------
(***************************************************************************)
(* Theorems about FtLs, for every finite tree of files, every set of       *)
(* command lines and every bound; and about the sort of one directory      *)
(* (MCLsSort), for every set of names, every set of times and every bound. *)
(***************************************************************************)
EXTENDS FtLs, MCLsSort, DataLemmas, TLAPS

----------------------------------------------------------------------------
(* Sequences and the sets of their members. *)

\* The members of a sequence are a set; a sequence that is not empty is its head and its tail.
LEMMA Members ==
    ASSUME NEW T, NEW s \in Seq(T)
    PROVE  /\ ToSet(s) = {s[i] : i \in 1..Len(s)}
           /\ ToSet(s) \subseteq T
           /\ s # <<>> => /\ ToSet(s) = {Head(s)} \cup ToSet(Tail(s))
                          /\ Tail(s) \in Seq(T) /\ Len(Tail(s)) = Len(s) - 1
                          /\ Head(s) \in T /\ Len(s) # 0 /\ Len(s) \in Nat
<1>1. ToSet(s) = {s[i] : i \in 1..Len(s)} /\ ToSet(s) \subseteq T
  BY DEF ToSet
<1>2. ASSUME s # <<>> PROVE ToSet(s) = {Head(s)} \cup ToSet(Tail(s))
  <2>1. /\ Tail(s) \in Seq(T) /\ Len(Tail(s)) = Len(s) - 1 /\ Len(s) \in Nat \ {0}
        /\ Head(s) = s[1] /\ \A i \in 1..(Len(s) - 1) : Tail(s)[i] = s[i + 1]
    BY <1>2
  <2>2. ToSet(Tail(s)) = {Tail(s)[i] : i \in 1..(Len(s) - 1)}
    BY <2>1 DEF ToSet
  <2>3. ASSUME NEW i \in 1..Len(s) PROVE s[i] = Head(s) \/ s[i] \in ToSet(Tail(s))
    <3>1. CASE i = 1
      BY <2>1, <3>1
    <3>2. CASE i # 1
      <4>1. i - 1 \in 1..(Len(s) - 1) /\ Tail(s)[i - 1] = s[i]
        BY <2>1, <3>2
      <4>2. QED
        BY <2>2, <4>1
    <3>3. QED
      BY <3>1, <3>2
  <2>4. Head(s) \in ToSet(s)
    BY <1>1, <2>1
  <2>5. \A x \in ToSet(Tail(s)) : x \in ToSet(s)
    BY <1>1, <2>1, <2>2
  <2>6. QED
    BY <1>1, <2>3, <2>4, <2>5
<1>3. QED
  BY <1>1, <1>2

\* Adding a member at the front or at the end.
LEMMA MembersAdded ==
    ASSUME NEW T, NEW s \in Seq(T), NEW x \in T
    PROVE  /\ <<x>> \o s \in Seq(T) /\ Len(<<x>> \o s) = Len(s) + 1
           /\ ToSet(<<x>> \o s) = {x} \cup ToSet(s)
           /\ Append(s, x) \in Seq(T) /\ Len(Append(s, x)) = Len(s) + 1
           /\ ToSet(Append(s, x)) = {x} \cup ToSet(s)
<1> DEFINE f == <<x>> \o s
           b == Append(s, x)
           n == Len(s)
<1>1. /\ f \in Seq(T) /\ Len(f) = n + 1 /\ n \in Nat
      /\ \A i \in 1..(n + 1) : f[i] = IF i = 1 THEN x ELSE s[i - 1]
  OBVIOUS
<1>2. /\ b \in Seq(T) /\ Len(b) = n + 1
      /\ \A i \in 1..(n + 1) : b[i] = IF i = n + 1 THEN x ELSE s[i]
  OBVIOUS
<1> HIDE DEF f, b
<1>3. /\ ToSet(f) = {f[i] : i \in 1..(n + 1)} /\ ToSet(b) = {b[i] : i \in 1..(n + 1)}
      /\ ToSet(s) = {s[i] : i \in 1..n}
  BY <1>1, <1>2, Members
<1>4. ToSet(f) = {x} \cup ToSet(s)
  <2>1. \A i \in 1..(n + 1) : f[i] \in {x} \cup ToSet(s)
    <3>1. \A i \in 1..(n + 1) : i = 1 \/ i - 1 \in 1..n
      BY <1>1
    <3>2. QED
      BY <1>1, <1>3, <3>1
  <2>2. \A i \in 1..n : i + 1 \in 1..(n + 1) /\ f[i + 1] = s[i]
    <3>1. \A i \in 1..n : i + 1 \in 1..(n + 1) /\ i + 1 # 1 /\ (i + 1) - 1 = i
      BY <1>1
    <3>2. QED
      BY <1>1, <3>1
  <2>3. 1 \in 1..(n + 1) /\ f[1] = x
    BY <1>1
  <2>4. QED
    BY <1>3, <2>1, <2>2, <2>3
<1>5. ToSet(b) = {x} \cup ToSet(s)
  <2>1. \A i \in 1..(n + 1) : i = n + 1 \/ i \in 1..n
    BY <1>1
  <2>2. \A i \in 1..n : i \in 1..(n + 1) /\ b[i] = s[i]
    BY <1>1, <1>2
  <2>3. n + 1 \in 1..(n + 1) /\ b[n + 1] = x
    BY <1>1, <1>2
  <2>4. QED
    BY <1>2, <1>3, <2>1, <2>2, <2>3
<1>6. QED
  BY <1>1, <1>2, <1>4, <1>5 DEF f, b

----------------------------------------------------------------------------
(* merge_sort permutes the list it is given, whatever the comparison says. *)

(* The equation that sorted_merge computes by. *)
Merges(merge, order, T) ==
    \A s, t \in Seq(T) :
        /\ merge[<<s, t>>] \in Seq(T)
        /\ merge[<<s, t>>] =
              IF s = <<>> THEN t
              ELSE IF t = <<>> THEN s
              ELSE IF Compare(order, Head(s), Head(t)) <= 0
                   THEN <<Head(s)>> \o merge[<<Tail(s), t>>]
                   ELSE <<Head(t)>> \o merge[<<s, Tail(t)>>]

\* sorted_merge obeys it.
LEMMA SortedMergeMerges == ASSUME NEW order, NEW T PROVE Merges(SortedMerge(order, T), order, T)
<1> DEFINE D == Seq(T) \X Seq(T)
           Y == Seq(T)
           Shorter(p) == {q \in D : Len(q[1]) + Len(q[2]) < Len(p[1]) + Len(p[2])}
           pre == [p \in D |-> Shorter(p)]
           m == [p \in D |-> Len(p[1]) + Len(p[2])]
           Body(h, p) == IF p[1] = <<>> THEN p[2]
                         ELSE IF p[2] = <<>> THEN p[1]
                         ELSE IF Compare(order, Head(p[1]), Head(p[2])) <= 0
                              THEN <<Head(p[1])>> \o h[<<Tail(p[1]), p[2]>>]
                              ELSE <<Head(p[2])>> \o h[<<p[1], Tail(p[2])>>]
           F == [h \in [D -> Y] |-> [p \in D |-> Body(h, p)]]
           f == SortedMerge(order, T)
<1>1. WellFoundedBy(pre, D)
  <2>1. \A p \in D : m[p] \in Nat
    OBVIOUS
  <2>4. \A p \in D : \A q \in pre[p] : m[q] < m[p]
    <3>1. \A p \in D : m[p] = Len(p[1]) + Len(p[2])
      OBVIOUS
    <3> HIDE DEF D, m
    <3>2. QED
      BY <3>1
  <2>2. pre \in [D -> SUBSET D]
    OBVIOUS
  <2> HIDE DEF D, pre, m
  <2>3. QED
    BY <2>1, <2>2, <2>4, MeasureDecreases
<1>2. ASSUME NEW p \in D
      PROVE  /\ p[1] \in Seq(T) /\ p[2] \in Seq(T)
             /\ p[1] # <<>> => Head(p[1]) \in T /\ <<Tail(p[1]), p[2]>> \in pre[p]
             /\ p[2] # <<>> => Head(p[2]) \in T /\ <<p[1], Tail(p[2])>> \in pre[p]
  <2>1. \A l \in Seq(T) : l # <<>> =>
            Head(l) \in T /\ Tail(l) \in Seq(T) /\ Len(Tail(l)) = Len(l) - 1 /\ Len(l) \in Nat
    OBVIOUS
  <2>2. p[1] \in Seq(T) /\ p[2] \in Seq(T) /\ pre[p] = Shorter(p)
    OBVIOUS
  <2> DEFINE a == p[1]
             b == p[2]
  <2>3. ASSUME a # <<>> PROVE <<Tail(a), b>> \in Shorter(p)
    <3>1. Tail(a) \in Seq(T) /\ b \in Seq(T) /\ Len(Tail(a)) + Len(b) < Len(a) + Len(b)
      BY <2>1, <2>2, <2>3
    <3> HIDE DEF pre
    <3>2. QED
      BY <3>1
  <2>4. ASSUME b # <<>> PROVE <<a, Tail(b)>> \in Shorter(p)
    <3>1. a \in Seq(T) /\ Tail(b) \in Seq(T) /\ Len(a) + Len(Tail(b)) < Len(a) + Len(b)
      BY <2>1, <2>2, <2>4
    <3> HIDE DEF pre
    <3>2. QED
      BY <3>1
  <2> HIDE DEF pre, D
  <2>5. QED
    BY <2>1, <2>2, <2>3, <2>4
<1>3. ASSUME NEW h \in [D -> Y], NEW p \in D PROVE Body(h, p) \in Y
  <2>1. \A q \in pre[p] : h[q] \in Seq(T)
    OBVIOUS
  <2>2. \A x \in T, l \in Seq(T) : <<x>> \o l \in Seq(T)
    OBVIOUS
  <2> HIDE DEF pre, D
  <2>3. p[1] # <<>> => <<Head(p[1])>> \o h[<<Tail(p[1]), p[2]>>] \in Seq(T)
    BY <1>2, <2>1, <2>2
  <2>4. p[2] # <<>> => <<Head(p[2])>> \o h[<<p[1], Tail(p[2])>>] \in Seq(T)
    BY <1>2, <2>1, <2>2
  <2>5. QED
    BY <1>2, <2>3, <2>4
<1>4. ASSUME NEW g, NEW h, NEW p \in D, \A q \in pre[p] : g[q] = h[q]
      PROVE  Body(g, p) = Body(h, p)
  <2> HIDE DEF pre, D
  <2> QED
    BY <1>2, <1>4
<1>5. Recursion(F, pre, D, Y)
  <2> HIDE DEF D, Y, pre, Body
  <2> QED
    BY <1>1, <1>3, <1>4 DEF Recursion
<1>6. PICK g \in [D -> Y] : g = [p \in D |-> Body(g, p)]
  <2>1. <<>> \in Y
    OBVIOUS
  <2> HIDE DEF D, Y, pre, Body
  <2>2. QED
    BY <1>5, <2>1, RecursionSolved
<1>7. f = [p \in D |-> Body(f, p)]
  <2>1. f = CHOOSE f1 : f1 = [p \in D |-> Body(f1, p)]
    BY DEF SortedMerge
  <2> HIDE DEF f, D, Body
  <2>2. QED
    BY <1>6, <2>1
<1>8. \A p \in D : f[p] = g[p]
  <2> HIDE DEF f, D, Y, pre, Body
  <2> QED
    BY <1>1, <1>4, <1>6, <1>7, SameRecursion
<1>9. ASSUME NEW s \in Seq(T), NEW t \in Seq(T)
      PROVE  f[<<s, t>>] \in Seq(T) /\ f[<<s, t>>] = Body(f, <<s, t>>)
  <2>1. <<s, t>> \in D
    OBVIOUS
  <2> HIDE DEF f, D, Body
  <2>2. QED
    BY <1>6, <1>7, <1>8, <2>1
<1> HIDE DEF f
<1>10. Merges(f, order, T)
  BY <1>9, ZenonT(30) DEF Merges
<1>11. QED
  BY <1>10 DEF f

(* The result holds the files of both lists, and no others. *)
Permutes(merge, T) ==
    \A s, t \in Seq(T) :
        /\ merge[<<s, t>>] \in Seq(T)
        /\ Len(merge[<<s, t>>]) = Len(s) + Len(t)
        /\ ToSet(merge[<<s, t>>]) = ToSet(s) \cup ToSet(t)

\* Merging keeps every file of either list.
LEMMA SortedMergePermutes ==
    ASSUME NEW order, NEW T, NEW merge, Merges(merge, order, T) PROVE Permutes(merge, T)
<1> DEFINE P(s, t) == /\ merge[<<s, t>>] \in Seq(T)
                      /\ Len(merge[<<s, t>>]) = Len(s) + Len(t)
                      /\ ToSet(merge[<<s, t>>]) = ToSet(s) \cup ToSet(t)
           Bad == {n \in Nat : \E s, t \in Seq(T) : n = Len(s) + Len(t) /\ ~ P(s, t)}
<1>1. SUFFICES ASSUME Bad # {} PROVE FALSE
  <2>1. ASSUME NEW s \in Seq(T), NEW t \in Seq(T) PROVE P(s, t)
    <3>1. Len(s) + Len(t) \in Nat
      OBVIOUS
    <3> HIDE DEF P
    <3>2. QED
      BY <3>1
  <2>2. QED
    BY <2>1, Zenon DEF Permutes
<1>2. PICK n \in Bad : \A k \in Bad : n <= k
  <2>1. Bad \in SUBSET Nat
    OBVIOUS
  <2> HIDE DEF Bad
  <2>2. QED
    BY <1>1, <2>1, LeastNat
<1>3. PICK s \in Seq(T), t \in Seq(T) : n = Len(s) + Len(t) /\ ~ P(s, t)
  <2> HIDE DEF P
  <2> QED
    OBVIOUS
<1>4. ASSUME NEW u \in Seq(T), NEW v \in Seq(T), Len(u) + Len(v) < n PROVE P(u, v)
  <2>1. Len(u) + Len(v) \in Nat /\ n \in Nat
    OBVIOUS
  <2> HIDE DEF Bad
  <2>2. Len(u) + Len(v) \notin Bad
    BY <1>2, <1>4, <2>1
  <2> HIDE DEF P
  <2>3. QED
    BY <2>1, <2>2 DEF Bad
<1> HIDE DEF Bad
<1>5. n = Len(s) + Len(t) /\ Len(s) \in Nat /\ Len(t) \in Nat /\ merge[<<s, t>>] \in Seq(T)
  <2> HIDE DEF P
  <2>1. Len(s) \in Nat /\ Len(t) \in Nat
    OBVIOUS
  <2>2. merge[<<s, t>>] \in Seq(T)
    BY ONLY s \in Seq(T), t \in Seq(T), Merges(merge, order, T), Zenon DEF Merges
  <2>3. QED
    BY <1>3, <2>1, <2>2
<1>6. ~ P(s, t)
  BY <1>3
<1> HIDE DEF P
<1>7. CASE s = <<>>
  <2>1. merge[<<s, t>>] = t
    BY <1>7 DEF Merges
  <2>2. Len(s) = 0 /\ ToSet(s) = {}
    BY <1>7 DEF ToSet
  <2>3. QED
    BY <1>5, <1>6, <2>1, <2>2 DEF P
<1>8. CASE s # <<>> /\ t = <<>>
  <2>1. merge[<<s, t>>] = s
    BY <1>8 DEF Merges
  <2>2. Len(t) = 0 /\ ToSet(t) = {}
    BY <1>8 DEF ToSet
  <2>3. QED
    BY <1>5, <1>6, <2>1, <2>2 DEF P
<1>9. CASE s # <<>> /\ t # <<>> /\ Compare(order, Head(s), Head(t)) <= 0
  <2> DEFINE rest == merge[<<Tail(s), t>>]
  <2>1. merge[<<s, t>>] = <<Head(s)>> \o rest
    BY <1>9, Zenon DEF Merges
  <2>2. /\ Head(s) \in T /\ Tail(s) \in Seq(T) /\ Len(Tail(s)) = Len(s) - 1
        /\ ToSet(s) = {Head(s)} \cup ToSet(Tail(s))
    BY <1>9, Members
  <2>3. P(Tail(s), t)
    <3>1. Tail(s) \in Seq(T) /\ Len(Tail(s)) + Len(t) < n
      BY <1>5, <2>2
    <3>2. QED
      BY <1>4, <3>1
  <2>4. /\ rest \in Seq(T) /\ Head(s) \in T /\ Len(rest) = Len(s) + Len(t) - 1
        /\ ToSet(rest) \cup {Head(s)} = ToSet(s) \cup ToSet(t)
    <3>1. rest \in Seq(T) /\ Len(rest) = Len(s) + Len(t) - 1
      BY <1>5, <2>2, <2>3 DEF P
    <3>2. ToSet(rest) \cup {Head(s)} = ToSet(s) \cup ToSet(t)
      BY <2>2, <2>3, Zenon DEF P
    <3>3. QED
      BY <2>2, <3>1, <3>2
  <2> HIDE DEF rest
  <2>5. /\ Len(<<Head(s)>> \o rest) = Len(rest) + 1
        /\ ToSet(<<Head(s)>> \o rest) = {Head(s)} \cup ToSet(rest)
    BY <2>4, MembersAdded
  <2>6. Len(merge[<<s, t>>]) = Len(s) + Len(t)
    BY <1>5, <2>1, <2>4, <2>5
  <2>7. ToSet(merge[<<s, t>>]) = ToSet(s) \cup ToSet(t)
    BY <2>1, <2>4, <2>5
  <2>8. QED
    BY <1>5, <1>6, <2>6, <2>7 DEF P
<1>10. CASE s # <<>> /\ t # <<>> /\ ~ (Compare(order, Head(s), Head(t)) <= 0)
  <2> DEFINE rest == merge[<<s, Tail(t)>>]
  <2>1. merge[<<s, t>>] = <<Head(t)>> \o rest
    BY <1>10, Zenon DEF Merges
  <2>2. /\ Head(t) \in T /\ Tail(t) \in Seq(T) /\ Len(Tail(t)) = Len(t) - 1
        /\ ToSet(t) = {Head(t)} \cup ToSet(Tail(t))
    BY <1>10, Members
  <2>3. P(s, Tail(t))
    <3>1. Tail(t) \in Seq(T) /\ Len(s) + Len(Tail(t)) < n
      BY <1>5, <2>2
    <3>2. QED
      BY <1>4, <3>1
  <2>4. /\ rest \in Seq(T) /\ Head(t) \in T /\ Len(rest) = Len(s) + Len(t) - 1
        /\ ToSet(rest) \cup {Head(t)} = ToSet(s) \cup ToSet(t)
    <3>1. rest \in Seq(T) /\ Len(rest) = Len(s) + Len(t) - 1
      BY <1>5, <2>2, <2>3 DEF P
    <3>2. ToSet(rest) \cup {Head(t)} = ToSet(s) \cup ToSet(t)
      BY <2>2, <2>3, Zenon DEF P
    <3>3. QED
      BY <2>2, <3>1, <3>2
  <2> HIDE DEF rest
  <2>5. /\ Len(<<Head(t)>> \o rest) = Len(rest) + 1
        /\ ToSet(<<Head(t)>> \o rest) = {Head(t)} \cup ToSet(rest)
    BY <2>4, MembersAdded
  <2>6. Len(merge[<<s, t>>]) = Len(s) + Len(t)
    BY <1>5, <2>1, <2>4, <2>5
  <2>7. ToSet(merge[<<s, t>>]) = ToSet(s) \cup ToSet(t)
    BY <2>1, <2>4, <2>5
  <2>8. QED
    BY <1>5, <1>6, <2>6, <2>7 DEF P
<1>11. QED
  BY <1>7, <1>8, <1>9, <1>10

\* s holds the first n files of l, and t the others; split_list makes these two lists.
Halves(T, l, n, s, t) ==
    /\ n \in 1..(Len(l) - 1) /\ s \in Seq(T) /\ t \in Seq(T)
    /\ SplitList(l) = <<s, t>> /\ Len(s) = n /\ Len(t) = Len(l) - n
    /\ \A i \in 1..n : s[i] = l[i]
    /\ \A i \in 1..(Len(l) - n) : t[i] = l[i + n]

\* split_list cuts a list of two files or more into its first files and the others.
LEMMA SplitListHalves ==
    ASSUME NEW T, NEW l \in Seq(T), ~ (Len(l) <= 1)
    PROVE  \E n, s, t : Halves(T, l, n, s, t)
<1> DEFINE n == (Len(l) + 1) \div 2
           s == SubSeq(l, 1, n)
           t == SubSeq(l, n + 1, Len(l))
           len == Len(l)
<1>1. len \in Nat /\ len >= 2
  OBVIOUS
<1>2. n \in 1..(len - 1)
  <2> HIDE DEF len
  <2> DEFINE k == (len + 1) \div 2
  <2>1. k \in Nat /\ 2 * k <= len + 1 /\ len + 1 <= 2 * k + 1
    BY <1>1
  <2> HIDE DEF k
  <2>2. k \in 1..(len - 1)
    BY <1>1, <2>1
  <2>3. QED
    BY <2>2 DEF k, len
<1> HIDE DEF n
<1>3. s \in Seq(T) /\ Len(s) = n /\ \A i \in 1..n : s[i] = l[i]
  BY <1>1, <1>2
<1>4. t \in Seq(T) /\ Len(t) = len - n /\ \A i \in 1..(len - n) : t[i] = l[i + n]
  BY <1>1, <1>2
<1>5. SplitList(l) = <<s, t>>
  BY DEF SplitList, n
<1> HIDE DEF s, t
<1>6. Halves(T, l, n, s, t)
  BY <1>2, <1>3, <1>4, <1>5 DEF Halves
<1>7. QED
  BY <1>6

\* split_list cuts a list of two files or more into two shorter ones.
LEMMA SplitListCuts ==
    ASSUME NEW T, NEW l \in Seq(T), ~ (Len(l) <= 1)
    PROVE  \E s, t \in Seq(T) :
               /\ SplitList(l) = <<s, t>>
               /\ Len(s) < Len(l) /\ Len(t) < Len(l) /\ Len(s) + Len(t) = Len(l)
               /\ ToSet(s) \cup ToSet(t) = ToSet(l)
<1> DEFINE len == Len(l)
<1>1. len \in Nat /\ len >= 2
  OBVIOUS
<1>2. PICK n, s, t : Halves(T, l, n, s, t)
  BY SplitListHalves
<1>3. /\ n \in 1..(len - 1) /\ s \in Seq(T) /\ t \in Seq(T)
      /\ SplitList(l) = <<s, t>> /\ Len(s) = n /\ Len(t) = len - n
      /\ \A i \in 1..n : s[i] = l[i]
      /\ \A i \in 1..(len - n) : t[i] = l[i + n]
  BY <1>2 DEF Halves
<1>4. /\ ToSet(s) = {s[i] : i \in 1..n} /\ ToSet(t) = {t[i] : i \in 1..(len - n)}
      /\ ToSet(l) = {l[i] : i \in 1..len}
  BY <1>3, Members
<1>5. ToSet(s) \cup ToSet(t) = ToSet(l)
  <2>1. ASSUME NEW i \in 1..len PROVE l[i] \in ToSet(s) \cup ToSet(t)
    <3>1. CASE i <= n
      <4>1. i \in 1..n
        BY <1>1, <1>3, <3>1
      <4>2. QED
        BY <1>3, <1>4, <4>1
    <3>2. CASE ~ (i <= n)
      <4>1. i - n \in 1..(len - n) /\ (i - n) + n = i
        BY <1>1, <1>3, <3>2
      <4>2. t[i - n] = l[i]
        BY <1>3, <4>1
      <4>3. QED
        BY <1>4, <4>1, <4>2
    <3>3. QED
      BY <3>1, <3>2
  <2>2. \A i \in 1..n : i \in 1..len
    BY <1>1, <1>3
  <2>3. \A i \in 1..(len - n) : i + n \in 1..len
    BY <1>1, <1>3
  <2>4. \A i \in 1..n : s[i] \in ToSet(l)
    BY <1>3, <1>4, <2>2
  <2>5. \A i \in 1..(len - n) : t[i] \in ToSet(l)
    BY <1>3, <1>4, <2>3
  <2>6. QED
    BY <1>4, <2>1, <2>4, <2>5
<1>6. Len(s) < len /\ Len(t) < len /\ Len(s) + Len(t) = len
  BY <1>1, <1>3
<1>7. QED
  BY <1>3, <1>5, <1>6

(* The equation that merge_sort computes by. *)
Sorts(sort, merge, T) ==
    \A l \in Seq(T) :
        /\ sort[l] \in Seq(T)
        /\ sort[l] = IF Len(l) <= 1 THEN l
                     ELSE merge[<<sort[SplitList(l)[1]], sort[SplitList(l)[2]]>>]

\* merge_sort obeys it.
LEMMA MergeSortSorts ==
    ASSUME NEW order, NEW T PROVE Sorts(MergeSort(order, T), SortedMerge(order, T), T)
<1> DEFINE merge == SortedMerge(order, T)
           D == Seq(T)
           Shorter(l) == {k \in D : Len(k) < Len(l)}
           pre == [l \in D |-> Shorter(l)]
           m == [l \in D |-> Len(l)]
           Body(h, l) == IF Len(l) <= 1 THEN l
                         ELSE merge[<<h[SplitList(l)[1]], h[SplitList(l)[2]]>>]
           F == [h \in [D -> D] |-> [l \in D |-> Body(h, l)]]
           f == MergeSort(order, T)
<1>0. Merges(merge, order, T)
  BY SortedMergeMerges
<1>1. WellFoundedBy(pre, D)
  <2>1. \A l \in D : m[l] \in Nat
    OBVIOUS
  <2>2. pre \in [D -> SUBSET D]
    OBVIOUS
  <2>3. \A l \in D : \A k \in pre[l] : m[k] < m[l]
    <3>1. \A l \in D : m[l] = Len(l)
      OBVIOUS
    <3> HIDE DEF D, m
    <3>2. QED
      BY <3>1
  <2> HIDE DEF D, pre, m
  <2>4. QED
    BY <2>1, <2>2, <2>3, MeasureDecreases
<1>2. ASSUME NEW l \in D, ~ (Len(l) <= 1)
      PROVE  SplitList(l)[1] \in pre[l] /\ SplitList(l)[2] \in pre[l]
  <2>1. PICK s \in D, t \in D : SplitList(l) = <<s, t>> /\ Len(s) < Len(l) /\ Len(t) < Len(l)
    BY <1>2, SplitListCuts
  <2>2. pre[l] = Shorter(l)
    OBVIOUS
  <2>3. s \in Shorter(l) /\ t \in Shorter(l)
    BY <2>1
  <2> HIDE DEF pre, D
  <2>4. QED
    BY <2>1, <2>2, <2>3
<1> HIDE DEF merge
<1>3. ASSUME NEW h \in [D -> D], NEW l \in D PROVE Body(h, l) \in D
  <2>1. \A k \in pre[l] : h[k] \in D
    OBVIOUS
  <2> HIDE DEF pre
  <2>2. CASE ~ (Len(l) <= 1)
    <3> DEFINE u == h[SplitList(l)[1]]
               v == h[SplitList(l)[2]]
    <3>1. u \in Seq(T) /\ v \in Seq(T)
      BY <1>2, <2>1, <2>2
    <3> HIDE DEF u, v
    <3>2. merge[<<u, v>>] \in Seq(T)
      BY <1>0, <3>1 DEF Merges
    <3>3. QED
      BY <2>2, <3>2 DEF u, v
  <2>3. QED
    BY <2>2
<1>4. ASSUME NEW g, NEW h, NEW l \in D, \A k \in pre[l] : g[k] = h[k]
      PROVE  Body(g, l) = Body(h, l)
  <2> HIDE DEF pre, D
  <2> QED
    BY <1>2, <1>4
<1>5. Recursion(F, pre, D, D)
  <2> HIDE DEF D, pre, Body
  <2> QED
    BY <1>1, <1>3, <1>4 DEF Recursion
<1>6. PICK g \in [D -> D] : g = [l \in D |-> Body(g, l)]
  <2>1. <<>> \in D
    OBVIOUS
  <2> HIDE DEF D, pre, Body
  <2>2. QED
    BY <1>5, <2>1, RecursionSolved
<1>7. f = [l \in D |-> Body(f, l)]
  <2>1. f = CHOOSE f1 : f1 = [l \in D |-> Body(f1, l)]
    BY DEF MergeSort, merge
  <2> HIDE DEF f, D, Body
  <2>2. QED
    BY <1>6, <2>1
<1>8. \A l \in D : f[l] = g[l]
  <2> HIDE DEF f, D, pre, Body
  <2> QED
    BY <1>1, <1>4, <1>6, <1>7, SameRecursion
<1>9. ASSUME NEW l \in Seq(T) PROVE f[l] \in Seq(T) /\ f[l] = Body(f, l)
  <2>1. l \in D
    OBVIOUS
  <2> HIDE DEF f, D, Body
  <2>2. f[l] \in D /\ f[l] = Body(f, l)
    BY <1>6, <1>7, <1>8, <2>1
  <2>3. QED
    BY <2>2 DEF D
<1> HIDE DEF f
<1>10. Sorts(f, merge, T)
  BY <1>9 DEF Sorts
<1>11. QED
  BY <1>10 DEF f, merge

\* Sorting keeps every file of the list.
LEMMA MergeSortPermutes ==
    ASSUME NEW order, NEW T, NEW l0 \in Seq(T)
    PROVE  LET l == MergeSort(order, T)[l0]
           IN  l \in Seq(T) /\ Len(l) = Len(l0) /\ ToSet(l) = ToSet(l0)
<1> DEFINE sort == MergeSort(order, T)
           merge == SortedMerge(order, T)
           P(l) == sort[l] \in Seq(T) /\ Len(sort[l]) = Len(l) /\ ToSet(sort[l]) = ToSet(l)
           Bad == {n \in Nat : \E l \in Seq(T) : n = Len(l) /\ ~ P(l)}
<1>1. Permutes(merge, T) /\ Sorts(sort, merge, T)
  BY SortedMergeMerges, SortedMergePermutes, MergeSortSorts
<1> HIDE DEF sort, merge
<1>2. SUFFICES ASSUME Bad # {} PROVE FALSE
  <2>1. Len(l0) \in Nat
    OBVIOUS
  <2> HIDE DEF P
  <2>2. P(l0)
    BY <2>1
  <2>3. QED
    BY <2>2 DEF P, sort
<1>3. PICK n \in Bad : \A k \in Bad : n <= k
  <2>1. Bad \in SUBSET Nat
    OBVIOUS
  <2> HIDE DEF Bad
  <2>2. QED
    BY <1>2, <2>1, LeastNat
<1>4. PICK l \in Seq(T) : n = Len(l) /\ ~ P(l)
  <2> HIDE DEF P
  <2> QED
    OBVIOUS
<1>5. ASSUME NEW k \in Seq(T), Len(k) < n PROVE P(k)
  <2>1. Len(k) \in Nat /\ n \in Nat
    OBVIOUS
  <2> HIDE DEF Bad
  <2>2. Len(k) \notin Bad
    BY <1>3, <1>5, <2>1
  <2> HIDE DEF P
  <2>3. QED
    BY <2>1, <2>2 DEF Bad
<1> HIDE DEF Bad, P
<1>6. CASE Len(l) <= 1
  <2>1. sort[l] = l
    BY <1>1, <1>6, Zenon DEF Sorts
  <2>2. QED
    BY <1>4, <2>1 DEF P
<1>7. CASE ~ (Len(l) <= 1)
  <2>1. PICK s \in Seq(T), t \in Seq(T) :
            /\ SplitList(l) = <<s, t>>
            /\ Len(s) < Len(l) /\ Len(t) < Len(l) /\ Len(s) + Len(t) = Len(l)
            /\ ToSet(s) \cup ToSet(t) = ToSet(l)
    BY <1>7, SplitListCuts
  <2>2. P(s) /\ P(t)
    BY <1>4, <1>5, <2>1
  <2>3. sort[l] = merge[<<sort[SplitList(l)[1]], sort[SplitList(l)[2]]>>]
    BY <1>1, <1>7, Zenon DEF Sorts
  <2>4. SplitList(l)[1] = s /\ SplitList(l)[2] = t
    BY <2>1
  <2>5. sort[l] = merge[<<sort[s], sort[t]>>]
    BY <2>3, <2>4, Zenon
  <2>6. sort[s] \in Seq(T) /\ sort[t] \in Seq(T)
    BY <2>2 DEF P
  <2> DEFINE u == sort[s]
             v == sort[t]
  <2>61. u \in Seq(T) /\ v \in Seq(T)
    BY <2>6
  <2> HIDE DEF u, v
  <2>7. /\ merge[<<u, v>>] \in Seq(T) /\ Len(merge[<<u, v>>]) = Len(u) + Len(v)
        /\ ToSet(merge[<<u, v>>]) = ToSet(u) \cup ToSet(v)
    BY <1>1, <2>61 DEF Permutes
  <2>8. Len(u) = Len(s) /\ Len(v) = Len(t) /\ ToSet(u) = ToSet(s) /\ ToSet(v) = ToSet(t)
    BY <2>2 DEF P, u, v
  <2>9. sort[l] = merge[<<u, v>>]
    BY <2>5 DEF u, v
  <2>10. P(l)
    BY <2>1, <2>7, <2>8, <2>9 DEF P
  <2>11. QED
    BY <1>4, <2>10
<1>8. QED
  BY <1>6, <1>7

----------------------------------------------------------------------------
(* The list of the entries in S holds each of them once. *)

\* Each file read is appended to the list.
LEMMA FoldAppends ==
    ASSUME NEW S, IsFiniteSet(S), NEW T, \A n \in S : FileOf(n) \in T
    PROVE  LET read == FoldSet(LAMBDA n, l : Append(l, FileOf(n)), <<>>, S)
           IN  /\ read \in Seq(T) /\ Len(read) = Cardinality(S)
               /\ ToSet(read) = {FileOf(n) : n \in S}
<1> DEFINE c(s) == CHOOSE x \in s : TRUE
           D == SUBSET S
           Y == Seq(T)
           Rest(s) == IF s = {} THEN {} ELSE {s \ {c(s)}}
           pre == [s \in D |-> Rest(s)]
           m == [s \in D |-> Cardinality(s)]
           Body(h, s) == IF s = {} THEN <<>> ELSE Append(h[s \ {c(s)}], FileOf(c(s)))
           F == [h \in [D -> Y] |-> [s \in D |-> Body(h, s)]]
           f == CHOOSE f : f = [s \in D |-> Body(f, s)]
<1>1. FoldSet(LAMBDA n, l : Append(l, FileOf(n)), <<>>, S) = f[S]
  BY DEF FoldSet, MapThenFoldSet
<1>2. \A s \in D : s # {} => c(s) \in s /\ c(s) \in S /\ FileOf(c(s)) \in T /\ s \ {c(s)} \in D
  <2>1. \A s \in D : s # {} => c(s) \in s
    OBVIOUS
  <2> HIDE DEF c
  <2>2. QED
    BY <2>1
<1>3. \A s \in D : IsFiniteSet(s) /\ Cardinality(s) \in Nat
  BY FS_Subset, FS_CardinalityType
<1>4. \A s \in D : s # {} => Cardinality(s \ {c(s)}) = Cardinality(s) - 1
  <2> HIDE DEF c
  <2> QED
    BY <1>2, <1>3, FS_RemoveElement
<1> HIDE DEF c
<1>5. WellFoundedBy(pre, D)
  <2>1. \A s \in D : m[s] \in Nat
    BY <1>3
  <2>2. \A s \in D : Rest(s) \in SUBSET D
    BY <1>2
  <2>3. \A s \in D : \A t \in Rest(s) : m[t] < m[s]
    BY <1>2, <1>3, <1>4
  <2> HIDE DEF D, m, Rest
  <2>4. pre \in [D -> SUBSET D] /\ \A s \in D : pre[s] = Rest(s)
    BY <2>2
  <2>5. \A s \in D : \A t \in pre[s] : m[t] < m[s]
    BY <2>3, <2>4
  <2> HIDE DEF pre
  <2>6. QED
    BY <2>1, <2>4, <2>5, MeasureDecreases
<1>6. \A s \in D : s # {} => s \ {c(s)} \in pre[s]
  OBVIOUS
<1>7. ASSUME NEW h \in [D -> Y], NEW s \in D PROVE Body(h, s) \in Y
  <2>1. CASE s # {}
    <3>1. h[s \ {c(s)}] \in Seq(T) /\ FileOf(c(s)) \in T
      BY <1>2, <2>1
    <3>2. \A l \in Seq(T), x \in T : Append(l, x) \in Seq(T)
      OBVIOUS
    <3>3. QED
      BY <2>1, <3>1, <3>2
  <2>2. QED
    BY <2>1
<1>8. ASSUME NEW g, NEW h, NEW s \in D, \A t \in pre[s] : g[t] = h[t]
      PROVE  Body(g, s) = Body(h, s)
  <2> HIDE DEF pre, D
  <2> QED
    BY <1>6, <1>8
<1>9. Recursion(F, pre, D, Y)
  <2> HIDE DEF D, Y, pre, Body
  <2> QED
    BY <1>5, <1>7, <1>8 DEF Recursion
<1>10. PICK g \in [D -> Y] : g = [s \in D |-> Body(g, s)]
  <2>1. <<>> \in Y
    OBVIOUS
  <2> HIDE DEF D, Y, pre, Body
  <2>2. QED
    BY <1>9, <2>1, RecursionSolved
<1>11. f = [s \in D |-> Body(f, s)]
  <2> HIDE DEF D, Body
  <2> QED
    BY <1>10
<1> HIDE DEF f
<1>12. \A s \in D : f[s] = g[s]
  <2> HIDE DEF D, Y, pre, Body
  <2> QED
    BY <1>5, <1>8, <1>10, <1>11, SameRecursion
<1>13. \A s \in D : f[s] \in Seq(T) /\ f[s] = Body(f, s)
  <2> HIDE DEF D, Body
  <2> QED
    BY <1>10, <1>11, <1>12
<1> DEFINE P(s) == Len(f[s]) = Cardinality(s) /\ ToSet(f[s]) = {FileOf(n) : n \in s}
           Bad == {s \in D : ~ P(s)}
<1>14. SUFFICES ASSUME Bad # {} PROVE FALSE
  <2>1. S \in D
    OBVIOUS
  <2> HIDE DEF P, D
  <2>2. P(S)
    BY <2>1
  <2>3. QED
    BY <1>1, <1>13, <2>1, <2>2 DEF P
<1>15. PICK s \in Bad : \A t \in SUBSET s : t # s => t \notin Bad
  <2>1. Bad \in SUBSET SUBSET S
    OBVIOUS
  <2> HIDE DEF Bad
  <2>2. QED
    BY <1>14, <2>1, MinimalSubset
<1>16. s \in D /\ ~ P(s)
  <2> HIDE DEF P
  <2> QED
    OBVIOUS
<1>17. CASE s = {}
  <2>1. f[s] = <<>>
    BY <1>13, <1>16, <1>17
  <2>2. Len(f[s]) = 0 /\ ToSet(f[s]) = {}
    BY <2>1 DEF ToSet
  <2>3. Cardinality(s) = 0
    BY <1>17, FS_EmptySet
  <2>4. QED
    BY <1>16, <1>17, <2>2, <2>3
<1>18. CASE s # {}
  <2> DEFINE x == c(s)
             t == s \ {x}
             l == f[t]
  <2>1. x \in s /\ FileOf(x) \in T /\ t \in D /\ Cardinality(t) = Cardinality(s) - 1
    BY <1>2, <1>4, <1>16, <1>18
  <2>2. P(t)
    <3>1. t # s
      BY <2>1
    <3> HIDE DEF P
    <3>2. QED
      BY <1>15, <2>1, <3>1
  <2>3. f[s] = Append(l, FileOf(x)) /\ l \in Seq(T)
    BY <1>13, <1>16, <1>18, <2>1
  <2> HIDE DEF l, x
  <2>4. Len(f[s]) = Len(l) + 1 /\ ToSet(f[s]) = {FileOf(x)} \cup ToSet(l)
    <3> DEFINE file == FileOf(x)
    <3>1. file \in T /\ l \in Seq(T) /\ f[s] = Append(l, file)
      BY <2>1, <2>3
    <3> HIDE DEF file
    <3>2. Len(Append(l, file)) = Len(l) + 1 /\ ToSet(Append(l, file)) = {file} \cup ToSet(l)
      BY <3>1, MembersAdded
    <3>3. QED
      BY <3>1, <3>2 DEF file
  <2>5. Len(l) = Cardinality(t) /\ ToSet(l) = {FileOf(n) : n \in t}
    BY <2>2 DEF l
  <2>6. Len(f[s]) = Cardinality(s)
    <3>1. Cardinality(s) \in Nat
      BY <1>3, <1>16
    <3> HIDE DEF t
    <3>2. QED
      BY <2>1, <2>4, <2>5, <3>1
  <2>7. {FileOf(x)} \cup {FileOf(n) : n \in t} = {FileOf(n) : n \in s}
    BY <2>1, Zenon
  <2>8. QED
    BY <1>16, <2>4, <2>5, <2>6, <2>7
<1>19. QED
  BY <1>17, <1>18

(* l has each member of S once, and nothing else. *)
NoRepeats(l) == \A j, k \in 1..Len(l) : l[j] = l[k] => j = k
Enumerates(l, S) == l \in Seq(S) /\ ToSet(l) = S /\ NoRepeats(l)

\* A list as long as the set of its members repeats none of them.
LEMMA ShortestList ==
    ASSUME NEW S, IsFiniteSet(S), NEW l \in Seq(S), ToSet(l) = S, Len(l) = Cardinality(S)
    PROVE  Enumerates(l, S)
<1> DEFINE I == 1..Len(l)
<1>1. l \in [I -> S] /\ S = {l[i] : i \in I}
  BY Members
<1>2. IsFiniteSet(I) /\ Cardinality(I) = Len(l)
  <2>1. Len(l) \in Nat
    OBVIOUS
  <2>2. QED
    BY <2>1, FS_Interval
<1> HIDE DEF I
<1>3. l \in Surjection(I, S)
  BY <1>1 DEF Surjection
<1>4. l \in Injection(I, S)
  BY <1>2, <1>3, FS_Surjection
<1>5. \A j, k \in I : l[j] = l[k] => j = k
  BY <1>1, <1>4 DEF Injection, IsInjective
<1>6. QED
  BY <1>5 DEF Enumerates, NoRepeats, I

Entry == Nodes \cup {Self, Up}

LEMMA EntriesFinite == ASSUME NEW S \in SUBSET Entry PROVE IsFiniteSet(S)
<1>1. IsFiniteSet(Nodes)
  BY NodesAssumption
<1>2. IsFiniteSet({Self} \cup {Up})
  BY FS_Singleton, FS_Union
<1>3. {Self} \cup {Up} = {Self, Up}
  OBVIOUS
<1>4. IsFiniteSet(Entry)
  BY <1>1, <1>2, <1>3, FS_Union DEF Entry
<1>5. QED
  BY <1>4, FS_Subset

\* The sorted list.
LEMMA SortedListEnumerates ==
    ASSUME NEW S \in SUBSET Entry PROVE Enumerates(SortedList(S), S)
<1> DEFINE read == FoldSet(LAMBDA n, l : Append(l, FileOf(n)), <<>>, S)
           T == {FileOf(n) : n \in S}
           inOrder == MergeSort(flags, Files)[read]
           l == SortedList(S)
<1>1. IsFiniteSet(S)
  BY EntriesFinite
<1>2. \A n \in S : FileOf(n) \in Files
  BY DEF Files, Entry
<1>3. read \in Seq(Files) /\ Len(read) = Cardinality(S) /\ ToSet(read) = T
  <2> HIDE DEF T
  <2> QED
    BY <1>1, <1>2, FoldAppends DEF T
<1>4. l = NodesOf[inOrder]
  BY DEF SortedList
<1> HIDE DEF read, l
<1>5. inOrder \in Seq(Files) /\ Len(inOrder) = Cardinality(S) /\ ToSet(inOrder) = T
  <2> HIDE DEF T
  <2> QED
    BY <1>3, MergeSortPermutes
<1>6. \A n \in S : FileOf(n).node = n
  BY DEF FileOf
<1> HIDE DEF inOrder
<1>7. l = [k \in 1..Len(inOrder) |-> inOrder[k].node]
  BY <1>4, <1>5 DEF NodesOf
<1>8. T = {inOrder[k] : k \in 1..Len(inOrder)}
  BY <1>5, Members
<1>9. \A k \in 1..Len(inOrder) : inOrder[k].node \in S
  BY <1>6, <1>8
<1>10. l \in Seq(S) /\ Len(l) = Cardinality(S)
  <2>1. Len(inOrder) \in Nat
    BY <1>5
  <2>2. QED
    BY <1>5, <1>7, <1>9, <2>1
<1>11. ToSet(l) = S
  <2>1. ToSet(l) = {inOrder[k].node : k \in 1..Len(inOrder)}
    BY <1>7 DEF ToSet
  <2>2. \A n \in S : \E k \in 1..Len(inOrder) : inOrder[k] = FileOf(n)
    BY <1>8
  <2>3. QED
    BY <1>6, <1>9, <2>1, <2>2
<1>12. Enumerates(l, S)
  BY <1>1, <1>10, <1>11, ShortestList
<1>13. QED
  BY <1>12 DEF l

----------------------------------------------------------------------------
(* The paths are the words that are not options, each kept once. *)

Words(args) == {i \in 1..Len(args) : ~IsOption(args[i])}

(* at tells which of the first i words each member of r is. *)
KeptFrom(at, r, args, i) ==
    /\ at \in [1..Len(r) -> {w \in Words(args) : w <= i}]
    /\ \A k \in 1..Len(r) : r[k] = args[at[k]]
    /\ \A j, k \in 1..Len(r) : at[j] = at[k] => j = k
    /\ \A w \in Words(args) : w <= i => \E k \in 1..Len(r) : at[k] = w

LEMMA PathsOfWords ==
    ASSUME NEW W, NEW args \in Seq(W)
    PROVE  PathsOf(args) \in Seq(W) /\ \E at : KeptFrom(at, PathsOf(args), args, Len(args))
<1> DEFINE len == Len(args)
           D == 0..len
           Y == Seq(W)
           Prev(i) == IF i = 0 THEN {} ELSE {i - 1}
           pre == [i \in D |-> Prev(i)]
           m == [i \in D |-> i]
           Body(h, i) == IF i = 0 THEN <<>>
                         ELSE IF IsOption(args[i]) THEN h[i - 1]
                         ELSE Append(h[i - 1], args[i])
           F == [h \in [D -> Y] |-> [i \in D |-> Body(h, i)]]
           f == CHOOSE f : f = [i \in D |-> Body(f, i)]
<1>1. PathsOf(args) = f[len]
  BY DEF PathsOf
<1>2. len \in Nat /\ \A i \in 1..len : args[i] \in W
  OBVIOUS
<1> HIDE DEF len
<1>3. \A i \in D : i \in Nat /\ (i # 0 => i - 1 \in D /\ i - 1 < i /\ i \in 1..len)
  BY <1>2
<1>4. WellFoundedBy(pre, D)
  <2>1. \A i \in D : m[i] \in Nat
    BY <1>3
  <2>2. \A i \in D : Prev(i) \in SUBSET D /\ \A j \in Prev(i) : m[j] < m[i]
    BY <1>3
  <2> HIDE DEF D, m, Prev
  <2>3. pre \in [D -> SUBSET D] /\ \A i \in D : pre[i] = Prev(i)
    BY <2>2
  <2> HIDE DEF pre
  <2>4. \A i \in D : \A j \in pre[i] : m[j] < m[i]
    BY <2>2, <2>3
  <2>5. QED
    BY <2>1, <2>3, <2>4, MeasureDecreases
<1>5. \A i \in D : i # 0 => i - 1 \in pre[i]
  OBVIOUS
<1>6. ASSUME NEW h \in [D -> Y], NEW i \in D PROVE Body(h, i) \in Y
  <2>1. CASE i # 0
    <3>1. h[i - 1] \in Seq(W) /\ args[i] \in W
      BY <1>2, <1>3, <2>1
    <3>2. \A l \in Seq(W), x \in W : Append(l, x) \in Seq(W)
      OBVIOUS
    <3>3. QED
      BY <2>1, <3>1, <3>2
  <2>2. QED
    BY <2>1
<1>7. ASSUME NEW g, NEW h, NEW i \in D, \A j \in pre[i] : g[j] = h[j]
      PROVE  Body(g, i) = Body(h, i)
  <2> HIDE DEF pre, D
  <2> QED
    BY <1>5, <1>7
<1>8. Recursion(F, pre, D, Y)
  <2> HIDE DEF D, Y, pre, Body
  <2> QED
    BY <1>4, <1>6, <1>7 DEF Recursion
<1>9. PICK g \in [D -> Y] : g = [i \in D |-> Body(g, i)]
  <2>1. <<>> \in Y
    OBVIOUS
  <2> HIDE DEF D, Y, pre, Body
  <2>2. QED
    BY <1>8, <2>1, RecursionSolved
<1>10. f = [i \in D |-> Body(f, i)]
  <2> HIDE DEF D, Body
  <2> QED
    BY <1>9
<1> HIDE DEF f
<1>11. \A i \in D : f[i] = g[i]
  <2> HIDE DEF D, Y, pre, Body
  <2> QED
    BY <1>4, <1>7, <1>9, <1>10, SameRecursion
<1>12. \A i \in D : f[i] \in Seq(W) /\ f[i] = Body(f, i)
  <2> HIDE DEF D, Body
  <2> QED
    BY <1>9, <1>10, <1>11
<1> DEFINE P(i) == \E at : KeptFrom(at, f[i], args, i)
           Bad == {i \in D : ~ P(i)}
<1>13. SUFFICES ASSUME Bad # {} PROVE FALSE
  <2>1. len \in D
    BY <1>2
  <2> HIDE DEF P, D
  <2>2. P(len)
    BY <2>1
  <2>3. QED
    BY <1>1, <1>12, <2>1, <2>2 DEF P, len
<1>14. PICK i \in Bad : \A j \in Bad : i <= j
  <2>1. Bad \in SUBSET Nat
    BY <1>3
  <2> HIDE DEF Bad
  <2>2. QED
    BY <1>13, <2>1, LeastNat
<1>15. i \in D /\ ~ P(i)
  <2> HIDE DEF P
  <2> QED
    OBVIOUS
<1>16. \A w \in Words(args) : w \in Nat /\ w > 0 /\ ~IsOption(args[w])
  BY <1>2 DEF Words
<1>17. CASE i = 0
  <2>1. f[i] = <<>>
    BY <1>12, <1>15, <1>17
  <2>2. KeptFrom(<<>>, <<>>, args, 0)
    BY <1>16 DEF KeptFrom
  <2>3. QED
    BY <1>15, <1>17, <2>1, <2>2
<1>18. CASE i # 0
  <2> DEFINE r == f[i - 1]
             n == Len(r)
  <2>1. i - 1 \in D /\ i - 1 < i /\ i \in 1..len /\ i \in Nat
    BY <1>3, <1>15, <1>18
  <2>2. P(i - 1)
    <3>1. i - 1 \notin Bad
      BY <1>14, <2>1
    <3> HIDE DEF P
    <3>2. QED
      BY <2>1, <3>1
  <2>3. PICK at : KeptFrom(at, r, args, i - 1)
    BY <2>2
  <2>4. r \in Seq(W) /\ n \in Nat
    BY <1>12, <2>1
  <2>5. /\ at \in [1..n -> {w \in Words(args) : w <= i - 1}]
        /\ \A k \in 1..n : r[k] = args[at[k]]
        /\ \A j, k \in 1..n : at[j] = at[k] => j = k
        /\ \A w \in Words(args) : w <= i - 1 => \E k \in 1..n : at[k] = w
    BY <2>3 DEF KeptFrom
  <2>6. CASE IsOption(args[i])
    <3>1. f[i] = r
      BY <1>12, <1>15, <1>18, <2>6
    <3>2. \A w \in Words(args) : w <= i <=> w <= i - 1
      BY <1>16, <2>1, <2>6
    <3> HIDE DEF r
    <3>3. KeptFrom(at, r, args, i)
      BY <2>3, <3>2 DEF KeptFrom
    <3>4. QED
      BY <1>15, <3>1, <3>3
  <2>7. CASE ~IsOption(args[i])
    <3> DEFINE q == Append(r, args[i])
               bt == [k \in 1..(n + 1) |-> IF k = n + 1 THEN i ELSE at[k]]
    <3>1. f[i] = q
      BY <1>12, <1>15, <1>18, <2>7
    <3>2. args[i] \in W /\ i \in Words(args)
      BY <1>2, <2>1, <2>7 DEF Words, len
    <3> HIDE DEF r
    <3>3. /\ Len(q) = n + 1 /\ q[n + 1] = args[i]
          /\ \A k \in 1..(n + 1) : k # n + 1 => q[k] = r[k] /\ k \in 1..n
      BY <2>4, <3>2
    <3>4. \A w \in Words(args) : w <= i => w = i \/ w <= i - 1
      BY <1>16, <2>1
    <3>5. \A k \in 1..n : at[k] \in Words(args) /\ at[k] <= i /\ at[k] # i
      BY <1>16, <2>1, <2>5
    <3>6. n + 1 \in 1..(n + 1) /\ \A k \in 1..n : k \in 1..(n + 1) /\ k # n + 1
      BY <2>4
    <3> HIDE DEF q, n
    <3>61. i <= i
      BY <2>1
    <3>7. bt \in [1..(n + 1) -> {w \in Words(args) : w <= i}]
      BY <3>2, <3>3, <3>5, <3>61
    <3>8. bt[n + 1] = i /\ \A k \in 1..(n + 1) : k # n + 1 => bt[k] = at[k]
      BY <3>6
    <3> HIDE DEF bt
    <3>9. \A k \in 1..(n + 1) : q[k] = args[bt[k]]
      BY <2>5, <3>3, <3>8
    <3>10. \A j, k \in 1..(n + 1) : bt[j] = bt[k] => j = k
      BY <2>5, <3>3, <3>5, <3>8
    <3>11. \A w \in Words(args) : w <= i => \E k \in 1..(n + 1) : bt[k] = w
      BY <2>5, <3>4, <3>6, <3>8
    <3>12. KeptFrom(bt, q, args, i)
      BY <3>3, <3>7, <3>9, <3>10, <3>11 DEF KeptFrom
    <3>13. QED
      BY <1>15, <3>1, <3>12
  <2>8. QED
    BY <2>6, <2>7
<1>19. QED
  BY <1>17, <1>18

----------------------------------------------------------------------------
(* The tree. *)

LEMMA ChildrenWellFounded ==
    /\ WellFoundedBy(Children, Nodes) /\ Children \in [Nodes -> SUBSET Nodes]
    /\ \A m, n \in Nodes : m # n => Children[m] \cap Children[n] = {}
BY TreeAssumption DEF WellFoundedBy

\* What is below a node: itself and what is below its children.
LEMMA BelowIs ==
    /\ \A d \in Nodes : d \in Below[d] /\ Below[d] \subseteq Nodes
    /\ \A d \in Nodes : \A n \in Children[d] : n \in Nodes /\ Below[n] \subseteq Below[d]
    /\ \A d \in Nodes : \A x \in Below[d] : x = d \/ \E n \in Children[d] : x \in Below[n]
<1> DEFINE D == Nodes
           Y == SUBSET Nodes
           Body(h, d) == {d} \cup UNION {h[n] : n \in Children[d]}
           F == [h \in [D -> Y] |-> [d \in D |-> Body(h, d)]]
<1>1. WellFoundedBy(Children, D) /\ Children \in [D -> SUBSET D]
  BY ChildrenWellFounded
<1>2. ASSUME NEW h \in [D -> Y], NEW d \in D PROVE Body(h, d) \in Y
  BY <1>1
<1>3. ASSUME NEW g, NEW h, NEW d \in D, \A n \in Children[d] : g[n] = h[n]
      PROVE  Body(g, d) = Body(h, d)
  BY <1>3
<1>4. Recursion(F, Children, D, Y)
  <2> HIDE DEF D, Y, Body
  <2> QED
    BY <1>1, <1>2, <1>3 DEF Recursion
<1>5. PICK g \in [D -> Y] : g = [d \in D |-> Body(g, d)]
  <2>1. {} \in Y
    OBVIOUS
  <2> HIDE DEF D, Y, Body
  <2>2. QED
    BY <1>4, <2>1, RecursionSolved
<1>6. Below = [d \in D |-> Body(Below, d)]
  <2>1. Below = CHOOSE f : f = [d \in D |-> Body(f, d)]
    BY DEF Below
  <2> HIDE DEF D, Body
  <2>2. QED
    BY <1>5, <2>1
<1>7. \A d \in D : Below[d] = g[d]
  <2> HIDE DEF D, Y, Body
  <2> QED
    BY <1>1, <1>3, <1>5, <1>6, SameRecursion
<1>8. \A d \in D : Below[d] \in Y /\ Below[d] = Body(Below, d)
  <2> HIDE DEF D, Body
  <2> QED
    BY <1>5, <1>6, <1>7
<1>9. QED
  BY <1>1, <1>8

\* What is below something below d is below d.
LEMMA BelowTransitive ==
    ASSUME NEW d \in Nodes, NEW x \in Below[d] PROVE x \in Nodes /\ Below[x] \subseteq Below[d]
<1> DEFINE Bad == {n \in Nodes : \E y \in Below[n] : ~ (Below[y] \subseteq Below[n])}
<1>1. SUFFICES ASSUME Bad # {} PROVE FALSE
  BY BelowIs
<1>2. PICK n \in Bad : Children[n] \cap Bad = {}
  <2>1. Bad \in SUBSET Nodes
    OBVIOUS
  <2> HIDE DEF Bad
  <2>2. QED
    BY <1>1, <2>1, ChildrenWellFounded DEF WellFoundedBy
<1>3. PICK y \in Below[n] : n \in Nodes /\ ~ (Below[y] \subseteq Below[n])
  OBVIOUS
<1>4. PICK m \in Children[n] : y \in Below[m]
  BY <1>3, BelowIs
<1>5. m \in Nodes /\ m \notin Bad /\ Below[m] \subseteq Below[n]
  BY <1>2, <1>3, BelowIs
<1>6. QED
  BY <1>3, <1>4, <1>5

\* A node below d other than d has its directory there as well.
LEMMA ParentBelow ==
    ASSUME NEW d \in Nodes, NEW x \in Below[d], x # d, NEW p \in Nodes, x \in Children[p]
    PROVE  p \in Below[d]
<1> DEFINE Bad == {n \in Nodes : x \in Below[n] /\ x # n /\ p \notin Below[n]}
<1>1. SUFFICES ASSUME Bad # {} PROVE FALSE
  OBVIOUS
<1>2. PICK n \in Bad : Children[n] \cap Bad = {}
  <2>1. Bad \in SUBSET Nodes
    OBVIOUS
  <2> HIDE DEF Bad
  <2>2. QED
    BY <1>1, <2>1, ChildrenWellFounded DEF WellFoundedBy
<1>3. PICK m \in Children[n] : x \in Below[m]
  BY BelowIs
<1>4. m \in Nodes /\ m \notin Bad /\ n \in Nodes /\ n \in Below[n] /\ Below[m] \subseteq Below[n]
  BY <1>2, BelowIs
<1>5. CASE x = m
  BY <1>4, <1>5, ChildrenWellFounded
<1>6. CASE x # m
  BY <1>3, <1>4, <1>6
<1>7. QED
  BY <1>5, <1>6

\* No directory is below its children.
LEMMA NotBelowChild ==
    ASSUME NEW d \in Nodes, NEW n \in Children[d] PROVE d \notin Below[n]
<1> DEFINE Bad == {x \in Nodes : \E y \in Children[x] : x \in Below[y]}
<1>1. SUFFICES ASSUME Bad # {} PROVE FALSE
  OBVIOUS
<1>2. PICK x \in Bad : Children[x] \cap Bad = {}
  <2>1. Bad \in SUBSET Nodes
    OBVIOUS
  <2> HIDE DEF Bad
  <2>2. QED
    BY <1>1, <2>1, ChildrenWellFounded DEF WellFoundedBy
<1>3. PICK y \in Children[x] : x \in Nodes /\ x \in Below[y]
  OBVIOUS
<1>4. y \in Nodes /\ y \notin Bad /\ y \in Below[x]
  BY <1>2, <1>3, BelowIs
<1>5. x # y
  BY <1>2
<1>6. PICK z \in Children[y] : x \in Below[z]
  BY <1>3, <1>4, <1>5, BelowIs
<1>7. z \in Nodes
  BY <1>4, BelowIs
<1>8. Below[x] \subseteq Below[z]
  BY <1>6, <1>7, BelowTransitive
<1>9. QED
  BY <1>4, <1>6, <1>8

\* Two nodes are not below each other.
LEMMA BelowAntisymmetric ==
    ASSUME NEW d \in Nodes, NEW x \in Below[d], d \in Below[x] PROVE x = d
<1>1. SUFFICES ASSUME x # d PROVE FALSE
  OBVIOUS
<1>2. PICK n \in Children[d] : x \in Below[n]
  BY <1>1, BelowIs
<1>3. n \in Nodes /\ d \notin Below[n]
  BY BelowIs, NotBelowChild
<1>4. Below[x] \subseteq Below[n]
  BY <1>2, <1>3, BelowTransitive
<1>5. QED
  BY <1>3, <1>4

\* Of two nodes with something below both of them one is below the other.
LEMMA BelowNested ==
    ASSUME NEW a \in Nodes, NEW b \in Nodes, NEW x \in Below[a], x \in Below[b]
    PROVE  a \in Below[b] \/ b \in Below[a]
<1> DEFINE Bad == {n \in Nodes : x \in Below[n] /\ n \notin Below[b] /\ b \notin Below[n]}
<1>1. SUFFICES ASSUME Bad # {} PROVE FALSE
  OBVIOUS
<1>2. PICK n \in Bad : Children[n] \cap Bad = {}
  <2>1. Bad \in SUBSET Nodes
    OBVIOUS
  <2> HIDE DEF Bad
  <2>2. QED
    BY <1>1, <2>1, ChildrenWellFounded DEF WellFoundedBy
<1>3. PICK m \in Children[n] : x \in Below[m]
  BY BelowIs
<1>4. m \in Nodes /\ m \notin Bad /\ n \in Nodes /\ m \in Below[m] /\ Below[m] \subseteq Below[n]
  BY <1>2, BelowIs
<1>5. CASE m \in Below[b]
  <2>1. m # b
    BY <1>4
  <2>2. n \in Below[b]
    BY <1>4, <1>5, <2>1, ParentBelow
  <2>3. QED
    BY <2>2
<1>6. QED
  BY <1>3, <1>4, <1>5

\* Two entries of one directory have nothing below both of them.
LEMMA SiblingsApart ==
    ASSUME NEW d \in Nodes, NEW m \in Children[d], NEW n \in Children[d], m # n
    PROVE  m \notin Below[n] /\ Below[m] \cap Below[n] = {}
<1>1. /\ m \in Nodes /\ n \in Nodes /\ d \notin Below[m] /\ d \notin Below[n]
  BY BelowIs, NotBelowChild
<1>2. m \notin Below[n] /\ n \notin Below[m]
  BY <1>1, ParentBelow
<1>3. QED
  BY <1>1, <1>2, BelowNested

----------------------------------------------------------------------------
(* What listing a directory or a file can do. *)

Shown == Nodes \cup {Self, Up, Unnamed}

\* The first k members of a list.
LEMMA Prefix ==
    ASSUME NEW T, NEW l \in Seq(T), NEW k \in 0..Len(l)
    PROVE  SubSeq(l, 1, k) \in Seq(T) /\ (k = Len(l) => SubSeq(l, 1, k) = l)
<1> DEFINE p == SubSeq(l, 1, k)
<1>1. p \in Seq(T) /\ Len(p) = k /\ \A i \in 1..k : p[i] = l[i]
  OBVIOUS
<1>2. Len(l) \in Nat
  OBVIOUS
<1> HIDE DEF p
<1>3. QED
  BY <1>1, <1>2 DEF p

(* A listing of d is added, with all of shown but the names that malloc failed for, unless *)
(* ft_ls crashes.                                                                          *)
Adds(d, shown, calls) ==
    /\ failures' \in calls..MaxFailures /\ pc' \in {"exec_ls", "crashed"}
    /\ \/ listed' = listed /\ pc' = "crashed"
       \/ \E lines \in Seq(Shown) :
             /\ listed' = Append(listed, [path |-> d, shown |-> lines])
             /\ pc' = "exec_ls" =>
                   \E nulls \in SUBSET (1..Len(shown)) :
                       /\ failures' = calls + Cardinality(nulls)
                       /\ lines = WithoutNames(shown, nulls)

LEMMA ShowAdds ==
    ASSUME NEW d, NEW shown \in Seq(Entry), NEW lost \in Nat, failures \in Nat,
           pc = "exec_ls", Show(d, shown, lost)
    PROVE  Adds(d, shown, failures + lost)
<1> DEFINE nameless == {k \in 1..Len(shown) : "l" \in flags /\ shown[k] \in Nameless}
           upto == IF nameless = {} THEN Len(shown) ELSE Min(nameless) - 1
           compared == {k \in 1..Len(shown) : ~NameCompared(shown, k)}
           lines(nulls, k) ==
               Append(listed, [path |-> d, shown |-> SubSeq(WithoutNames(shown, nulls), 1, k)])
<1>1. PICK nulls \in Losses(compared) :
          \/ /\ Fail(lost + Cardinality(nulls)) /\ listed' = lines(nulls, upto)
             /\ pc' = IF nameless = {} THEN pc ELSE "crashed"
          \/ /\ Fail(lost + Cardinality(nulls) + 1) /\ shown # <<>> /\ pc' = "crashed"
             /\ \/ listed' = listed
                \/ "l" \in flags /\ \E k \in 0..Min({upto, Len(shown) - 1}) :
                       listed' = lines(nulls, k)
  BY DEF Show
<1>2. Len(shown) \in Nat /\ MaxFailures \in Nat
  BY BoundsAssumption
<1>3. upto \in 0..Len(shown) /\ (nameless = {} => upto = Len(shown))
  <2>1. nameless \in SUBSET Int /\ IsFiniteSet(nameless) /\ nameless \subseteq 1..Len(shown)
    <3>1. IsFiniteSet(1..Len(shown))
      BY <1>2, FS_Interval
    <3>2. QED
      BY <3>1, FS_Subset
  <2> HIDE DEF nameless
  <2>2. nameless # {} => Min(nameless) \in 1..Len(shown)
    BY <2>1, BoundsExist DEF Min
  <2>3. QED
    BY <1>2, <2>2
<1>4. nulls \in SUBSET (1..Len(shown)) /\ Cardinality(nulls) \in Nat
  <2>1. nulls \in SUBSET (1..Len(shown))
    BY <1>1 DEF Losses, kSubset
  <2>2. IsFiniteSet(1..Len(shown))
    BY <1>2, FS_Interval
  <2>3. IsFiniteSet(nulls)
    BY <2>1, <2>2, FS_Subset
  <2>4. QED
    BY <2>1, <2>3, FS_CardinalityType
<1> DEFINE calls == Cardinality(nulls)
           left == WithoutNames(shown, nulls)
<1>5. left \in Seq(Shown) /\ Len(left) = Len(shown)
  <2>1. \A k \in 1..Len(shown) : (IF k \in nulls THEN Unnamed ELSE shown[k]) \in Shown
    BY DEF Entry, Shown
  <2>2. left \in [1..Len(shown) -> Shown]
    BY <2>1 DEF WithoutNames
  <2>3. QED
    BY <1>2, <2>2
<1>6. ASSUME NEW n \in Nat, Fail(lost + calls + n)
      PROVE  failures' \in (failures + lost)..MaxFailures /\ failures' = failures + lost + calls + n
  <2> HIDE DEF calls
  <2>1. calls \in Nat
    BY <1>4 DEF calls
  <2>2. QED
    BY <1>2, <1>6, <2>1 DEF Fail
<1> HIDE DEF nameless, upto, compared
<1>7. CASE /\ Fail(lost + calls) /\ listed' = lines(nulls, upto)
           /\ pc' = IF nameless = {} THEN pc ELSE "crashed"
  <2> DEFINE names == SubSeq(left, 1, upto)
  <2>1. names \in Seq(Shown) /\ (nameless = {} => names = left)
    <3> HIDE DEF left
    <3> QED
      BY <1>3, <1>5, Prefix
  <2>2. listed' = Append(listed, [path |-> d, shown |-> names])
    BY <1>7
  <2>3. failures' \in (failures + lost)..MaxFailures /\ failures' = failures + lost + calls
    <3>1. lost + calls + 0 = lost + calls /\ failures + lost + calls + 0 = failures + lost + calls
      BY <1>4
    <3>2. QED
      BY <1>6, <1>7, <3>1
  <2> HIDE DEF names, left, calls
  <2>4. pc' \in {"exec_ls", "crashed"} /\ (pc' = "exec_ls" => nameless = {})
    BY <1>7
  <2>5. QED
    BY <1>4, <2>1, <2>2, <2>3, <2>4 DEF Adds, left, calls
<1>8. CASE Fail(lost + calls + 1) /\ pc' = "crashed" /\ listed' = listed
  BY <1>6, <1>8 DEF Adds
<1>9. ASSUME Fail(lost + calls + 1), shown # <<>>, pc' = "crashed",
             NEW k \in 0..Min({upto, Len(shown) - 1}), listed' = lines(nulls, k)
      PROVE  Adds(d, shown, failures + lost)
  <2> DEFINE names == SubSeq(left, 1, k)
             two == {upto, Len(shown) - 1}
  <2>1. k \in 0..Len(shown)
    <3>1. Len(shown) \in Nat \ {0}
      BY <1>9
    <3>2. two \in SUBSET Int /\ two # {}
      BY <1>3, <3>1
    <3>3. IsFiniteSet({upto} \cup {Len(shown) - 1}) /\ two = {upto} \cup {Len(shown) - 1}
      BY FS_Singleton, FS_Union
    <3>4. IsFiniteSet(two)
      BY <3>3, Zenon
    <3> DEFINE least == Min(two)
    <3>5. least \in two
      <4> HIDE DEF two
      <4> QED
        BY <3>2, <3>4, BoundsExist DEF Min
    <3>6. k \in 0..least
      OBVIOUS
    <3> HIDE DEF least
    <3>7. QED
      BY <1>3, <3>1, <3>5, <3>6
  <2>2. names \in Seq(Shown)
    <3> HIDE DEF left
    <3> QED
      BY <1>5, <2>1, Prefix
  <2>3. listed' = Append(listed, [path |-> d, shown |-> names])
    BY <1>9
  <2>4. failures' \in (failures + lost)..MaxFailures
    BY <1>6, <1>9
  <2> HIDE DEF names
  <2>5. QED
    BY <1>9, <2>2, <2>3, <2>4 DEF Adds
<1>10. QED
  BY <1>1, <1>7, <1>8, <1>9

(* The entries of d that are to be shown once `gone` are removed, and that lines lacks at    *)
(* most n of them.                                                                           *)
Left(d, gone) == {m \in {Self, Up} \cup (Children[d] \ gone) : Hidden(m) => "a" \in flags}
LacksAtMost(n, d, lines, gone) == Cardinality(Left(d, gone) \ ToSet(lines)) <= n

(* What listing d comes to. *)
Listing(d) ==
    /\ failures' \in failures..MaxFailures /\ pc' \in {"exec_ls", "crashed"}
    /\ removed \subseteq removed' /\ removed' \subseteq Nodes
    /\ errors \subseteq errors' /\ errors' \subseteq errors \cup removed' \cup ({d} \cap Unreadable)
    /\ \/ listed' = listed /\ (pc' = "crashed" \/ d \in removed' \cup Unreadable)
       \/ \E lines \in Seq(Shown) :
             /\ listed' = Append(listed, [path |-> d, shown |-> lines])
             /\ pc' = "exec_ls" /\ Kind[d] = "dir" => LacksAtMost(failures', d, lines, removed')

LEMMA NodeNames ==
    ASSUME NEW n \in Nodes
    PROVE  /\ n \notin {Self, Up} /\ (IsDir(n) <=> Kind[n] = "dir") /\ (Exists(n) <=> n \notin removed)
           /\ (CanOpen(n) <=> n \notin removed \cup Unreadable)
BY NodesAssumption DEF IsDir, Exists, CanOpen

LEMMA EntriesAre == ASSUME NEW d \in Nodes
    PROVE  Entries(d) = {Self, Up} \cup (Children[d] \ removed) /\ Entries(d) \in SUBSET Entry
<1>1. Children[d] \subseteq Nodes
  BY ChildrenWellFounded
<1>2. \A n \in Children[d] : Exists(n) <=> n \notin removed
  BY <1>1, NodeNames
<1>3. QED
  BY <1>1, <1>2 DEF Entries, Entry

\* A directory's lines lack one entry per call of malloc that failed.
LEMMA LinesLack ==
    ASSUME NEW C \in SUBSET Entry, NEW lost \in SUBSET C, NEW shown, Enumerates(shown, C \ lost),
           NEW nulls \in SUBSET (1..Len(shown)), NEW n \in Nat,
           Cardinality(lost) + Cardinality(nulls) <= n
    PROVE  Cardinality(C \ ToSet(WithoutNames(shown, nulls))) <= n
<1> DEFINE lines == WithoutNames(shown, nulls)
           unnamed == {shown[k] : k \in nulls}
           most == lost \cup unnamed
           name == [k \in nulls |-> shown[k]]
<1>1. IsFiniteSet(lost) /\ Cardinality(lost) \in Nat
  BY EntriesFinite, FS_CardinalityType
<1>2. shown \in Seq(C \ lost) /\ ToSet(shown) = C \ lost
  BY DEF Enumerates
<1>3. IsFiniteSet(nulls) /\ Cardinality(nulls) \in Nat
  <2>1. IsFiniteSet(1..Len(shown))
    BY <1>2, FS_Interval
  <2>2. IsFiniteSet(nulls)
    BY <2>1, FS_Subset
  <2>3. QED
    BY <2>2, FS_CardinalityType
<1>4. IsFiniteSet(unnamed) /\ Cardinality(unnamed) <= Cardinality(nulls)
  <2>1. name \in Surjection(nulls, unnamed)
    BY DEF Surjection
  <2> HIDE DEF name, unnamed
  <2>2. QED
    BY <1>3, <2>1, FS_Surjection
<1>5. C \ ToSet(lines) \in SUBSET most
  <2>1. SUFFICES ASSUME NEW x \in C \ most PROVE x \in ToSet(lines)
    OBVIOUS
  <2>2. x \in {shown[i] : i \in 1..Len(shown)}
    BY <1>2, Members
  <2>3. PICK i \in 1..Len(shown) : shown[i] = x
    BY <2>2
  <2>4. i \notin nulls
    BY <2>3
  <2>5. lines[i] = x /\ DOMAIN lines = 1..Len(shown)
    BY <2>3, <2>4 DEF WithoutNames
  <2>6. QED
    BY <2>5 DEF ToSet
<1> HIDE DEF lines, unnamed
<1>6. /\ IsFiniteSet(most) /\ Cardinality(unnamed) \in Nat /\ Cardinality(lost \cap unnamed) \in Nat
      /\ Cardinality(most) = Cardinality(lost) + Cardinality(unnamed) - Cardinality(lost \cap unnamed)
  <2>1. IsFiniteSet(lost \cap unnamed)
    BY <1>1, FS_Subset
  <2>2. QED
    BY <1>1, <1>4, <2>1, FS_Union, FS_CardinalityType
<1> HIDE DEF most
<1>7. /\ Cardinality(C \ ToSet(lines)) <= Cardinality(most)
      /\ Cardinality(C \ ToSet(lines)) \in Nat /\ Cardinality(most) \in Nat
  BY <1>5, <1>6, FS_Subset, FS_CardinalityType
<1> DEFINE x == Cardinality(C \ ToSet(lines))
           y == Cardinality(most)
           z == Cardinality(lost)
           u == Cardinality(unnamed)
           v == Cardinality(nulls)
           w == Cardinality(lost \cap unnamed)
<1>8. /\ x \in Nat /\ y \in Nat /\ z \in Nat /\ u \in Nat /\ v \in Nat /\ w \in Nat
      /\ x <= y /\ y = z + u - w /\ u <= v /\ z + v <= n
  BY <1>1, <1>3, <1>4, <1>6, <1>7
<1> HIDE DEF x, y, z, u, v, w
<1>9. x <= n
  BY <1>8
<1>10. QED
  BY <1>9 DEF x, lines

\* list_directory.
LEMMA ListDirectoryLists ==
    ASSUME NEW d \in Nodes, TypeOK, pc = "exec_ls", ListDirectory(d) PROVE Listing(d)
<1>1. failures \in Nat /\ failures <= MaxFailures /\ MaxFailures \in Nat /\ removed \subseteq Nodes
  BY BoundsAssumption DEF TypeOK
<1>2. CASE ~CanOpen(d)
  <2>1. /\ errors' = errors \cup {d} /\ pc' = pc /\ listed' = listed
        /\ removed' = removed /\ failures' = failures
    BY <1>2 DEF ListDirectory, outside
  <2>2. d \in removed \cup Unreadable
    BY <1>2, NodeNames
  <2>3. QED
    BY <1>1, <2>1, <2>2 DEF Listing
<1>3. CASE CanOpen(d)
  <2> DEFINE C == {n \in Entries(d) : Hidden(n) => "a" \in flags}
  <2>1. PICK gone \in SUBSET (C \ {Self, Up}) :
            /\ Vanish(gone)
            /\ errors' = errors \cup gone
            /\ \E lost \in Losses(C \ gone) :
                  \E shown \in {SortedList(C \ (gone \cup lost))} :
                      Show(d, shown, Cardinality(lost))
    BY <1>3 DEF ListDirectory
  <2>2. PICK lost \in Losses(C \ gone) : Show(d, SortedList(C \ (gone \cup lost)), Cardinality(lost))
    BY <2>1
  <2>3. C = Left(d, removed) /\ C \in SUBSET Entry
    BY EntriesAre DEF Left
  <2>4. lost \in SUBSET (C \ gone)
    BY <2>2 DEF Losses, kSubset
  <2>5. removed' = removed \cup gone /\ gone \subseteq Nodes
    BY <2>1, <2>3 DEF Vanish, Entry
  <2>6. C \ gone = Left(d, removed')
    BY <2>1, <2>3, <2>5 DEF Left
  <2> HIDE DEF C
  <2> DEFINE B == C \ gone
             shown == SortedList(B \ lost)
             calls == Cardinality(lost)
  <2>7. B \in SUBSET Entry /\ B \ lost \in SUBSET Entry /\ C \ (gone \cup lost) = B \ lost
    BY <2>3
  <2>8. Show(d, shown, calls)
    BY <2>2, <2>7, Zenon
  <2>9. Enumerates(shown, B \ lost)
    BY <2>7, SortedListEnumerates
  <2>10. calls \in Nat
    BY <2>4, <2>7, EntriesFinite, FS_CardinalityType
  <2> HIDE DEF B, shown
  <2>11. shown \in Seq(Entry)
    BY <2>7, <2>9 DEF Enumerates
  <2>12. Adds(d, shown, failures + calls)
    BY <1>1, <2>8, <2>10, <2>11, ShowAdds
  <2>13. /\ failures' \in (failures + calls)..MaxFailures /\ pc' \in {"exec_ls", "crashed"}
         /\ failures' \in Nat /\ failures' \in failures..MaxFailures /\ calls <= failures'
    <3>1. failures' \in (failures + calls)..MaxFailures /\ pc' \in {"exec_ls", "crashed"}
      BY <2>12 DEF Adds
    <3> HIDE DEF calls
    <3>2. QED
      BY <1>1, <2>10, <3>1
  <2>14. ASSUME NEW nulls \in SUBSET (1..Len(shown)),
                failures' = failures + calls + Cardinality(nulls)
         PROVE  LacksAtMost(failures', d, WithoutNames(shown, nulls), removed')
    <3>1. calls + Cardinality(nulls) <= failures'
      <4>1. IsFiniteSet(1..Len(shown))
        BY <2>11, FS_Interval
      <4>2. IsFiniteSet(nulls)
        BY <4>1, FS_Subset
      <4>3. Cardinality(nulls) \in Nat
        BY <4>2, FS_CardinalityType
      <4> HIDE DEF calls
      <4>4. QED
        BY <1>1, <2>10, <2>14, <4>3
    <3>2. Cardinality(B \ ToSet(WithoutNames(shown, nulls))) <= failures'
      <4>1. lost \in SUBSET B
        BY <2>4 DEF B
      <4>2. QED
        BY <2>7, <2>9, <2>13, <3>1, <4>1, LinesLack
    <3>3. QED
      BY <2>6, <3>2 DEF LacksAtMost, B
  <2> HIDE DEF calls
  <2>15. \/ listed' = listed /\ pc' = "crashed"
         \/ \E lines \in Seq(Shown) :
               /\ listed' = Append(listed, [path |-> d, shown |-> lines])
               /\ pc' = "exec_ls" => LacksAtMost(failures', d, lines, removed')
    BY <2>12, <2>14 DEF Adds
  <2>16. errors' = errors \cup gone
    BY <2>1
  <2>17. QED
    BY <1>1, <2>5, <2>13, <2>15, <2>16 DEF Listing
<1>4. QED
  BY <1>2, <1>3

\* handle_file.
LEMMA HandleFileLists ==
    ASSUME NEW d \in Nodes, Kind[d] # "dir", TypeOK, pc = "exec_ls", HandleFile(d) PROVE Listing(d)
<1>1. failures \in Nat /\ failures <= MaxFailures /\ MaxFailures \in Nat /\ removed \subseteq Nodes
  BY BoundsAssumption DEF TypeOK
<1>2. CASE Show(d, <<d>>, 0) /\ UNCHANGED <<removed, errors>>
  <2> DEFINE shown == <<d>>
  <2>1. shown \in Seq(Entry)
    BY DEF Entry
  <2>2. Show(d, shown, 0)
    BY <1>2
  <2> HIDE DEF shown
  <2>3. Adds(d, shown, failures + 0)
    BY <1>1, <2>1, <2>2, ShowAdds
  <2>4. failures + 0 = failures
    BY <1>1
  <2>5. QED
    BY <1>1, <1>2, <2>3, <2>4 DEF Adds, Listing
<1>3. CASE Vanish({d}) /\ errors' = errors \cup {d} /\ UNCHANGED <<pc, listed, failures>>
  BY <1>1, <1>3 DEF Vanish, Listing
<1>4. QED
  BY <1>2, <1>3 DEF HandleFile

----------------------------------------------------------------------------
(* The shape of the state: what holds whether or not the arguments overlap. *)

(* The start: nothing was listed before the arguments are known. *)
StartInv ==
    /\ pc \in {"parse_flags", "parse_arguments"} =>
            /\ stack = <<>> /\ live = {} /\ listed = <<>> /\ errors = {} /\ skipped = {}
    /\ pc = "parse_arguments" => paths = PathsOf(argv)
    /\ pc = "exit_success" => stack = <<>> /\ paths = <<>>
    /\ stack # <<>> => "R" \in flags

(* Each activation was called from the loop of the one before it, for a subdirectory that *)
(* this loop has passed and will not come to again.                                       *)
SubdirsOf(d, fl) == {n \in Children[d] : IsDir(n) /\ (Hidden(n) => "a" \in fl)}
FrameShape(f, fl) ==
    /\ f.pc # "while" => f.subdirs = <<>> /\ f.tmp = <<>>
    /\ ToSet(f.tmp) \subseteq SubdirsOf(f.path, fl) /\ NoRepeats(f.tmp)
StackShape(s, fl) ==
    /\ \A i \in 1..Len(s) : FrameShape(s[i], fl)
    /\ \A i \in 1..Len(s) : i < Len(s) =>
            /\ s[i].pc = "while"
            /\ s[i + 1].path \in Children[s[i].path]
            /\ s[i + 1].path \notin ToSet(s[i].tmp)
    /\ \A i, j \in 1..Len(s) : i <= j => s[j].path \in Below[s[i].path]
StackInv == StackShape(stack, flags)

ShapeInv == TypeOK /\ StartInv /\ StackInv

(* The last activation returns, goes on as f, or goes on as f and calls g. *)
Popped(s, t) ==
    /\ t \in Seq(Frames) /\ Len(t) = Len(s) - 1
    /\ \A i \in 1..Len(t) : t[i] = s[i]
Replaced(s, t, f) ==
    /\ t \in Seq(Frames) /\ Len(t) = Len(s) /\ f \in Frames
    /\ \A i \in 1..Len(s) : t[i] = IF i = Len(s) THEN f ELSE s[i]
Pushed(s, t, f, g) ==
    /\ t \in Seq(Frames) /\ Len(t) = Len(s) + 1 /\ f \in Frames /\ g \in Frames
    /\ \A i \in 1..(Len(s) + 1) : t[i] = IF i = Len(s) + 1 THEN g
                                         ELSE IF i = Len(s) THEN f ELSE s[i]

LEMMA StackOps ==
    ASSUME NEW s \in Seq(Frames), s # <<>>
    PROVE  /\ Len(s) \in Nat /\ Len(s) > 0 /\ Last(s) = s[Len(s)] /\ Last(s) \in Frames
           /\ Popped(s, Front(s))
           /\ \A f \in Frames : Replaced(s, Append(Front(s), f), f)
           /\ \A f, g \in Frames : Pushed(s, Append(Append(Front(s), f), g), f, g)
<1> DEFINE n == Len(s)
           t == Front(s)
<1>1. n \in Nat /\ n > 0
  OBVIOUS
<1>2. Last(s) = s[n] /\ Last(s) \in Frames
  BY <1>1 DEF Last
<1>3. t \in Seq(Frames) /\ Len(t) = n - 1 /\ \A i \in 1..(n - 1) : t[i] = s[i]
  <2>0. n - 1 \in 0..n
    <3> HIDE DEF n
    <3> QED
      BY <1>1
  <2>1. PICK k \in 0..Len(s) : k = n - 1
    BY <2>0, Zenon
  <2>2. LET p == SubSeq(s, 1, k)
        IN  p \in Seq(Frames) /\ Len(p) = k /\ \A i \in 1..k : p[i] = s[i]
    OBVIOUS
  <2>3. t = SubSeq(s, 1, k)
    BY <2>1 DEF Front
  <2> HIDE DEF n, t
  <2>4. QED
    BY <2>1, <2>2, <2>3
<1> HIDE DEF n, t
<1>4. ASSUME NEW f \in Frames
      PROVE  /\ Append(t, f) \in Seq(Frames) /\ Len(Append(t, f)) = n
             /\ \A i \in 1..n : Append(t, f)[i] = IF i = n THEN f ELSE s[i]
  <2>1. Append(t, f) \in Seq(Frames) /\ Len(Append(t, f)) = n
    BY <1>1, <1>3
  <2>2. \A i \in 1..(n - 1) : Append(t, f)[i] = t[i]
    BY <1>1, <1>3
  <2>3. Append(t, f)[n] = f
    BY <1>1, <1>3
  <2>4. \A i \in 1..n : i = n \/ i \in 1..(n - 1)
    BY <1>1
  <2>5. QED
    BY <1>3, <2>1, <2>2, <2>3, <2>4
<1>5. ASSUME NEW f \in Frames, NEW g \in Frames
      PROVE  Pushed(s, Append(Append(t, f), g), f, g)
  <2> DEFINE u == Append(t, f)
             v == Append(u, g)
  <2>1. u \in Seq(Frames) /\ Len(u) = n /\ \A i \in 1..n : u[i] = IF i = n THEN f ELSE s[i]
    BY <1>4
  <2> HIDE DEF u
  <2>2. v \in Seq(Frames) /\ Len(v) = n + 1
    BY <1>1, <2>1
  <2>3. \A i \in 1..n : v[i] = u[i]
    BY <1>1, <2>1
  <2>4. v[n + 1] = g
    BY <1>1, <2>1
  <2>5. \A i \in 1..(n + 1) : i = n + 1 \/ (i # n + 1 /\ i \in 1..n)
    BY <1>1
  <2> HIDE DEF v
  <2>6. Pushed(s, v, f, g)
    BY <2>1, <2>2, <2>3, <2>4, <2>5 DEF Pushed, n
  <2>7. QED
    BY <2>6 DEF u, v
<1>6. Popped(s, t)
  BY <1>3 DEF Popped, n
<1>7. \A f \in Frames : Replaced(s, Append(t, f), f)
  BY <1>4 DEF Replaced, n
<1>8. QED
  BY <1>1, <1>2, <1>5, <1>6, <1>7 DEF n, t

LEMMA FrameTyped ==
    ASSUME NEW d \in Nodes
    PROVE  /\ Frame(d) \in Frames /\ Frame(d).path = d /\ Frame(d).pc = "lstat"
           /\ Frame(d).subdirs = <<>> /\ Frame(d).tmp = <<>>
           /\ <<Frame(d)>> \in Seq(Frames) /\ Len(<<Frame(d)>>) = 1 /\ <<Frame(d)>>[1] = Frame(d)
<1>1. <<>> \in Seq(Nodes)
  OBVIOUS
<1>2. Frame(d) \in Frames /\ Frame(d).path = d /\ Frame(d).pc = "lstat"
           /\ Frame(d).subdirs = <<>> /\ Frame(d).tmp = <<>>
  BY <1>1 DEF Frame, Frames
<1>3. QED
  BY <1>2

\* What the last activation looks like.
LEMMA TopIs ==
    ASSUME ShapeInv, stack # <<>>
    PROVE  /\ stack \in Seq(Frames) /\ Len(stack) \in Nat /\ Len(stack) > 0
           /\ Top = stack[Len(stack)] /\ Top \in Frames /\ Top.path \in Nodes
           /\ Top.tmp \in Seq(Nodes) /\ Top.subdirs \in Seq(Nodes)
           /\ FrameShape(Top, flags)
<1>1. stack \in Seq(Frames)
  BY DEF ShapeInv, TypeOK
<1>2. Len(stack) \in Nat /\ Len(stack) > 0 /\ Top = stack[Len(stack)] /\ Top \in Frames
  BY <1>1, StackOps DEF Top
<1>3. FrameShape(stack[Len(stack)], flags)
  <2>1. Len(stack) \in 1..Len(stack)
    BY <1>2
  <2>2. QED
    BY <2>1 DEF ShapeInv, StackInv, StackShape
<1>4. Top.path \in Nodes /\ Top.tmp \in Seq(Nodes) /\ Top.subdirs \in Seq(Nodes)
  BY <1>2 DEF Frames
<1>5. QED
  BY <1>1, <1>2, <1>3, <1>4

----------------------------------------------------------------------------
(* What the larger actions come to. *)

\* A list from its k-th member on, and the members before that one.
LEMMA Suffix ==
    ASSUME NEW T, NEW l \in Seq(T), NEW k \in 1..Len(l)
    PROVE  LET s == SubSeq(l, k, Len(l))
               p == SubSeq(l, 1, k - 1)
           IN  /\ s \in Seq(T) /\ ToSet(s) \subseteq ToSet(l) /\ ToSet(p) \subseteq ToSet(l)
               /\ ToSet(l) \subseteq ToSet(p) \cup ToSet(s)
               /\ NoRepeats(l) => NoRepeats(s)
<1> DEFINE n == Len(l)
           s == SubSeq(l, k, n)
           p == SubSeq(l, 1, k - 1)
           len == n - k + 1
<1>1. n \in Nat /\ k \in Nat /\ k >= 1 /\ k <= n /\ len \in Nat
  OBVIOUS
<1>2. s \in Seq(T) /\ Len(s) = len /\ \A i \in 1..len : s[i] = l[i + k - 1]
  BY <1>1
<1>3. p \in Seq(T) /\ Len(p) = k - 1 /\ \A i \in 1..(k - 1) : p[i] = l[i]
  <2>1. PICK j \in 0..Len(l) : j = k - 1
    <3>1. k - 1 \in 0..n
      <4> HIDE DEF n
      <4> QED
        BY <1>1
    <3>2. QED
      BY <3>1, Zenon
  <2>2. LET q == SubSeq(l, 1, j)
        IN  q \in Seq(T) /\ Len(q) = j /\ \A i \in 1..j : q[i] = l[i]
    OBVIOUS
  <2>3. p = SubSeq(l, 1, j)
    BY <2>1
  <2> HIDE DEF p, n
  <2>4. QED
    BY <2>1, <2>2, <2>3
<1> HIDE DEF s, p
<1>4. /\ ToSet(l) = {l[i] : i \in 1..n} /\ ToSet(s) = {s[i] : i \in 1..len}
      /\ ToSet(p) = {p[i] : i \in 1..(k - 1)}
  BY <1>2, <1>3, Members
<1> HIDE DEF n
<1>5. \A i \in 1..len : i + k - 1 \in 1..n
  BY <1>1 DEF len
<1>6. \A i \in 1..(k - 1) : i \in 1..n
  BY <1>1
<1>7. ToSet(s) \subseteq ToSet(l) /\ ToSet(p) \subseteq ToSet(l)
  BY <1>2, <1>3, <1>4, <1>5, <1>6
<1>8. ToSet(l) \subseteq ToSet(p) \cup ToSet(s)
  <2>1. ASSUME NEW i \in 1..n PROVE l[i] \in ToSet(p) \cup ToSet(s)
    <3>1. CASE i < k
      <4>1. i \in 1..(k - 1)
        BY <1>1, <3>1
      <4>2. QED
        BY <1>3, <1>4, <4>1
    <3>2. CASE ~ (i < k)
      <4> DEFINE j == i - k + 1
      <4>1. j \in 1..len /\ j + k - 1 = i
        BY <1>1, <3>2 DEF len
      <4> HIDE DEF j
      <4>2. s[j] = l[i]
        BY <1>2, <4>1
      <4>3. QED
        BY <1>4, <4>1, <4>2
    <3>3. QED
      BY <3>1, <3>2
  <2>2. QED
    BY <1>4, <2>1
<1>9. ASSUME NoRepeats(l) PROVE NoRepeats(s)
  <2>1. ASSUME NEW i \in 1..len, NEW j \in 1..len, s[i] = s[j] PROVE i = j
    <3>1. l[i + k - 1] = l[j + k - 1]
      BY <1>2, <2>1
    <3>2. i + k - 1 = j + k - 1
      BY <1>5, <1>9, <3>1 DEF NoRepeats, n
    <3>3. QED
      BY <1>1, <3>2
  <2>2. QED
    BY <1>2, <2>1 DEF NoRepeats
<1>10. QED
  BY <1>2, <1>7, <1>8, <1>9 DEF s, p, n

LEMMA SubdirsAre ==
    ASSUME NEW d \in Nodes
    PROVE  /\ Subdirs(d) \subseteq Children[d] /\ Subdirs(d) \subseteq Nodes
           /\ {n \in Entries(d) : IsSubdir(n)} = Subdirs(d) \ removed
           /\ SubdirsOf(d, flags) = Subdirs(d)
<1>1. Children[d] \subseteq Nodes
  BY ChildrenWellFounded
<1>2. Entries(d) = {Self, Up} \cup (Children[d] \ removed)
  BY EntriesAre
<1>3. \A n \in Children[d] : n \notin {Self, Up}
  BY <1>1, NodeNames
<1>4. QED
  BY <1>1, <1>2, <1>3 DEF Subdirs, IsSubdir, SubdirsOf

(* The subdirectories of d that are left are in tmp, or in skipped. *)
Collected(d, tmp) == \A n \in Subdirs(d) : n \in removed' \cup skipped' \cup tmp

LEMMA GetSubdirsDoes ==
    ASSUME ShapeInv, GetSubdirs
    PROVE  \E d \in Nodes :
             /\ stack # <<>> /\ pc = "exec_ls" /\ Top.pc = "get_subdirs" /\ Top.path = d
             /\ argv' = argv /\ flags' = flags /\ paths' = paths
             /\ listed' = listed /\ errors' = errors
             /\ failures' \in failures..MaxFailures
             /\ removed \subseteq removed' /\ removed' \subseteq Nodes
             /\ skipped \subseteq skipped' /\ skipped' \subseteq Nodes
             /\ \/ pc' = "crashed" /\ stack' = stack /\ live' = live
                \/ /\ pc' = pc /\ Popped(stack, stack') /\ live' = live
                   /\ d \in removed' \cup Unreadable \/ Collected(d, {})
                \/ /\ pc' = pc
                   /\ \E f \in Frames :
                        /\ Replaced(stack, stack', f)
                        /\ f.path = d /\ f.pc = "while" /\ NoRepeats(f.tmp)
                        /\ ToSet(f.tmp) \subseteq Subdirs(d) /\ ToSet(f.subdirs) \subseteq Nodes
                        /\ live' = live \cup ToSet(f.subdirs)
                        /\ Collected(d, ToSet(f.tmp))
<1>1. /\ stack # <<>> /\ pc = "exec_ls" /\ Top.pc = "get_subdirs"
      /\ argv' = argv /\ flags' = flags /\ paths' = paths
      /\ listed' = listed /\ errors' = errors
  BY DEF GetSubdirs, At, cmdline, output
<1>2. PICK d \in Nodes : d = Top.path
  BY <1>1, TopIs
<1>3. /\ failures \in Nat /\ failures <= MaxFailures /\ MaxFailures \in Nat
      /\ removed \subseteq Nodes /\ skipped \subseteq Nodes /\ live \subseteq Nodes
      /\ stack \in Seq(Frames) /\ Top \in Frames
  BY <1>1, BoundsAssumption, TopIs DEF ShapeInv, TypeOK
<1>4. Popped(stack, Front(stack)) /\ \A f \in Frames : Replaced(stack, Replace(f), f)
  BY <1>1, <1>3, StackOps DEF Replace
<1>5. CASE ~CanOpen(d)
  <2>1. /\ stack' = Front(stack) /\ pc' = pc /\ live' = live
        /\ removed' = removed /\ failures' = failures /\ skipped' = skipped
    BY <1>2, <1>5 DEF GetSubdirs, outside
  <2>2. d \in removed \cup Unreadable
    BY <1>5, NodeNames
  <2>3. QED
    BY <1>1, <1>2, <1>3, <1>4, <2>1, <2>2
<1>6. CASE CanOpen(d)
  <2> DEFINE C == {n \in Entries(d) : IsSubdir(n)}
             Last1(l, k) == SubSeq(l, k, Len(l))
             First1(l, k) == SubSeq(l, 1, k - 1)
             Ends(lost, l) ==
                \/ /\ l = <<>>
                   /\ Fail(Cardinality(lost))
                   /\ stack' = Front(stack)
                   /\ skipped' = skipped \cup lost
                   /\ pc' = pc /\ live' = live
                \/ \E k \in 1..Len(l) :
                   /\ Fail(Cardinality(lost))
                   /\ stack' = Replace([Top EXCEPT
                        !.pc = "while", !.subdirs = l, !.tmp = Last1(l, k)])
                   /\ live' = live \cup ToSet(l)
                   /\ skipped' = skipped \cup lost \cup ToSet(First1(l, k))
                   /\ pc' = pc
                \/ /\ Fail(Cardinality(lost) + 1)
                   /\ pc' = "crashed"
                   /\ stack' = stack /\ live' = live /\ skipped' = skipped
  <2>1. PICK gone \in SUBSET C :
            /\ Vanish(gone)
            /\ \E lost \in Losses(C \ gone) :
                  \E l \in {SortedList(C \ (gone \cup lost))} : Ends(lost, l)
    BY <1>2, <1>6 DEF GetSubdirs
  <2>2. C = Subdirs(d) \ removed /\ C \subseteq Nodes
    BY SubdirsAre
  <2> HIDE DEF C
  <2> HIDE DEF Ends
  <2>3. PICK lost \in Losses(C \ gone) : Ends(lost, SortedList(C \ (gone \cup lost)))
    BY <2>1
  <2>4. lost \in SUBSET (C \ gone)
    BY <2>3 DEF Losses, kSubset
  <2>5. removed' = removed \cup gone /\ removed' \subseteq Nodes /\ removed \subseteq removed'
    BY <1>3, <2>1, <2>2 DEF Vanish
  <2> DEFINE R == C \ (gone \cup lost)
             l == SortedList(R)
  <2>6. Enumerates(l, R) /\ R \subseteq Nodes
    <3>1. R \in SUBSET Entry
      BY <2>2 DEF Entry
    <3> HIDE DEF R
    <3>2. Enumerates(l, R)
      BY <3>1, SortedListEnumerates
    <3>3. QED
      BY <2>2, <3>2 DEF R
  <2>7. /\ R \subseteq Subdirs(d) /\ lost \subseteq Nodes
        /\ \A n \in Subdirs(d) : n \in removed' \cup lost \cup R
    BY <2>2, <2>4, <2>5
  <2>8. Ends(lost, l)
    BY <2>3
  <2> HIDE DEF R, l
  <2>9. /\ Fail(Cardinality(lost)) => failures' \in failures..MaxFailures
        /\ Fail(Cardinality(lost) + 1) => failures' \in failures..MaxFailures
    <3>1. Cardinality(lost) \in Nat
      <4>1. lost \in SUBSET Entry
        BY <2>7 DEF Entry
      <4>2. QED
        BY <4>1, EntriesFinite, FS_CardinalityType
    <3>2. QED
      BY <1>3, <3>1 DEF Fail
  <2>10. /\ l \in Seq(R) /\ l \in Seq(Nodes) /\ ToSet(l) = R /\ NoRepeats(l)
         /\ \A n \in R : l # <<>>
    <3>1. l \in Seq(R) /\ ToSet(l) = R /\ NoRepeats(l)
      BY <2>6 DEF Enumerates
    <3>2. l \in Seq(Nodes)
      BY <2>6, <3>1
    <3>3. l = <<>> => ToSet(l) = {}
      BY DEF ToSet
    <3>4. QED
      BY <3>1, <3>2, <3>3
  <2>11. CASE /\ l = <<>>
              /\ Fail(Cardinality(lost))
              /\ stack' = Front(stack)
              /\ skipped' = skipped \cup lost
              /\ pc' = pc /\ live' = live
    <3>1. Collected(d, {})
      BY <2>7, <2>10, <2>11 DEF Collected
    <3>2. skipped \subseteq skipped' /\ skipped' \subseteq Nodes /\ Popped(stack, stack')
      BY <1>3, <1>4, <2>7, <2>11
    <3>3. QED
      BY <1>1, <1>2, <2>5, <2>9, <2>11, <3>1, <3>2
  <2>12. ASSUME NEW k \in 1..Len(l), Fail(Cardinality(lost)),
                stack' = Replace([Top EXCEPT
                    !.pc = "while", !.subdirs = l, !.tmp = Last1(l, k)]),
                live' = live \cup ToSet(l),
                skipped' = skipped \cup lost \cup ToSet(First1(l, k)), pc' = pc
         PROVE  \E f \in Frames :
                        /\ Replaced(stack, stack', f)
                        /\ f.path = d /\ f.pc = "while" /\ NoRepeats(f.tmp)
                        /\ ToSet(f.tmp) \subseteq Subdirs(d) /\ ToSet(f.subdirs) \subseteq Nodes
                        /\ live' = live \cup ToSet(f.subdirs)
                        /\ Collected(d, ToSet(f.tmp))
                        /\ skipped \subseteq skipped' /\ skipped' \subseteq Nodes
    <3> DEFINE s == Last1(l, k)
               p == First1(l, k)
               f == [Top EXCEPT !.pc = "while", !.subdirs = l, !.tmp = s]
    <3>1. /\ s \in Seq(Nodes) /\ ToSet(s) \subseteq R /\ ToSet(p) \subseteq R
          /\ R \subseteq ToSet(p) \cup ToSet(s) /\ NoRepeats(s)
      BY <2>10, Suffix
    <3> HIDE DEF s, p
    <3>2. f \in Frames /\ f.path = d /\ f.pc = "while" /\ f.tmp = s /\ f.subdirs = l
      BY <1>2, <1>3, <2>10, <3>1 DEF Frames
    <3>3. stack' = Replace(f)
      BY <2>12 DEF s
    <3> HIDE DEF f
    <3>4. Replaced(stack, stack', f)
      BY <1>4, <3>2, <3>3
    <3>5. skipped' = skipped \cup lost \cup ToSet(p)
      BY <2>12 DEF p
    <3>6. Collected(d, ToSet(s))
      BY <2>7, <3>1, <3>5 DEF Collected
    <3>7. skipped \subseteq skipped' /\ skipped' \subseteq Nodes
      BY <1>3, <2>6, <2>7, <3>1, <3>5
    <3>8. ToSet(s) \subseteq Subdirs(d) /\ ToSet(l) \subseteq Nodes
      BY <2>6, <2>7, <2>10, <3>1
    <3>9. live' = live \cup ToSet(f.subdirs)
      BY <2>12, <3>2
    <3>10. QED
      BY <3>1, <3>2, <3>4, <3>6, <3>7, <3>8, <3>9
  <2>13. CASE /\ Fail(Cardinality(lost) + 1)
              /\ pc' = "crashed"
              /\ stack' = stack /\ live' = live /\ skipped' = skipped
    BY <1>1, <1>2, <1>3, <2>5, <2>9, <2>13
  <2>14. QED
    <3>1. CASE \E k \in 1..Len(l) :
                   /\ Fail(Cardinality(lost))
                   /\ stack' = Replace([Top EXCEPT
                        !.pc = "while", !.subdirs = l, !.tmp = Last1(l, k)])
                   /\ live' = live \cup ToSet(l)
                   /\ skipped' = skipped \cup lost \cup ToSet(First1(l, k))
                   /\ pc' = pc
      BY <1>1, <1>2, <2>5, <2>9, <2>12, <3>1
    <3>2. QED
      BY <2>8, <2>11, <2>13, <3>1 DEF Ends
<1>7. QED
  BY <1>5, <1>6

\* One argument: an error, an activation of handle_recursive, or a listing.
LEMMA ListPathDoes ==
    ASSUME ShapeInv, ListPath
    PROVE  \E d \in Nodes \cup Arguments :
             /\ pc = "exec_ls" /\ stack = <<>> /\ paths # <<>> /\ d = Head(paths)
             /\ paths \in Seq(Nodes \cup Arguments) /\ paths' = Tail(paths)
             /\ argv' = argv /\ flags' = flags /\ live' = live /\ skipped' = skipped
             /\ \/ /\ d \notin Nodes \/ d \in removed
                   /\ errors' = errors \cup {d} /\ listed' = listed /\ stack' = stack
                   /\ pc' = pc /\ removed' = removed /\ failures' = failures
                \/ /\ d \in Nodes \ removed /\ Kind[d] = "dir" /\ "R" \in flags
                   /\ stack' = <<Frame(d)>>
                   /\ errors' = errors /\ listed' = listed
                   /\ pc' = pc /\ removed' = removed /\ failures' = failures
                \/ /\ d \in Nodes /\ (Kind[d] = "dir" => "R" \notin flags)
                   /\ Listing(d) /\ stack' = stack
<1>1. /\ pc = "exec_ls" /\ stack = <<>> /\ paths # <<>>
      /\ paths' = Tail(paths) /\ argv' = argv /\ flags' = flags
      /\ live' = live /\ skipped' = skipped
  BY DEF ListPath, cmdline
<1>2. paths \in Seq(Nodes \cup Arguments)
  BY <1>1 DEF ShapeInv, TypeOK
<1>3. PICK d \in Nodes \cup Arguments : d = Head(paths)
  BY <1>1, <1>2
<1>4. d \notin {Self, Up}
  <2>1. Arguments \cap {Self, Up} = {}
    <3>1. argv \in Argvs
      BY DEF ShapeInv, TypeOK
    <3>2. QED
      BY <3>1, ArgvsAssumption DEF Arguments, PathWords
  <2>2. QED
    BY <2>1, NodesAssumption
<1>5. \/ /\ ~Exists(d)
         /\ errors' = errors \cup {d}
         /\ UNCHANGED <<pc, stack, outside, listed>>
      \/ /\ Exists(d) /\ IsDir(d) /\ "R" \in flags
         /\ stack' = <<Frame(d)>>
         /\ UNCHANGED <<pc, outside, output>>
      \/ /\ Exists(d) /\ IsDir(d) /\ "R" \notin flags
         /\ ListDirectory(d)
         /\ UNCHANGED stack
      \/ /\ Exists(d) /\ ~IsDir(d)
         /\ HandleFile(d)
         /\ UNCHANGED stack
  <2>1. \/ /\ ~Exists(Head(paths))
           /\ errors' = errors \cup {Head(paths)}
           /\ UNCHANGED <<pc, stack, outside, listed>>
        \/ /\ Exists(Head(paths)) /\ IsDir(Head(paths)) /\ "R" \in flags
           /\ stack' = <<Frame(Head(paths))>>
           /\ UNCHANGED <<pc, outside, output>>
        \/ /\ Exists(Head(paths)) /\ IsDir(Head(paths)) /\ "R" \notin flags
           /\ ListDirectory(Head(paths))
           /\ UNCHANGED stack
        \/ /\ Exists(Head(paths)) /\ ~IsDir(Head(paths))
           /\ HandleFile(Head(paths))
           /\ UNCHANGED stack
    BY Zenon DEF ListPath
  <2>2. QED
    BY <1>3, <2>1, Zenon
<1>6. /\ Exists(d) => d \in Nodes \ removed
      /\ ~Exists(d) => d \notin Nodes \/ d \in removed
  BY <1>4 DEF Exists
<1>7. d \in Nodes => (IsDir(d) <=> Kind[d] = "dir")
  BY NodeNames
<1>8. TypeOK
  BY DEF ShapeInv
<1>9. CASE ~Exists(d) /\ errors' = errors \cup {d} /\ UNCHANGED <<pc, stack, outside, listed>>
  BY <1>1, <1>2, <1>3, <1>6, <1>9 DEF outside
<1>10. CASE /\ Exists(d) /\ IsDir(d) /\ "R" \in flags
            /\ stack' = <<Frame(d)>>
            /\ UNCHANGED <<pc, outside, output>>
  BY <1>1, <1>2, <1>3, <1>6, <1>7, <1>10 DEF outside, output
<1>11. CASE Exists(d) /\ IsDir(d) /\ "R" \notin flags /\ ListDirectory(d) /\ UNCHANGED stack
  <2>1. Listing(d)
    BY <1>1, <1>6, <1>8, <1>11, ListDirectoryLists
  <2>2. QED
    BY <1>1, <1>2, <1>3, <1>6, <1>7, <1>11, <2>1
<1>12. CASE Exists(d) /\ ~IsDir(d) /\ HandleFile(d) /\ UNCHANGED stack
  <2>1. Listing(d)
    BY <1>1, <1>6, <1>7, <1>8, <1>12, HandleFileLists
  <2>2. QED
    BY <1>1, <1>2, <1>3, <1>6, <1>7, <1>12, <2>1
<1>13. QED
  BY <1>5, <1>9, <1>10, <1>11, <1>12

\* An activation of handle_recursive lists its directory.
LEMMA ListDoes ==
    ASSUME ShapeInv, List
    PROVE  \E d \in Nodes : \E f \in Frames :
             /\ pc = "exec_ls" /\ stack # <<>> /\ Top.pc = "list_directory" /\ Top.path = d
             /\ argv' = argv /\ flags' = flags /\ paths' = paths
             /\ live' = live /\ skipped' = skipped
             /\ Listing(d) /\ Replaced(stack, stack', f)
             /\ f.path = d /\ f.pc = "get_subdirs" /\ f.subdirs = <<>> /\ f.tmp = <<>>
<1>1. /\ pc = "exec_ls" /\ stack # <<>> /\ Top.pc = "list_directory"
      /\ argv' = argv /\ flags' = flags /\ paths' = paths /\ live' = live /\ skipped' = skipped
      /\ stack' = Replace([Top EXCEPT !.pc = "get_subdirs"])
  BY DEF List, At, cmdline
<1>2. PICK d \in Nodes : d = Top.path
  BY <1>1, TopIs
<1>3. ListDirectory(d)
  <2>1. ListDirectory(Top.path)
    BY DEF List
  <2>2. QED
    BY <1>2, <2>1, Zenon
<1>4. Listing(d)
  BY <1>1, <1>3, ListDirectoryLists DEF ShapeInv
<1> DEFINE f == [Top EXCEPT !.pc = "get_subdirs"]
<1>5. stack \in Seq(Frames) /\ Top \in Frames /\ FrameShape(Top, flags)
  BY <1>1, TopIs
<1>6. /\ f \in Frames /\ f.path = d /\ f.pc = "get_subdirs"
      /\ f.subdirs = Top.subdirs /\ f.tmp = Top.tmp
  BY <1>2, <1>5 DEF Frames
<1>7. Top.subdirs = <<>> /\ Top.tmp = <<>>
  BY <1>1, <1>5 DEF FrameShape
<1>8. stack' = Append(Front(stack), f)
  BY <1>1 DEF Replace
<1> HIDE DEF f
<1>9. Replaced(stack, stack', f)
  BY <1>1, <1>5, <1>6, <1>8, StackOps
<1>10. QED
  BY <1>1, <1>2, <1>4, <1>6, <1>7, <1>9

\* lstat.
LEMMA LstatDoes ==
    ASSUME ShapeInv, Lstat
    PROVE  \E d \in Nodes :
             /\ pc = "exec_ls" /\ stack # <<>> /\ Top.pc = "lstat" /\ Top.path = d
             /\ pc' = pc /\ argv' = argv /\ flags' = flags /\ paths' = paths
             /\ live' = live /\ skipped' = skipped /\ listed' = listed
             /\ removed' = removed /\ failures' = failures
             /\ \/ /\ errors' = errors
                   /\ \E f \in Frames :
                        /\ Replaced(stack, stack', f) /\ f.path = d
                        /\ f.pc = "list_directory" /\ f.subdirs = <<>> /\ f.tmp = <<>>
                \/ /\ d \in removed /\ errors' = errors \cup {d}
                   /\ Popped(stack, stack')
<1>1. /\ pc = "exec_ls" /\ stack # <<>> /\ Top.pc = "lstat"
      /\ pc' = pc /\ argv' = argv /\ flags' = flags /\ paths' = paths
      /\ live' = live /\ skipped' = skipped /\ listed' = listed
      /\ removed' = removed /\ failures' = failures
      /\ \/ /\ Exists(Top.path)
            /\ stack' = Replace([Top EXCEPT !.pc = "list_directory"])
            /\ errors' = errors
         \/ /\ ~Exists(Top.path)
            /\ stack' = Front(stack)
            /\ errors' = errors \cup {Top.path}
  BY DEF Lstat, At, cmdline, outside
<1>2. PICK d \in Nodes : d = Top.path
  BY <1>1, TopIs
<1>3. stack \in Seq(Frames) /\ Top \in Frames /\ FrameShape(Top, flags)
  BY <1>1, TopIs
<1>4. Exists(d) \/ d \in removed
  BY NodeNames
<1> DEFINE f == [Top EXCEPT !.pc = "list_directory"]
<1>5. /\ f \in Frames /\ f.path = d /\ f.pc = "list_directory"
      /\ f.subdirs = Top.subdirs /\ f.tmp = Top.tmp
  BY <1>2, <1>3 DEF Frames
<1>6. f.subdirs = <<>> /\ f.tmp = <<>>
  BY <1>1, <1>3, <1>5 DEF FrameShape
<1> HIDE DEF f
<1>7. Replaced(stack, Replace(f), f) /\ Popped(stack, Front(stack))
  BY <1>1, <1>3, <1>5, StackOps DEF Replace
<1>8. \/ stack' = Replace(f) /\ errors' = errors
      \/ stack' = Front(stack) /\ ~Exists(d) /\ errors' = errors \cup {d}
  BY <1>1, <1>2 DEF f
<1>9. QED
  BY <1>1, <1>2, <1>4, <1>5, <1>6, <1>7, <1>8

\* The loop calls handle_recursive for the next subdirectory.
LEMMA VisitDoes ==
    ASSUME ShapeInv, Visit
    PROVE  \E d \in Nodes, x \in Nodes, f \in Frames, g \in Frames :
             /\ pc = "exec_ls" /\ stack # <<>> /\ Top.pc = "while" /\ Top.path = d
             /\ pc' = pc /\ argv' = argv /\ flags' = flags /\ paths' = paths
             /\ live' = live /\ skipped' = skipped /\ listed' = listed
             /\ errors' = errors /\ removed' = removed /\ failures' = failures
             /\ Pushed(stack, stack', f, g)
             /\ f.path = d /\ f.pc = "while" /\ f.subdirs = Top.subdirs
             /\ ToSet(Top.tmp) = {x} \cup ToSet(f.tmp) /\ x \notin ToSet(f.tmp) /\ NoRepeats(f.tmp)
             /\ g.path = x /\ g.pc = "lstat" /\ g.subdirs = <<>> /\ g.tmp = <<>>
<1>1. /\ pc = "exec_ls" /\ stack # <<>> /\ Top.pc = "while" /\ Top.tmp # <<>>
      /\ pc' = pc /\ argv' = argv /\ flags' = flags /\ paths' = paths
      /\ live' = live /\ skipped' = skipped /\ listed' = listed
      /\ errors' = errors /\ removed' = removed /\ failures' = failures
      /\ stack' = Append(Replace([Top EXCEPT !.tmp = Tail(@)]), Frame(Head(Top.tmp)))
  BY DEF Visit, At, cmdline, outside, output
<1>2. /\ stack \in Seq(Frames) /\ Top \in Frames /\ FrameShape(Top, flags) /\ Top.path \in Nodes
      /\ Top.tmp \in Seq(Nodes)
  BY <1>1, TopIs
<1> DEFINE l == Top.tmp
           x == Head(l)
           r == Tail(l)
           f == [Top EXCEPT !.tmp = r]
           g == Frame(x)
<1>3. /\ x \in Nodes /\ r \in Seq(Nodes) /\ ToSet(l) = {x} \cup ToSet(r)
  <2>1. l \in Seq(Nodes) /\ l # <<>>
    BY <1>1, <1>2
  <2> HIDE DEF l
  <2>2. QED
    BY <2>1, Members
<1>4. x \notin ToSet(r) /\ NoRepeats(r)
  <2>1. l \in Seq(Nodes) /\ l # <<>> /\ NoRepeats(l)
    BY <1>1, <1>2 DEF FrameShape
  <2> HIDE DEF l
  <2>2. /\ Len(l) \in Nat /\ Len(l) > 0 /\ x = l[1] /\ Len(r) = Len(l) - 1
        /\ \A i \in 1..(Len(l) - 1) : r[i] = l[i + 1]
    BY <2>1
  <2>3. \A i \in 1..(Len(l) - 1) : i + 1 \in 1..Len(l) /\ i + 1 # 1
    BY <2>2
  <2>4. 1 \in 1..Len(l)
    BY <2>2
  <2>5. ToSet(r) = {r[i] : i \in 1..(Len(l) - 1)}
    BY <1>3, <2>2, Members
  <2>6. x \notin ToSet(r)
    BY <2>1, <2>2, <2>3, <2>4, <2>5 DEF NoRepeats
  <2>7. ASSUME NEW i \in 1..(Len(l) - 1), NEW j \in 1..(Len(l) - 1), r[i] = r[j] PROVE i = j
    <3>1. l[i + 1] = l[j + 1]
      BY <2>2, <2>7
    <3>2. i + 1 = j + 1
      BY <2>1, <2>3, <3>1 DEF NoRepeats
    <3>3. QED
      BY <2>2, <3>2
  <2>8. QED
    BY <2>2, <2>6, <2>7 DEF NoRepeats
<1>5. stack' = Append(Append(Front(stack), f), g)
  BY <1>1 DEF Replace
<1> HIDE DEF x, r, g
<1>6. /\ f \in Frames /\ f.path = Top.path /\ f.pc = "while" /\ f.subdirs = Top.subdirs
      /\ f.tmp = r
  BY <1>1, <1>2, <1>3 DEF Frames
<1>7. g \in Frames /\ g.path = x /\ g.pc = "lstat" /\ g.subdirs = <<>> /\ g.tmp = <<>>
  BY <1>3, FrameTyped DEF g
<1> HIDE DEF f
<1>8. Pushed(stack, stack', f, g)
  BY <1>1, <1>2, <1>5, <1>6, <1>7, StackOps
<1>9. QED
  BY <1>1, <1>2, <1>3, <1>4, <1>6, <1>7, <1>8

\* The list is freed and the activation returns.
LEMMA FreeDirListDoes ==
    ASSUME ShapeInv, FreeDirList
    PROVE  /\ pc = "exec_ls" /\ stack # <<>> /\ Top.pc = "while" /\ Top.tmp = <<>>
           /\ pc' = pc /\ argv' = argv /\ flags' = flags /\ paths' = paths
           /\ skipped' = skipped /\ listed' = listed
           /\ errors' = errors /\ removed' = removed /\ failures' = failures
           /\ live' = live \ ToSet(Top.subdirs)
           /\ Popped(stack, stack')
<1>1. stack # <<>> /\ stack' = Front(stack)
  BY DEF FreeDirList, At
<1>2. Popped(stack, stack')
  BY <1>1, TopIs, StackOps
<1>3. QED
  BY <1>2 DEF FreeDirList, At, cmdline, outside, output

\* The paths to be listed are the arguments, or the current directory.
LEMMA ParseArgumentsDoes ==
    ASSUME ShapeInv, ParseArguments, pc' = "exec_ls"
    PROVE  /\ paths' \in Seq(Nodes \cup Arguments)
           /\ ToSet(paths') = IF Arguments = {} THEN {Cwd} ELSE Arguments
           /\ Apart => \A k, l \in 1..Len(paths') :
                           k # l /\ paths'[l] \in Nodes => paths'[k] \notin Below[paths'[l]]
<1> DEFINE W == Seq(STRING) \ {<<>>}
           p == PathsOf(argv)
           q == [i \in 1..Len(p) |-> p[i][1]]
<1>1. argv \in Seq(W)
  BY ArgvsAssumption DEF ShapeInv, TypeOK
<1>2. paths = p /\ paths' = IF paths = <<>> THEN <<Cwd>> ELSE [i \in 1..Len(paths) |-> paths[i][1]]
  BY DEF ParseArguments, ShapeInv, StartInv
<1>3. p \in Seq(W) /\ \E at : KeptFrom(at, p, argv, Len(argv))
  BY <1>1, PathsOfWords
<1> HIDE DEF p
<1>4. PICK at : KeptFrom(at, p, argv, Len(argv))
  BY <1>3
<1>5. PathWords = Words(argv) /\ Arguments = {argv[i][1] : i \in PathWords}
  BY DEF PathWords, Words, Arguments
<1>6. \A w \in PathWords : w <= Len(argv)
  <2>1. Len(argv) \in Nat
    BY <1>1
  <2>2. QED
    BY <2>1 DEF PathWords
<1>7. /\ \A k \in 1..Len(p) : at[k] \in PathWords /\ p[k] = argv[at[k]]
      /\ \A j, k \in 1..Len(p) : at[j] = at[k] => j = k
      /\ \A w \in PathWords : \E k \in 1..Len(p) : at[k] = w
  BY <1>4, <1>5, <1>6 DEF KeptFrom
<1>8. Len(p) \in Nat /\ (p = <<>> <=> Len(p) = 0)
  BY <1>3
<1>9. CASE p = <<>>
  <2>1. Arguments = {} /\ paths' = <<Cwd>> /\ Cwd \in Nodes
    <3>1. 1..Len(p) = {}
      BY <1>8, <1>9
    <3>2. QED
      BY <1>2, <1>5, <1>7, <1>9, <3>1, NodesAssumption
  <2>2. paths' \in Seq(Nodes \cup Arguments) /\ ToSet(paths') = {Cwd} /\ Len(paths') = 1
    BY <2>1 DEF ToSet
  <2>3. \A k, l \in 1..Len(paths') : k = l
    BY <2>2
  <2>4. QED
    BY <2>1, <2>2, <2>3
<1>10. CASE p # <<>>
  <2>1. paths' = q
    BY <1>2, <1>10
  <2>2. \A k \in 1..Len(p) : q[k] = argv[at[k]][1] /\ q[k] \in Arguments
    BY <1>5, <1>7
  <2>3. q \in Seq(Nodes \cup Arguments) /\ Len(q) = Len(p)
    BY <1>8, <2>2
  <2> HIDE DEF q
  <2>4. ToSet(q) = {q[k] : k \in 1..Len(p)}
    BY <2>3, Members
  <2>5. ToSet(q) = Arguments
    <3>1. ASSUME NEW w \in PathWords PROVE argv[w][1] \in ToSet(q)
      BY <1>7, <2>2, <2>4
    <3>2. QED
      BY <1>5, <2>2, <2>4, <3>1
  <2>6. Arguments # {}
    <3>1. 1 \in 1..Len(p)
      BY <1>8, <1>10
    <3>2. QED
      BY <2>2, <3>1
  <2>7. ASSUME Apart, NEW k \in 1..Len(q), NEW l \in 1..Len(q), k # l, q[l] \in Nodes
        PROVE  q[k] \notin Below[q[l]]
    <3>1. at[k] \in PathWords /\ at[l] \in PathWords /\ at[k] # at[l]
      BY <1>7, <2>3, <2>7
    <3>2. q[k] = argv[at[k]][1] /\ q[l] = argv[at[l]][1]
      BY <2>2, <2>3
    <3>3. QED
      BY <2>7, <3>1, <3>2 DEF Apart
  <2>8. QED
    BY <2>1, <2>3, <2>5, <2>6, <2>7
<1>11. QED
  BY <1>9, <1>10

Listings == Seq([path : Nodes, shown : Seq(Shown)])

\* One more listing, or none.
LEMMA ListingKeepsType ==
    ASSUME NEW d \in Nodes, TypeOK, Listing(d), argv' = argv
    PROVE  /\ pc' \in {"exec_ls", "crashed"} /\ failures' \in 0..MaxFailures
           /\ removed' \subseteq Nodes /\ errors' \subseteq Nodes \cup Arguments
           /\ listed' \in Listings
<1>1. /\ failures \in 0..MaxFailures /\ MaxFailures \in Nat /\ errors \subseteq Nodes \cup Arguments
      /\ listed \in Listings
  BY BoundsAssumption DEF TypeOK, Listings, Shown
<1>2. \A lines \in Seq(Shown) : Append(listed, [path |-> d, shown |-> lines]) \in Listings
  <2>1. \A lines \in Seq(Shown) :
            [path |-> d, shown |-> lines] \in [path : Nodes, shown : Seq(Shown)]
    OBVIOUS
  <2>2. \A T : \A l \in Seq(T), x \in T : Append(l, x) \in Seq(T)
    OBVIOUS
  <2>3. QED
    BY <1>1, <2>1, <2>2 DEF Listings
<1>3. failures' \in 0..MaxFailures /\ pc' \in {"exec_ls", "crashed"}
  BY <1>1 DEF Listing
<1>4. removed' \subseteq Nodes /\ errors' \subseteq Nodes \cup Arguments
  BY <1>1 DEF Listing
<1>5. listed' \in Listings
  BY <1>1, <1>2 DEF Listing
<1>6. QED
  BY <1>3, <1>4, <1>5

LEMMA TypeParts ==
    ASSUME TypeOK
    PROVE  /\ pc \in Final \cup {"parse_flags", "parse_arguments", "exec_ls"}
           /\ argv \in Argvs /\ flags \subseteq Legal
           /\ stack \in Seq(Frames) /\ live \subseteq Nodes /\ removed \subseteq Nodes
           /\ pc = "exec_ls" => paths \in Seq(Nodes \cup Arguments)
           /\ listed \in Listings
           /\ failures \in 0..MaxFailures
           /\ errors \subseteq Nodes \cup Arguments /\ skipped \subseteq Nodes
           /\ MaxFailures \in Nat
BY BoundsAssumption DEF TypeOK, Listings, Shown

LEMMA TypeFromParts ==
    ASSUME pc' \in Final \cup {"parse_flags", "parse_arguments", "exec_ls"},
           argv' \in Argvs, flags' \subseteq Legal,
           stack' \in Seq(Frames), live' \subseteq Nodes, removed' \subseteq Nodes,
           pc' = "exec_ls" => paths' \in Seq(Nodes \cup Arguments), argv' = argv,
           listed' \in Listings, failures' \in 0..MaxFailures,
           errors' \subseteq Nodes \cup Arguments, skipped' \subseteq Nodes
    PROVE  TypeOK'
<1>1. Arguments' = Arguments
  BY DEF Arguments, PathWords
<1>2. QED
  BY <1>1 DEF TypeOK, Listings, Shown

\* Every step keeps to the types.
LEMMA TypeStep == ASSUME ShapeInv, [Next]_vars PROVE TypeOK'
<1>1. TypeOK
  BY DEF ShapeInv
<1> USE TypeParts
<1>2. ASSUME ParseFlags PROVE TypeOK'
  <2>1. /\ pc' \in {"exit_failure", "parse_arguments"} /\ argv' = argv /\ stack' = stack
        /\ live' = live /\ removed' = removed /\ listed' = listed /\ errors' = errors
        /\ skipped' = skipped /\ (flags' = flags \/ flags' \subseteq Legal)
    BY <1>2 DEF ParseFlags, output
  <2>2. failures' \in 0..MaxFailures
    BY <1>1, <1>2 DEF ParseFlags, Fail
  <2>3. QED
    BY <1>1, <2>1, <2>2, TypeFromParts DEF Final
<1>3. ASSUME ParseArguments PROVE TypeOK'
  <2>1. /\ pc' \in {"exit_failure", "crashed", "exec_ls"} /\ argv' = argv /\ stack' = stack
        /\ live' = live /\ removed' = removed /\ listed' = listed /\ errors' = errors
        /\ skipped' = skipped /\ flags' = flags
    BY <1>3 DEF ParseArguments, output, cmdline
  <2>2. failures' \in 0..MaxFailures
    BY <1>1, <1>3 DEF ParseArguments, Fail
  <2>3. pc' = "exec_ls" => paths' \in Seq(Nodes \cup Arguments)
    BY <1>3, ParseArgumentsDoes
  <2>4. QED
    BY <1>1, <2>1, <2>2, <2>3, TypeFromParts DEF Final
<1>4. ASSUME ListPath PROVE TypeOK'
  <2>1. PICK d \in Nodes \cup Arguments :
             /\ pc = "exec_ls" /\ stack = <<>> /\ paths # <<>> /\ d = Head(paths)
             /\ paths \in Seq(Nodes \cup Arguments) /\ paths' = Tail(paths)
             /\ argv' = argv /\ flags' = flags /\ live' = live /\ skipped' = skipped
             /\ \/ /\ d \notin Nodes \/ d \in removed
                   /\ errors' = errors \cup {d} /\ listed' = listed /\ stack' = stack
                   /\ pc' = pc /\ removed' = removed /\ failures' = failures
                \/ /\ d \in Nodes \ removed /\ Kind[d] = "dir" /\ "R" \in flags
                   /\ stack' = <<Frame(d)>>
                   /\ errors' = errors /\ listed' = listed
                   /\ pc' = pc /\ removed' = removed /\ failures' = failures
                \/ /\ d \in Nodes /\ (Kind[d] = "dir" => "R" \notin flags)
                   /\ Listing(d) /\ stack' = stack
    BY <1>4, ListPathDoes
  <2>2. paths' \in Seq(Nodes \cup Arguments)
    BY <2>1
  <2>3. stack' \in Seq(Frames)
    BY <1>1, <2>1, FrameTyped
  <2>4. /\ pc' \in {"exec_ls", "crashed"} /\ failures' \in 0..MaxFailures
        /\ removed' \subseteq Nodes /\ errors' \subseteq Nodes \cup Arguments
        /\ listed' \in Listings
    BY <1>1, <2>1, ListingKeepsType
  <2>5. QED
    BY <1>1, <2>1, <2>2, <2>3, <2>4, TypeFromParts DEF Final
<1>5. ASSUME Exit PROVE TypeOK'
  BY <1>1, <1>5, TypeFromParts DEF Exit, cmdline, outside, output, Final
<1>6. ASSUME Lstat PROVE TypeOK'
  <2>1. PICK d \in Nodes :
             /\ pc = "exec_ls" /\ pc' = pc /\ argv' = argv /\ flags' = flags /\ paths' = paths
             /\ live' = live /\ skipped' = skipped /\ listed' = listed
             /\ removed' = removed /\ failures' = failures
             /\ errors' \subseteq errors \cup {d}
             /\ Popped(stack, stack') \/ \E f : Replaced(stack, stack', f)
    BY <1>6, LstatDoes
  <2>2. stack' \in Seq(Frames)
    BY <2>1 DEF Popped, Replaced
  <2>3. QED
    BY <1>1, <2>1, <2>2, TypeFromParts
<1>7. ASSUME List PROVE TypeOK'
  <2>1. PICK d \in Nodes : \E f :
             /\ pc = "exec_ls" /\ argv' = argv /\ flags' = flags /\ paths' = paths
             /\ live' = live /\ skipped' = skipped
             /\ Listing(d) /\ Replaced(stack, stack', f)
    BY <1>7, ListDoes
  <2>2. stack' \in Seq(Frames)
    BY <2>1 DEF Replaced
  <2>3. /\ pc' \in {"exec_ls", "crashed"} /\ failures' \in 0..MaxFailures
        /\ removed' \subseteq Nodes /\ errors' \subseteq Nodes \cup Arguments
        /\ listed' \in Listings
    BY <1>1, <2>1, ListingKeepsType
  <2>4. QED
    BY <1>1, <2>1, <2>2, <2>3, TypeFromParts DEF Final
<1>8. ASSUME GetSubdirs PROVE TypeOK'
  <2>1. /\ pc = "exec_ls" /\ argv' = argv /\ flags' = flags /\ paths' = paths
        /\ listed' = listed /\ errors' = errors /\ failures' \in failures..MaxFailures
        /\ removed' \subseteq Nodes /\ skipped' \subseteq Nodes
        /\ pc' \in {pc, "crashed"}
        /\ stack' = stack \/ Popped(stack, stack') \/ \E f : Replaced(stack, stack', f)
        /\ live' = live \/ \E S \in SUBSET Nodes : live' = live \cup S
    BY <1>8, GetSubdirsDoes
  <2>2. stack' \in Seq(Frames)
    BY <1>1, <2>1 DEF Replaced, Popped
  <2>3. live' \subseteq Nodes /\ failures' \in 0..MaxFailures
    BY <1>1, <2>1
  <2>4. QED
    BY <1>1, <2>1, <2>2, <2>3, TypeFromParts DEF Final
<1>9. ASSUME Visit PROVE TypeOK'
  <2>1. /\ pc = "exec_ls"
        /\ pc' = pc /\ argv' = argv /\ flags' = flags /\ paths' = paths
        /\ live' = live /\ skipped' = skipped /\ listed' = listed
        /\ errors' = errors /\ removed' = removed /\ failures' = failures
        /\ \E f, g : Pushed(stack, stack', f, g)
    BY <1>9, VisitDoes
  <2>2. stack' \in Seq(Frames)
    BY <2>1 DEF Pushed
  <2>3. QED
    BY <1>1, <2>1, <2>2, TypeFromParts
<1>10. ASSUME FreeDirList PROVE TypeOK'
  <2>1. stack' \in Seq(Frames)
    BY <1>10, FreeDirListDoes DEF Popped
  <2>2. QED
    BY <1>1, <1>10, <2>1, FreeDirListDoes, TypeFromParts
<1>11. ASSUME RemoveNode PROVE TypeOK'
  <2>1. removed' \subseteq Nodes
    BY <1>1, <1>11 DEF RemoveNode, Vanish
  <2>2. QED
    BY <1>1, <1>11, <2>1, TypeFromParts DEF RemoveNode, cmdline, output
<1>12. ASSUME UNCHANGED vars PROVE TypeOK'
  BY <1>1, <1>12, TypeFromParts DEF vars, cmdline, outside, output
<1>13. QED
  BY <1>2, <1>3, <1>4, <1>5, <1>6, <1>7, <1>8, <1>9, <1>10, <1>11, <1>12
     DEF Next, Ls, Terminated

----------------------------------------------------------------------------
(* The stack keeps its shape. *)

LEMMA ShapePopped ==
    ASSUME NEW s \in Seq(Frames), s # <<>>, NEW fl, StackShape(s, fl), NEW t, Popped(s, t)
    PROVE  StackShape(t, fl)
<1>1. Len(s) \in Nat /\ Len(s) > 0 /\ Len(t) = Len(s) - 1 /\ \A i \in 1..Len(t) : t[i] = s[i]
  BY DEF Popped
<1>2. \A i \in 1..Len(t) : i \in 1..Len(s) /\ i < Len(s)
  BY <1>1
<1>3. \A i \in 1..Len(t) : i < Len(t) => i + 1 \in 1..Len(t)
  BY <1>1
<1>4. QED
  BY <1>1, <1>2, <1>3 DEF StackShape

LEMMA ShapeReplaced ==
    ASSUME NEW s \in Seq(Frames), s # <<>>, NEW fl, StackShape(s, fl), NEW t, NEW f,
           Replaced(s, t, f), f.path = s[Len(s)].path, FrameShape(f, fl)
    PROVE  StackShape(t, fl)
<1>1. /\ Len(s) \in Nat /\ Len(s) > 0 /\ Len(t) = Len(s)
      /\ \A i \in 1..Len(s) : t[i] = IF i = Len(s) THEN f ELSE s[i]
  BY DEF Replaced
<1>2. \A i \in 1..Len(s) : t[i].path = s[i].path
  BY <1>1
<1>3. \A i \in 1..Len(s) : i < Len(s) => t[i] = s[i] /\ i + 1 \in 1..Len(s)
  BY <1>1
<1>4. \A i \in 1..Len(t) : FrameShape(t[i], fl)
  BY <1>1 DEF StackShape
<1>5. QED
  BY <1>1, <1>2, <1>3, <1>4 DEF StackShape

LEMMA ShapePushed ==
    ASSUME NEW s \in Seq(Frames), s # <<>>, NEW fl, StackShape(s, fl), NEW t, NEW f, NEW g,
           Pushed(s, t, f, g), f.path = s[Len(s)].path, f.pc = "while",
           FrameShape(f, fl), FrameShape(g, fl),
           g.path \in Children[f.path], g.path \notin ToSet(f.tmp)
    PROVE  StackShape(t, fl)
<1> DEFINE n == Len(s)
<1>1. /\ n \in Nat /\ n > 0 /\ Len(t) = n + 1 /\ f \in Frames /\ g \in Frames
      /\ \A i \in 1..(n + 1) : t[i] = IF i = n + 1 THEN g ELSE IF i = n THEN f ELSE s[i]
  BY DEF Pushed
<1>2. /\ \A i \in 1..n : FrameShape(s[i], fl)
      /\ \A i \in 1..n : i < n =>
            /\ s[i].pc = "while"
            /\ s[i + 1].path \in Children[s[i].path]
            /\ s[i + 1].path \notin ToSet(s[i].tmp)
      /\ \A i, j \in 1..n : i <= j => s[j].path \in Below[s[i].path]
      /\ \A i \in 1..n : s[i].path \in Nodes
  <2>1. \A i \in 1..n : s[i] \in Frames
    OBVIOUS
  <2>2. QED
    BY <2>1 DEF StackShape, Frames
<1>3. n \in 1..n /\ s[n].path = f.path
  BY <1>1
<1> HIDE DEF n
<1>4. t[n + 1] = g /\ \A i \in 1..n : t[i].path = s[i].path
  BY <1>1, <1>3
<1>5. \A i \in 1..(n + 1) : i = n + 1 \/ i \in 1..n
  BY <1>1
<1>6. \A i \in 1..Len(t) : FrameShape(t[i], fl)
  BY <1>1, <1>2, <1>5
<1>7. ASSUME NEW i \in 1..Len(t), i < Len(t)
      PROVE  /\ t[i].pc = "while"
             /\ t[i + 1].path \in Children[t[i].path]
             /\ t[i + 1].path \notin ToSet(t[i].tmp)
  <2>1. CASE i = n
    <3>1. t[i] = f /\ t[i + 1] = g
      BY <1>1, <1>4, <2>1
    <3>2. QED
      BY <3>1
  <2>2. CASE i # n
    <3>1. i \in 1..n /\ i < n /\ i + 1 \in 1..n /\ t[i] = s[i]
      BY <1>1, <1>7, <2>2
    <3>2. t[i + 1].path = s[i + 1].path
      BY <1>4, <3>1
    <3>3. QED
      BY <1>2, <3>1, <3>2
  <2>3. QED
    BY <2>1, <2>2
<1>8. ASSUME NEW i \in 1..Len(t), NEW j \in 1..Len(t), i <= j
      PROVE  t[j].path \in Below[t[i].path]
  <2>1. CASE j \in 1..n
    <3>1. i \in 1..n
      BY <1>1, <1>8, <2>1
    <3>2. QED
      BY <1>2, <1>4, <1>8, <2>1, <3>1
  <2>2. CASE j = n + 1 /\ i = n + 1
    <3>1. g.path \in Nodes
      BY <1>1 DEF Frames
    <3>2. QED
      BY <1>4, <2>2, <3>1, BelowIs
  <2>3. CASE j = n + 1 /\ i \in 1..n
    <3>1. f.path \in Nodes /\ f.path \in Below[s[i].path]
      <4>1. i <= n
        BY <1>1, <2>3
      <4>2. QED
        BY <1>2, <1>3, <2>3, <4>1
    <3>2. g.path \in Below[f.path]
      BY <3>1, BelowIs
    <3>3. g.path \in Below[s[i].path]
      BY <1>2, <2>3, <3>1, <3>2, BelowTransitive
    <3>4. QED
      BY <1>4, <2>3, <3>3
  <2>4. QED
    BY <1>1, <1>5, <2>1, <2>2, <2>3
<1>9. QED
  BY <1>6, <1>7, <1>8 DEF StackShape

LEMMA ShapeOne == ASSUME NEW d \in Nodes, NEW fl PROVE StackShape(<<Frame(d)>>, fl)
<1> DEFINE f == Frame(d)
           s == <<f>>
<1>1. f.path = d /\ f.subdirs = <<>> /\ f.tmp = <<>>
  BY FrameTyped
<1> HIDE DEF f
<1>2. Len(s) = 1 /\ s[1] = f
  OBVIOUS
<1> HIDE DEF s
<1>3. \A i \in 1..Len(s) : i = 1 /\ ~ (i < Len(s))
  BY <1>2
<1>4. FrameShape(f, fl)
  BY <1>1 DEF FrameShape, ToSet, NoRepeats
<1>5. d \in Below[d]
  BY BelowIs
<1>6. StackShape(s, fl)
  BY <1>1, <1>2, <1>3, <1>4, <1>5 DEF StackShape
<1>7. QED
  BY <1>6 DEF s, f

LEMMA StackStep == ASSUME ShapeInv, [Next]_vars PROVE StackInv'
<1>1. StackShape(stack, flags) /\ stack \in Seq(Frames)
  BY DEF ShapeInv, StackInv, TypeOK
<1>2. SUFFICES StackShape(stack', flags')
  BY DEF StackInv
<1>3. \A fl : StackShape(<<>>, fl)
  BY DEF StackShape
<1>4. ASSUME stack' = stack, flags' = flags \/ stack = <<>> PROVE StackShape(stack', flags')
  BY <1>1, <1>3, <1>4
<1>5. CASE ParseFlags
  BY <1>4, <1>5 DEF ParseFlags, ShapeInv, StartInv
<1>6. CASE ParseArguments \/ Exit \/ RemoveNode \/ UNCHANGED vars
  BY <1>4, <1>6 DEF ParseArguments, Exit, RemoveNode, vars, cmdline
<1>7. CASE ListPath
  <2>1. stack' = stack \/ \E d \in Nodes : stack' = <<Frame(d)>>
    BY <1>7, ListPathDoes
  <2>2. stack = <<>>
    BY <1>7, ListPathDoes
  <2>3. QED
    BY <1>4, <2>1, <2>2, ShapeOne
<1>8. CASE Lstat
  <2>1. PICK d \in Nodes :
          /\ stack # <<>> /\ Top.path = d /\ flags' = flags
          /\ \/ \E f \in Frames :
                        /\ Replaced(stack, stack', f) /\ f.path = d
                        /\ f.subdirs = <<>> /\ f.tmp = <<>>
             \/ Popped(stack, stack')
    BY <1>8, LstatDoes
  <2>2. Top = stack[Len(stack)]
    BY <2>1, TopIs
  <2>3. ASSUME NEW f, f.subdirs = <<>>, f.tmp = <<>> PROVE FrameShape(f, flags)
    BY <2>3 DEF FrameShape, ToSet, NoRepeats
  <2>4. QED
    BY <1>1, <2>1, <2>2, <2>3, ShapePopped, ShapeReplaced
<1>9. CASE List
  <2>1. PICK d \in Nodes, f \in Frames :
          /\ stack # <<>> /\ Top.path = d /\ flags' = flags
          /\ Replaced(stack, stack', f) /\ f.path = d
          /\ f.subdirs = <<>> /\ f.tmp = <<>>
    BY <1>9, ListDoes
  <2>2. Top = stack[Len(stack)]
    BY <2>1, TopIs
  <2>3. FrameShape(f, flags)
    BY <2>1 DEF FrameShape, ToSet, NoRepeats
  <2>4. QED
    BY <1>1, <2>1, <2>2, <2>3, ShapeReplaced
<1>10. CASE GetSubdirs
  <2>1. PICK d \in Nodes :
          /\ stack # <<>> /\ Top.path = d /\ flags' = flags
          /\ \/ stack' = stack
             \/ Popped(stack, stack')
             \/ \E f \in Frames :
                        /\ Replaced(stack, stack', f)
                        /\ f.path = d /\ f.pc = "while" /\ NoRepeats(f.tmp)
                        /\ ToSet(f.tmp) \subseteq Subdirs(d)
    BY <1>10, GetSubdirsDoes
  <2>2. Top = stack[Len(stack)]
    BY <2>1, TopIs
  <2>3. ASSUME NEW f, f.path = d, f.pc = "while", NoRepeats(f.tmp), ToSet(f.tmp) \subseteq Subdirs(d)
        PROVE  FrameShape(f, flags)
    BY <2>3, SubdirsAre DEF FrameShape
  <2>4. QED
    BY <1>1, <1>4, <2>1, <2>2, <2>3, ShapePopped, ShapeReplaced
<1>11. CASE Visit
  <2>1. PICK d \in Nodes, x \in Nodes, f \in Frames, g \in Frames :
             /\ stack # <<>> /\ Top.path = d /\ flags' = flags
             /\ Pushed(stack, stack', f, g)
             /\ f.path = d /\ f.pc = "while"
             /\ ToSet(Top.tmp) = {x} \cup ToSet(f.tmp) /\ x \notin ToSet(f.tmp) /\ NoRepeats(f.tmp)
             /\ g.path = x /\ g.subdirs = <<>> /\ g.tmp = <<>>
    BY <1>11, VisitDoes
  <2>2. Top = stack[Len(stack)] /\ FrameShape(Top, flags)
    BY <2>1, TopIs
  <2>3. FrameShape(f, flags)
    BY <2>1, <2>2 DEF FrameShape
  <2>4. FrameShape(g, flags)
    BY <2>1 DEF FrameShape, ToSet, NoRepeats
  <2>5. x \in Children[d]
    BY <2>1, <2>2, SubdirsAre DEF FrameShape
  <2>6. QED
    BY <1>1, <2>1, <2>2, <2>3, <2>4, <2>5, ShapePushed
<1>12. CASE FreeDirList
  <2>1. stack # <<>> /\ flags' = flags /\ Popped(stack, stack')
    BY <1>12, FreeDirListDoes
  <2>2. QED
    BY <1>1, <2>1, ShapePopped
<1>13. QED
  BY <1>5, <1>6, <1>7, <1>8, <1>9, <1>10, <1>11, <1>12 DEF Next, Ls, Terminated

LEMMA StartStep == ASSUME ShapeInv, [Next]_vars PROVE StartInv'
<1>1. StartInv
  BY DEF ShapeInv
<1>2. ASSUME pc = "exec_ls", pc' \in {"exec_ls", "crashed"}, stack' # <<>> => "R" \in flags'
      PROVE  StartInv'
  BY <1>2 DEF StartInv
<1>3. ASSUME pc = "exec_ls", pc' \in {pc, "crashed"}, stack # <<>>, flags' = flags
      PROVE  StartInv'
  BY <1>1, <1>2, <1>3 DEF StartInv
<1>4. CASE ParseFlags
  <2>1. /\ pc = "parse_flags" /\ pc' \in {"exit_failure", "parse_arguments"}
        /\ argv' = argv /\ stack' = stack /\ live' = live /\ skipped' = skipped
        /\ listed' = listed /\ errors' = errors
        /\ pc' = "parse_arguments" => paths' = PathsOf(argv)
    BY <1>4 DEF ParseFlags, output
  <2>2. PathsOf(argv)' = PathsOf(argv)
    BY <2>1
  <2>3. QED
    BY <1>1, <2>1, <2>2 DEF StartInv
<1>5. CASE ParseArguments
  BY <1>1, <1>5 DEF ParseArguments, StartInv
<1>6. CASE ListPath
  <2>1. PICK d \in Nodes \cup Arguments :
             /\ pc = "exec_ls" /\ stack = <<>> /\ flags' = flags
             /\ \/ stack' = stack /\ pc' = pc
                \/ "R" \in flags /\ pc' = pc
                \/ Listing(d) /\ stack' = stack
    BY <1>6, ListPathDoes
  <2>2. pc' \in {"exec_ls", "crashed"}
    BY <2>1 DEF Listing
  <2>3. QED
    BY <1>2, <2>1, <2>2
<1>7. CASE Exit
  BY <1>7 DEF Exit, StartInv
<1>8. CASE Lstat
  BY <1>3, <1>8, LstatDoes
<1>9. CASE List
  <2>1. PICK d \in Nodes : pc = "exec_ls" /\ stack # <<>> /\ flags' = flags /\ Listing(d)
    BY <1>9, ListDoes
  <2>2. pc' \in {pc, "crashed"}
    BY <2>1 DEF Listing
  <2>3. QED
    BY <1>3, <2>1, <2>2
<1>10. CASE GetSubdirs
  <2>1. pc = "exec_ls" /\ stack # <<>> /\ flags' = flags /\ pc' \in {pc, "crashed"}
    BY <1>10, GetSubdirsDoes
  <2>2. QED
    BY <1>3, <2>1
<1>11. CASE Visit
  BY <1>3, <1>11, VisitDoes
<1>12. CASE FreeDirList
  BY <1>3, <1>12, FreeDirListDoes
<1>13. CASE RemoveNode \/ UNCHANGED vars
  <2>1. /\ pc' = pc /\ stack' = stack /\ live' = live /\ listed' = listed /\ errors' = errors
        /\ skipped' = skipped /\ paths' = paths /\ argv' = argv /\ flags' = flags
    BY <1>13 DEF RemoveNode, vars, cmdline, output
  <2>2. PathsOf(argv)' = PathsOf(argv)
    BY <2>1
  <2>3. QED
    BY <1>1, <2>1, <2>2 DEF StartInv
<1>14. QED
  BY <1>4, <1>5, <1>6, <1>7, <1>8, <1>9, <1>10, <1>11, <1>12, <1>13 DEF Next, Ls, Terminated

LEMMA ShapeInit == Init => ShapeInv
<1> SUFFICES ASSUME Init PROVE ShapeInv
  OBVIOUS
<1>1. TypeOK
  <2>1. /\ <<>> \in Seq(Frames) /\ {} \subseteq Nodes
        /\ <<>> \in Seq([path : Nodes, shown : Seq(Nodes \cup {Self, Up, Unnamed})])
        /\ 0 \in 0..MaxFailures
    BY BoundsAssumption
  <2>2. QED
    BY <2>1 DEF Init, TypeOK
<1>2. StartInv
  BY DEF Init, StartInv
<1>3. StackInv
  BY DEF Init, StackInv, StackShape
<1>4. QED
  BY <1>1, <1>2, <1>3 DEF ShapeInv

LEMMA ShapeStep == ShapeInv /\ [Next]_vars => ShapeInv'
BY TypeStep, StartStep, StackStep DEF ShapeInv

LEMMA ShapeAlways == Spec => []ShapeInv
BY ShapeInit, ShapeStep, PTL DEF Spec

\* Every variable of ft_ls keeps to its type: what is listed, remembered and freed are files
\* of the tree, whatever is removed and whenever malloc fails.
THEOREM TypeCorrect == Spec => []TypeOK
<1>1. ShapeInv => TypeOK
  BY DEF ShapeInv
<1>2. QED
  BY <1>1, ShapeAlways, PTL

----------------------------------------------------------------------------
(* Errors *)

LEMMA ErrorsStep == ASSUME NoFalseErrors, ShapeInv, [Next]_vars PROVE NoFalseErrors'
<1> DEFINE Right(E, gone) == E \subseteq gone \cup Unreadable \cup (Arguments \ Nodes)
<1>1. Right(errors, removed)
  BY DEF NoFalseErrors
<1>2. ASSUME argv' = argv, Right(errors', removed') PROVE NoFalseErrors'
  <2>1. Arguments' = Arguments
    BY <1>2 DEF Arguments, PathWords
  <2>2. QED
    BY <1>2, <2>1 DEF NoFalseErrors
<1>3. ASSUME NEW d, Listing(d) PROVE Right(errors', removed')
  BY <1>1, <1>3 DEF Listing
<1>4. CASE ParseFlags \/ ParseArguments \/ Exit \/ UNCHANGED vars
  <2>1. argv' = argv /\ errors' = errors /\ removed' = removed
    BY <1>4 DEF ParseFlags, ParseArguments, Exit, vars, cmdline, outside, output
  <2>2. QED
    BY <1>1, <1>2, <2>1
<1>5. CASE ListPath
  <2>1. PICK d \in Nodes \cup Arguments :
             /\ argv' = argv
             /\ \/ /\ d \notin Nodes \/ d \in removed
                   /\ errors' = errors \cup {d} /\ removed' = removed
                \/ errors' = errors /\ removed' = removed
                \/ Listing(d)
    BY <1>5, ListPathDoes
  <2>2. QED
    BY <1>1, <1>2, <1>3, <2>1
<1>6. CASE Lstat
  <2>1. PICK d \in Nodes :
             /\ argv' = argv /\ removed' = removed
             /\ errors' = errors \/ (d \in removed /\ errors' = errors \cup {d})
    BY <1>6, LstatDoes
  <2>2. QED
    BY <1>1, <1>2, <2>1
<1>7. CASE List
  BY <1>2, <1>3, <1>7, ListDoes
<1>8. CASE GetSubdirs
  <2>1. argv' = argv /\ errors' = errors /\ removed \subseteq removed'
    BY <1>8, GetSubdirsDoes
  <2>2. QED
    BY <1>1, <1>2, <2>1
<1>9. CASE Visit \/ FreeDirList
  <2>1. argv' = argv /\ errors' = errors /\ removed' = removed
    BY <1>9, VisitDoes, FreeDirListDoes
  <2>2. QED
    BY <1>1, <1>2, <2>1
<1>10. CASE RemoveNode
  <2>1. argv' = argv /\ errors' = errors /\ removed \subseteq removed'
    BY <1>10 DEF RemoveNode, Vanish, cmdline, output
  <2>2. QED
    BY <1>1, <1>2, <2>1
<1>11. QED
  BY <1>4, <1>5, <1>6, <1>7, <1>8, <1>9, <1>10 DEF Next, Ls, Terminated

\* An error is printed only for a path that does not exist, that disappeared while ft_ls ran,
\* or that cannot be opened: the two readings of a directory and the lstat of its entries
\* never blame a file for anything else.
THEOREM ErrorsAreTrue == Spec => []NoFalseErrors
<1>1. Init => NoFalseErrors
  BY DEF Init, NoFalseErrors
<1>2. NoFalseErrors /\ ShapeInv /\ [Next]_vars => NoFalseErrors'
  BY ErrorsStep
<1>3. QED
  BY <1>1, <1>2, ShapeAlways, PTL DEF Spec

----------------------------------------------------------------------------
(* Lists of subdirectories *)

(* A list that is allocated belongs to an activation that will free it. *)
Owned(s) == UNION {ToSet(s[i].subdirs) : i \in 1..Len(s)}
FreedInv == live \subseteq Owned(stack)

LEMMA FreedStep == ASSUME FreedInv, ShapeInv, [Next]_vars PROVE FreedInv'
<1>1. live \subseteq Owned(stack) /\ stack \in Seq(Frames)
  BY DEF FreedInv, ShapeInv, TypeOK
<1>2. SUFFICES live' \subseteq Owned(stack')
  BY DEF FreedInv
<1>3. ASSUME stack # <<>>, Popped(stack, stack')
      PROVE  Owned(stack) \subseteq Owned(stack') \cup ToSet(Top.subdirs)
  <2>1. /\ Len(stack) \in Nat /\ Len(stack') = Len(stack) - 1 /\ Top = stack[Len(stack)]
        /\ \A i \in 1..Len(stack') : stack'[i] = stack[i]
    BY <1>3, TopIs DEF Popped
  <2>2. \A i \in 1..Len(stack) : i = Len(stack) \/ i \in 1..Len(stack')
    BY <2>1
  <2>3. QED
    BY <2>1, <2>2 DEF Owned
<1>4. ASSUME NEW f, Replaced(stack, stack', f), stack # <<>>,
             ToSet(Top.subdirs) \subseteq ToSet(f.subdirs)
      PROVE  Owned(stack) \cup ToSet(f.subdirs) \subseteq Owned(stack')
  <2>1. /\ Len(stack) \in Nat /\ Len(stack) > 0 /\ Len(stack') = Len(stack)
        /\ Top = stack[Len(stack)]
        /\ \A i \in 1..Len(stack) : stack'[i] = IF i = Len(stack) THEN f ELSE stack[i]
    BY <1>4, TopIs DEF Replaced
  <2>2. Len(stack) \in 1..Len(stack')
    BY <2>1
  <2>3. QED
    BY <1>4, <2>1, <2>2 DEF Owned
<1>5. ASSUME stack # <<>>, Top.pc # "while" PROVE ToSet(Top.subdirs) = {}
  BY <1>5, TopIs DEF FrameShape, ToSet
<1>6. CASE ParseFlags \/ ParseArguments \/ Exit \/ RemoveNode \/ UNCHANGED vars
  <2>1. stack' = stack /\ live' = live
    BY <1>6 DEF ParseFlags, ParseArguments, Exit, RemoveNode, vars
  <2>2. QED
    BY <1>1, <2>1
<1>7. CASE ListPath
  <2>1. stack = <<>> /\ live' = live
    BY <1>7, ListPathDoes
  <2>2. Owned(<<>>) = {}
    BY DEF Owned
  <2>3. QED
    BY <1>1, <2>1, <2>2
<1>8. CASE Lstat
  <2>1. /\ stack # <<>> /\ Top.pc = "lstat" /\ live' = live
        /\ Popped(stack, stack') \/ \E f \in Frames : Replaced(stack, stack', f)
    BY <1>8, LstatDoes
  <2>2. QED
    BY <1>1, <1>3, <1>4, <1>5, <2>1
<1>9. CASE List
  <2>1. /\ stack # <<>> /\ Top.pc = "list_directory" /\ live' = live
        /\ \E f \in Frames : Replaced(stack, stack', f)
    BY <1>9, ListDoes
  <2>2. QED
    BY <1>1, <1>4, <1>5, <2>1
<1>10. CASE GetSubdirs
  <2>1. /\ stack # <<>> /\ Top.pc = "get_subdirs"
        /\ \/ stack' = stack /\ live' = live
           \/ Popped(stack, stack') /\ live' = live
           \/ \E f \in Frames : /\ Replaced(stack, stack', f)
                                /\ live' = live \cup ToSet(f.subdirs)
    BY <1>10, GetSubdirsDoes
  <2>2. QED
    BY <1>1, <1>3, <1>4, <1>5, <2>1
<1>11. CASE Visit
  <2>1. PICK d \in Nodes, x \in Nodes, f \in Frames, g \in Frames :
             /\ stack # <<>> /\ live' = live
             /\ Pushed(stack, stack', f, g) /\ f.subdirs = Top.subdirs
    BY <1>11, VisitDoes
  <2>2. /\ Len(stack) \in Nat /\ Len(stack') = Len(stack) + 1
        /\ Top = stack[Len(stack)]
        /\ \A i \in 1..(Len(stack) + 1) :
              stack'[i] = IF i = Len(stack) + 1 THEN g ELSE IF i = Len(stack) THEN f ELSE stack[i]
    BY <2>1, TopIs DEF Pushed
  <2>3. \A i \in 1..Len(stack) : i \in 1..(Len(stack) + 1) /\ i # Len(stack) + 1
    BY <2>2
  <2>4. \A i \in 1..Len(stack) : i \in 1..Len(stack') /\ stack'[i].subdirs = stack[i].subdirs
    BY <2>1, <2>2, <2>3
  <2>5. Owned(stack) \subseteq Owned(stack')
    BY <2>4 DEF Owned
  <2>6. QED
    BY <1>1, <2>1, <2>5
<1>12. CASE FreeDirList
  <2>1. stack # <<>> /\ live' = live \ ToSet(Top.subdirs) /\ Popped(stack, stack')
    BY <1>12, FreeDirListDoes
  <2>2. QED
    BY <1>1, <1>3, <2>1
<1>13. QED
  BY <1>6, <1>7, <1>8, <1>9, <1>10, <1>11, <1>12 DEF Next, Ls, Terminated

\* Every list of subdirectories is freed, in full, by the activation that built it: on every
\* way out of handle_recursive, also when the directory is gone or has no subdirectory.
THEOREM EveryListIsFreed == Spec => []ListsFreed
<1>1. Init => FreedInv
  BY DEF Init, FreedInv
<1>2. FreedInv /\ ShapeInv /\ [Next]_vars => FreedInv'
  BY FreedStep
<1>3. FreedInv => ListsFreed
  BY DEF FreedInv, ListsFreed, Owned
<1>4. QED
  BY <1>1, <1>2, <1>3, ShapeAlways, PTL DEF Spec

----------------------------------------------------------------------------
(* No directory twice, and depth first: unless the arguments overlap. *)

PathsIn(ls) == {ls[i].path : i \in 1..Len(ls)}
Fresh(d, L) == Below[d] \cap L = {}

(* What is still to be listed was not, nor was anything below it. *)
FrameFresh(f, L) ==
    /\ \A n \in ToSet(f.tmp) : Fresh(n, L)
    /\ f.pc \in {"lstat", "list_directory"} => Fresh(f.path, L)
    /\ f.pc = "get_subdirs" => \A n \in Children[f.path] : Fresh(n, L)
AllFresh(s, ps, L) ==
    /\ \A k \in 1..Len(ps) : ps[k] \in Nodes => Fresh(ps[k], L)
    /\ \A i \in 1..Len(s) : FrameFresh(s[i], L)

(* The arguments that remain are apart, from each other and from the one being listed. *)
PathsApart(s, ps) ==
    /\ \A k, l \in 1..Len(ps) : k # l /\ ps[l] \in Nodes => ps[k] \notin Below[ps[l]]
    /\ Len(s) > 0 => \A k \in 1..Len(ps) :
          /\ ps[k] \notin Below[s[1].path]
          /\ ps[k] \in Nodes => s[1].path \notin Below[ps[k]]

(* What was listed since an activation began is below its directory; a directory listed     *)
(* that has the directory of an activation below it is the directory of one; and the        *)
(* arguments that remain are below nothing that was listed.                                 *)
InOrder(s, ps, ls) ==
    /\ \A i \in 1..Len(s) : \A j, k \in 1..Len(ls) :
          j <= k /\ ls[j].path \in Below[s[i].path] => ls[k].path \in Below[s[i].path]
    /\ \A d \in PathsIn(ls) : \A i \in 1..Len(s) :
          s[i].path \in Below[d] => \E j \in 1..Len(s) : s[j].path = d
    /\ \A d \in PathsIn(ls) : \A k \in 1..Len(ps) : ps[k] \notin Below[d]

Separate(s, ps, ls) ==
    AllFresh(s, ps, PathsIn(ls)) /\ PathsApart(s, ps) /\ InOrder(s, ps, ls)

(* ListedOnce and DepthFirst of a list of listings. *)
Once(ls) == \A i, j \in 1..Len(ls) : i # j => ls[i].path # ls[j].path
Depth(ls) ==
    \A i, j, k \in 1..Len(ls) : i < j /\ j <= k =>
        /\ ls[i].path \notin Below[ls[j].path]
        /\ \A d \in PathsIn(ls) :
              ls[i].path \in Below[d] /\ ls[k].path \in Below[d] => ls[j].path \in Below[d]

LEMMA PathsTyped == ASSUME NEW ls \in Listings PROVE PathsIn(ls) \subseteq Nodes
<1> DEFINE T == [path : Nodes, shown : Seq(Shown)]
<1>1. ls \in Seq(T)
  BY DEF Listings
<1> HIDE DEF T
<1>2. \A i \in 1..Len(ls) : ls[i] \in T
  BY <1>1
<1>3. QED
  BY <1>2 DEF PathsIn, T

LEMMA FramesTyped ==
    ASSUME NEW s \in Seq(Frames)
    PROVE  /\ \A i \in 1..Len(s) : s[i] \in Frames /\ s[i].path \in Nodes
           /\ Len(s) \in Nat
<1>1. \A i \in 1..Len(s) : s[i] \in Frames
  OBVIOUS
<1>2. Len(s) \in Nat
  OBVIOUS
<1>3. QED
  BY <1>1, <1>2 DEF Frames

LEMMA SeparatePopped ==
    ASSUME NEW s \in Seq(Frames), s # <<>>, NEW ps, NEW ls \in Listings, NEW fl,
           StackShape(s, fl), Separate(s, ps, ls), NEW t, Popped(s, t)
    PROVE  Separate(t, ps, ls)
<1> DEFINE n == Len(s)
<1>1. /\ n \in Nat /\ n > 0 /\ Len(t) = n - 1 /\ \A i \in 1..Len(t) : t[i] = s[i]
      /\ \A i \in 1..n : s[i].path \in Nodes
  BY FramesTyped DEF Popped
<1> HIDE DEF n
<1>2. \A i \in 1..Len(t) : i \in 1..n /\ i <= n
  BY <1>1
<1>3. n \in 1..n /\ \A i \in 1..n : i = n \/ i \in 1..Len(t)
  BY <1>1
<1>4. AllFresh(t, ps, PathsIn(ls))
  BY <1>1, <1>2 DEF Separate, AllFresh, n
<1>5. PathsApart(t, ps)
  <2>1. Len(t) > 0 => 1 \in 1..Len(t) /\ n > 0
    BY <1>1
  <2>2. QED
    BY <1>1, <2>1 DEF Separate, PathsApart, n
<1>6. ASSUME NEW d \in PathsIn(ls), NEW i \in 1..Len(t), t[i].path \in Below[d]
      PROVE  \E j \in 1..Len(t) : t[j].path = d
  <2>1. PICK j \in 1..n : s[j].path = d
    BY <1>1, <1>2, <1>6 DEF Separate, InOrder, n
  <2>2. CASE j \in 1..Len(t)
    BY <1>1, <2>1, <2>2
  <2>3. CASE j = n
    <3>1. s[n].path \in Below[s[i].path]
      BY <1>2, <1>3 DEF StackShape, n
    <3>2. s[i].path \in Below[s[n].path]
      BY <1>1, <1>6, <2>1, <2>3
    <3>3. s[i].path = s[n].path
      BY <1>1, <1>2, <1>3, <3>1, <3>2, BelowAntisymmetric
    <3>4. QED
      BY <1>1, <2>1, <2>3, <3>3
  <2>4. QED
    BY <1>3, <2>2, <2>3
<1>7. InOrder(t, ps, ls)
  BY <1>1, <1>2, <1>6 DEF Separate, InOrder, n
<1>8. QED
  BY <1>4, <1>5, <1>7 DEF Separate

LEMMA SeparateReplaced ==
    ASSUME NEW s \in Seq(Frames), s # <<>>, NEW ps, NEW ls,
           Separate(s, ps, ls), NEW t, NEW f, Replaced(s, t, f), f.path = s[Len(s)].path,
           FrameFresh(f, PathsIn(ls))
    PROVE  Separate(t, ps, ls)
<1>1. /\ Len(s) \in Nat /\ Len(s) > 0 /\ Len(t) = Len(s)
      /\ \A i \in 1..Len(s) : t[i] = IF i = Len(s) THEN f ELSE s[i]
  BY DEF Replaced
<1>2. \A i \in 1..Len(s) : t[i].path = s[i].path
  BY <1>1
<1>3. 1 \in 1..Len(s)
  BY <1>1
<1>4. AllFresh(t, ps, PathsIn(ls))
  BY <1>1 DEF Separate, AllFresh
<1>5. PathsApart(t, ps)
  BY <1>1, <1>2, <1>3 DEF Separate, PathsApart
<1>6. InOrder(t, ps, ls)
  BY <1>1, <1>2, SMTT(30) DEF Separate, InOrder
<1>7. QED
  BY <1>4, <1>5, <1>6 DEF Separate

LEMMA SeparatePushed ==
    ASSUME NEW s \in Seq(Frames), s # <<>>, NEW ps, NEW ls \in Listings,
           Separate(s, ps, ls), NEW t, NEW f, NEW g, Pushed(s, t, f, g),
           f.path = s[Len(s)].path, g.path \in Children[f.path],
           FrameFresh(f, PathsIn(ls)), FrameFresh(g, PathsIn(ls)), Fresh(g.path, PathsIn(ls))
    PROVE  Separate(t, ps, ls)
<1> DEFINE n == Len(s)
<1>1. /\ n \in Nat /\ n > 0 /\ Len(t) = n + 1
      /\ \A i \in 1..(n + 1) : t[i] = IF i = n + 1 THEN g ELSE IF i = n THEN f ELSE s[i]
      /\ \A i \in 1..n : s[i].path \in Nodes
      /\ f.path \in Nodes /\ g.path \in Nodes
  <2>1. f \in Frames /\ g \in Frames
    BY DEF Pushed
  <2>2. f.path \in Nodes /\ g.path \in Nodes
    BY <2>1 DEF Frames
  <2>3. QED
    BY <2>2, FramesTyped DEF Pushed
<1>2. \A i \in 1..n : t[i].path = s[i].path
  BY <1>1
<1>3. n \in 1..n /\ 1 \in 1..n /\ t[n + 1] = g
  BY <1>1
<1>4. \A i \in 1..(n + 1) : i = n + 1 \/ i \in 1..n
  BY <1>1
<1>41. \A i \in 1..n : i \in 1..(n + 1)
  BY <1>1
<1>5. AllFresh(t, ps, PathsIn(ls))
  BY <1>1, <1>4 DEF Separate, AllFresh
<1> HIDE DEF n
<1>6. PathsApart(t, ps)
  BY <1>1, <1>2, <1>3 DEF Separate, PathsApart, n
<1>7. PathsIn(ls) \subseteq Nodes
  BY PathsTyped
<1>8. ASSUME NEW i \in 1..(n + 1), NEW j \in 1..Len(ls), NEW k \in 1..Len(ls), j <= k,
             ls[j].path \in Below[t[i].path]
      PROVE  ls[k].path \in Below[t[i].path]
  <2>1. CASE i = n + 1
    <3>1. ls[j].path \in PathsIn(ls) /\ ls[j].path \in Below[g.path]
      BY <1>3, <1>8, <2>1 DEF PathsIn
    <3>2. QED
      BY <3>1 DEF Fresh
  <2>2. CASE i \in 1..n
    BY <1>2, <1>8, <2>2 DEF Separate, InOrder, n
  <2>3. QED
    BY <1>4, <2>1, <2>2
<1>9. ASSUME NEW d \in PathsIn(ls), NEW i \in 1..(n + 1), t[i].path \in Below[d]
      PROVE  \E j \in 1..(n + 1) : t[j].path = d
  <2>1. PICK m \in 1..n : s[m].path \in Below[d]
    <3>1. CASE i = n + 1
      <4>1. g.path \in Below[d]
        BY <1>3, <1>9, <3>1
      <4>2. g.path # d
        <5>1. g.path \in Below[g.path]
          BY <1>1, BelowIs
        <5>2. QED
          BY <1>9, <5>1 DEF Fresh
      <4>3. d \in Nodes
        BY <1>7
      <4>4. f.path \in Below[d]
        BY <1>1, <4>1, <4>2, <4>3, ParentBelow
      <4>5. QED
        BY <1>3, <4>4 DEF n
    <3>2. CASE i \in 1..n
      BY <1>2, <1>9, <3>2
    <3>3. QED
      BY <1>4, <3>1, <3>2
  <2>2. PICK j \in 1..n : s[j].path = d
    BY <2>1 DEF Separate, InOrder, n
  <2>3. QED
    BY <1>2, <1>41, <2>2
<1>10. InOrder(t, ps, ls)
  BY <1>1, <1>8, <1>9 DEF Separate, InOrder
<1>11. QED
  BY <1>5, <1>6, <1>10 DEF Separate

LEMMA TailIs ==
    ASSUME NEW W, NEW ps \in Seq(W), ps # <<>>
    PROVE  /\ Len(ps) \in Nat /\ Len(ps) > 0 /\ Len(Tail(ps)) = Len(ps) - 1
           /\ Head(ps) = ps[1] /\ 1 \in 1..Len(ps)
           /\ \A k \in 1..Len(Tail(ps)) :
                 k + 1 \in 1..Len(ps) /\ k + 1 # 1 /\ Tail(ps)[k] = ps[k + 1]
<1>1. Len(ps) \in Nat /\ Len(ps) > 0
  OBVIOUS
<1>2. Len(Tail(ps)) = Len(ps) - 1 /\ Head(ps) = ps[1] /\ 1 \in 1..Len(ps)
  BY <1>1
<1>3. ASSUME NEW k \in 1..Len(Tail(ps))
      PROVE  k + 1 \in 1..Len(ps) /\ k + 1 # 1 /\ Tail(ps)[k] = ps[k + 1]
  <2>1. k \in 1..(Len(ps) - 1)
    BY <1>2
  <2>2. k \in Nat /\ 1 <= k /\ k + 1 <= Len(ps)
    BY <1>1, <2>1
  <2>3. k + 1 \in 1..Len(ps) /\ k + 1 # 1
    BY <1>1, <2>2
  <2>4. QED
    BY <2>1, <2>3
<1>4. QED
  BY <1>1, <1>2, <1>3

LEMMA Appended ==
    ASSUME NEW ls \in Listings, NEW d \in Nodes, NEW lines \in Seq(Shown)
    PROVE  LET t == Append(ls, [path |-> d, shown |-> lines])
           IN  /\ t \in Listings /\ Len(ls) \in Nat /\ Len(t) = Len(ls) + 1
               /\ \A i \in 1..Len(ls) : i \in 1..Len(t) /\ t[i] = ls[i] /\ t[i].path = ls[i].path
               /\ t[Len(ls) + 1].path = d /\ t[Len(ls) + 1].shown = lines
               /\ Len(ls) + 1 \in 1..Len(t)
               /\ \A i \in 1..Len(t) : i \in 1..Len(ls) \/ i = Len(ls) + 1
               /\ PathsIn(t) = PathsIn(ls) \cup {d}
<1> DEFINE T == [path : Nodes, shown : Seq(Shown)]
           e == [path |-> d, shown |-> lines]
           t == Append(ls, e)
           n == Len(ls)
<1>1. e \in T /\ e.path = d /\ e.shown = lines
  OBVIOUS
<1>2. ls \in Seq(T)
  BY DEF Listings
<1> HIDE DEF T, e
<1>3. /\ n \in Nat /\ t \in Seq(T) /\ Len(t) = n + 1 /\ t[n + 1] = e
      /\ \A i \in 1..n : t[i] = ls[i]
  BY <1>1, <1>2
<1> HIDE DEF t, n
<1>4. /\ \A i \in 1..n : i \in 1..Len(t)
      /\ \A i \in 1..Len(t) : i \in 1..n \/ i = n + 1
      /\ n + 1 \in 1..Len(t)
  BY <1>3
<1>5. PathsIn(t) = PathsIn(ls) \cup {d}
  BY <1>1, <1>3, <1>4 DEF PathsIn, n
<1>6. t \in Listings
  BY <1>3 DEF Listings, T
<1>7. QED
  BY <1>1, <1>3, <1>4, <1>5, <1>6 DEF t, e, n

\* The next argument is passed over.
LEMMA SeparateTail ==
    ASSUME NEW W, NEW ps \in Seq(W), ps # <<>>, NEW ls, Separate(<<>>, ps, ls)
    PROVE  Separate(<<>>, Tail(ps), ls)
<1> DEFINE t == Tail(ps)
<1>1. \A k \in 1..Len(t) : k + 1 \in 1..Len(ps) /\ t[k] = ps[k + 1]
  BY TailIs
<1>2. \A k, l \in 1..Len(t) : k # l => k + 1 # l + 1
  OBVIOUS
<1> HIDE DEF t
<1>3. AllFresh(<<>>, t, PathsIn(ls))
  BY <1>1 DEF Separate, AllFresh
<1>4. PathsApart(<<>>, t)
  <2>1. ASSUME NEW k \in 1..Len(t), NEW l \in 1..Len(t), k # l, t[l] \in Nodes
        PROVE  t[k] \notin Below[t[l]]
    BY <1>1, <1>2, <2>1 DEF Separate, PathsApart
  <2>2. QED
    BY <2>1 DEF PathsApart
<1>5. InOrder(<<>>, t, ls)
  BY <1>1 DEF Separate, InOrder
<1>6. QED
  BY <1>3, <1>4, <1>5 DEF Separate, t

\* handle_recursive is called for the next argument.
LEMMA SeparateFirst ==
    ASSUME NEW W, NEW ps \in Seq(W), ps # <<>>, NEW ls \in Listings, Separate(<<>>, ps, ls),
           Head(ps) \in Nodes
    PROVE  Separate(<<Frame(Head(ps))>>, Tail(ps), ls)
<1> DEFINE d == Head(ps)
           t == Tail(ps)
           s == <<Frame(d)>>
<1>1. /\ Len(s) = 1 /\ s[1] = Frame(d) /\ Frame(d).path = d /\ Frame(d).pc = "lstat"
      /\ Frame(d).tmp = <<>>
  BY FrameTyped
<1>2. d = ps[1] /\ 1 \in 1..Len(ps)
  BY TailIs
<1>3. \A k \in 1..Len(t) : k + 1 \in 1..Len(ps) /\ k + 1 # 1 /\ t[k] = ps[k + 1]
  BY TailIs
<1>4. Separate(<<>>, t, ls)
  BY SeparateTail
<1> HIDE DEF d, s, t
<1>5. \A i \in 1..Len(s) : s[i] = Frame(d)
  BY <1>1
<1>6. d \in Nodes
  BY DEF d
<1>7. Fresh(d, PathsIn(ls))
  BY <1>2, <1>6 DEF Separate, AllFresh
<1>8. AllFresh(s, t, PathsIn(ls))
  <2>1. FrameFresh(Frame(d), PathsIn(ls))
    <3>1. ToSet(Frame(d).tmp) = {}
      BY <1>1 DEF ToSet
    <3>2. QED
      BY <1>1, <1>7, <3>1 DEF FrameFresh
  <2>2. QED
    BY <1>4, <1>5, <2>1 DEF Separate, AllFresh
<1>9. PathsApart(s, t)
  <2>1. ASSUME NEW k \in 1..Len(t)
        PROVE  t[k] \notin Below[d] /\ (t[k] \in Nodes => d \notin Below[t[k]])
    BY <1>2, <1>3, <1>6 DEF Separate, PathsApart
  <2>2. QED
    BY <1>1, <1>4, <2>1 DEF Separate, PathsApart
<1>10. InOrder(s, t, ls)
  <2>1. \A j \in 1..Len(ls) : ls[j].path \notin Below[d]
    BY <1>7 DEF Fresh, PathsIn
  <2>2. \A c \in PathsIn(ls) : d \notin Below[c]
    BY <1>2 DEF Separate, InOrder
  <2>3. QED
    BY <1>1, <1>4, <1>5, <2>1, <2>2 DEF Separate, InOrder
<1>11. QED
  BY <1>8, <1>9, <1>10 DEF Separate, s, t, d

\* The next argument is listed, without -R or because it is a file.
LEMMA SeparateArgument ==
    ASSUME NEW W, NEW ps \in Seq(W), ps # <<>>, NEW ls \in Listings, Separate(<<>>, ps, ls),
           Head(ps) \in Nodes, NEW lines \in Seq(Shown)
    PROVE  Separate(<<>>, Tail(ps), Append(ls, [path |-> Head(ps), shown |-> lines]))
<1> DEFINE d == Head(ps)
           t == Tail(ps)
           m == Append(ls, [path |-> d, shown |-> lines])
<1>1. d = ps[1] /\ 1 \in 1..Len(ps) /\ d \in Nodes
  BY TailIs
<1>2. \A k \in 1..Len(t) : k + 1 \in 1..Len(ps) /\ k + 1 # 1 /\ t[k] = ps[k + 1]
  BY TailIs
<1>3. Separate(<<>>, t, ls)
  BY SeparateTail
<1>4. PathsIn(m) = PathsIn(ls) \cup {d}
  BY Appended
<1> HIDE DEF d, t, m
<1>5. ASSUME NEW k \in 1..Len(t)
      PROVE  t[k] \notin Below[d] /\ (t[k] \in Nodes => d \notin Below[t[k]])
  BY <1>1, <1>2 DEF Separate, PathsApart
<1>6. AllFresh(<<>>, t, PathsIn(m))
  <2>1. ASSUME NEW k \in 1..Len(t), t[k] \in Nodes PROVE Fresh(t[k], PathsIn(m))
    <3>1. Fresh(t[k], PathsIn(ls)) /\ d \notin Below[t[k]]
      BY <1>3, <1>5, <2>1 DEF Separate, AllFresh
    <3>2. QED
      BY <1>4, <3>1 DEF Fresh
  <2>2. Len(<<>>) = 0
    OBVIOUS
  <2>3. QED
    BY <2>1, <2>2 DEF AllFresh
<1>7. PathsApart(<<>>, t)
  BY <1>3 DEF Separate
<1>8. InOrder(<<>>, t, m)
  <2>1. Len(<<>>) = 0
    OBVIOUS
  <2>2. \A c \in PathsIn(m) : \A k \in 1..Len(t) : t[k] \notin Below[c]
    BY <1>3, <1>4, <1>5 DEF Separate, InOrder
  <2>3. QED
    BY <2>1, <2>2 DEF InOrder
<1>9. QED
  BY <1>6, <1>7, <1>8 DEF Separate, d, t, m

\* The last activation lists its directory.
LEMMA SeparateListed ==
    ASSUME NEW s \in Seq(Frames), s # <<>>, NEW fl, StackShape(s, fl), NEW ps,
           NEW ls \in Listings, Separate(s, ps, ls), NEW d \in Nodes,
           s[Len(s)].path = d, s[Len(s)].pc = "list_directory",
           NEW t, NEW f, Replaced(s, t, f), f.path = d, f.pc = "get_subdirs", f.tmp = <<>>,
           NEW lines \in Seq(Shown)
    PROVE  Separate(t, ps, Append(ls, [path |-> d, shown |-> lines])) /\ Separate(t, ps, ls)
<1> DEFINE n == Len(s)
           m == Append(ls, [path |-> d, shown |-> lines])
           L == PathsIn(ls)
<1>1. /\ n \in Nat /\ n > 0 /\ Len(t) = n
      /\ \A i \in 1..n : t[i] = IF i = n THEN f ELSE s[i]
      /\ \A i \in 1..n : s[i].path \in Nodes
  BY FramesTyped DEF Replaced
<1>2. /\ m \in Listings /\ Len(m) = Len(ls) + 1 /\ PathsIn(m) = L \cup {d} /\ Len(ls) \in Nat
      /\ \A i \in 1..Len(ls) : m[i].path = ls[i].path
      /\ m[Len(ls) + 1].path = d
      /\ \A i \in 1..Len(m) : i \in 1..Len(ls) \/ i = Len(ls) + 1
  BY Appended
<1>3. s[n].path = d /\ s[n].pc = "list_directory"
  OBVIOUS
<1> HIDE DEF n, m
<1>4. /\ 1 \in 1..n /\ n \in 1..n
      /\ \A i \in 1..n : i <= n /\ 1 <= i /\ i \in Nat
      /\ \A i \in 1..n : i = n \/ (i < n /\ i + 1 \in 1..n)
  BY <1>1
<1>5. \A i \in 1..n : t[i].path = s[i].path
  BY <1>1, <1>3
<1>6. \A i \in 1..n : d \in Below[s[i].path]
  BY <1>3, <1>4 DEF StackShape, n
<1>7. Fresh(d, L)
  BY <1>3, <1>4 DEF Separate, AllFresh, FrameFresh, n
<1>8. L \subseteq Nodes
  BY PathsTyped
<1>9. \A c \in Children[d] : Fresh(c, L) /\ Fresh(c, L \cup {d})
  <2>1. \A c \in Children[d] : d \notin Below[c] /\ Below[c] \subseteq Below[d]
    BY NotBelowChild, BelowIs
  <2>2. QED
    BY <1>7, <2>1 DEF Fresh
<1>10. FrameFresh(f, L) /\ FrameFresh(f, L \cup {d})
  <2>1. ToSet(f.tmp) = {}
    BY DEF ToSet
  <2>2. QED
    BY <1>9, <2>1 DEF FrameFresh
<1>11. Separate(t, ps, ls)
  BY <1>3, <1>10, SeparateReplaced DEF n
<1>12. AllFresh(t, ps, L \cup {d})
  <2>1. ASSUME NEW k \in 1..Len(ps), ps[k] \in Nodes PROVE Fresh(ps[k], L \cup {d})
    <3>1. Fresh(ps[k], L)
      BY <2>1 DEF Separate, AllFresh
    <3>2. /\ s[1].path \in Nodes /\ d \in Below[s[1].path]
          /\ ps[k] \notin Below[s[1].path] /\ s[1].path \notin Below[ps[k]]
      BY <1>1, <1>4, <1>6, <2>1 DEF Separate, PathsApart, n
    <3>3. d \notin Below[ps[k]]
      BY <2>1, <3>2, BelowNested
    <3>4. QED
      BY <3>1, <3>3 DEF Fresh
  <2>2. ASSUME NEW i \in 1..n PROVE FrameFresh(t[i], L \cup {d})
    <3>1. CASE i = n
      BY <1>1, <1>10, <3>1
    <3>2. CASE i < n /\ i + 1 \in 1..n
      <4>1. /\ t[i] = s[i] /\ s[i].pc = "while" /\ s[i + 1].path \in Children[s[i].path]
            /\ s[i + 1].path \notin ToSet(s[i].tmp) /\ FrameShape(s[i], fl)
        BY <1>1, <3>2 DEF StackShape, n
      <4>2. ASSUME NEW x \in ToSet(s[i].tmp) PROVE Fresh(x, L \cup {d})
        <5>1. x \in Children[s[i].path] /\ x # s[i + 1].path /\ s[i].path \in Nodes
          BY <1>1, <4>1, <4>2 DEF FrameShape, SubdirsOf
        <5>2. Below[s[i + 1].path] \cap Below[x] = {}
          BY <4>1, <5>1, SiblingsApart
        <5>3. d \in Below[s[i + 1].path]
          BY <1>6, <3>2
        <5>4. Fresh(x, L)
          BY <4>2 DEF Separate, AllFresh, FrameFresh, n
        <5>5. QED
          BY <5>2, <5>3, <5>4 DEF Fresh
      <4>3. QED
        BY <4>1, <4>2 DEF FrameFresh
    <3>3. QED
      BY <1>4, <3>1, <3>2
  <2>3. QED
    BY <1>1, <2>1, <2>2 DEF AllFresh
<1>13. PathsApart(t, ps)
  BY <1>11 DEF Separate
<1>14. InOrder(t, ps, m)
  <2>1. ASSUME NEW i \in 1..n, NEW j \in 1..Len(m), NEW k \in 1..Len(m), j <= k,
               m[j].path \in Below[t[i].path]
        PROVE  m[k].path \in Below[t[i].path]
    <3>1. CASE k = Len(ls) + 1
      BY <1>2, <1>5, <1>6, <3>1
    <3>2. CASE k \in 1..Len(ls)
      <4>1. j \in 1..Len(ls)
        BY <1>2, <2>1, <3>2
      <4>2. QED
        BY <1>1, <1>2, <1>11, <2>1, <3>2, <4>1 DEF Separate, InOrder
    <3>3. QED
      BY <1>2, <3>1, <3>2
  <2>2. ASSUME NEW c \in PathsIn(m), NEW i \in 1..n, t[i].path \in Below[c]
        PROVE  \E j \in 1..n : t[j].path = c
    <3>1. CASE c = d
      BY <1>3, <1>4, <1>5, <3>1
    <3>2. CASE c \in L
      BY <1>1, <1>11, <2>2, <3>2 DEF Separate, InOrder
    <3>3. QED
      BY <1>2, <3>1, <3>2
  <2>3. ASSUME NEW c \in PathsIn(m), NEW k \in 1..Len(ps) PROVE ps[k] \notin Below[c]
    <3>1. CASE c = d
      <4>1. s[1].path \in Nodes /\ d \in Below[s[1].path] /\ ps[k] \notin Below[s[1].path]
        BY <1>1, <1>4, <1>6 DEF Separate, PathsApart, n
      <4>2. Below[d] \subseteq Below[s[1].path]
        BY <4>1, BelowTransitive
      <4>3. QED
        BY <3>1, <4>1, <4>2
    <3>2. CASE c \in L
      BY <1>11, <3>2 DEF Separate, InOrder
    <3>3. QED
      BY <1>2, <3>1, <3>2
  <2>4. QED
    BY <1>1, <2>1, <2>2, <2>3 DEF InOrder
<1>15. QED
  BY <1>2, <1>11, <1>12, <1>13, <1>14 DEF Separate, m

\* One more listing: of a directory below which nothing was listed, where what was listed
\* since a directory above it is all below that one.
LEMMA ListedNext ==
    ASSUME NEW ls \in Listings, Once(ls), Depth(ls), NEW d \in Nodes, Fresh(d, PathsIn(ls)),
           NEW lines \in Seq(Shown),
           \A c \in PathsIn(ls) : d \in Below[c] =>
               \A i, j \in 1..Len(ls) :
                   i <= j /\ ls[i].path \in Below[c] => ls[j].path \in Below[c]
    PROVE  LET m == Append(ls, [path |-> d, shown |-> lines]) IN Once(m) /\ Depth(m)
<1> DEFINE m == Append(ls, [path |-> d, shown |-> lines])
           n == Len(ls)
<1>1. /\ m \in Listings /\ Len(m) = n + 1 /\ PathsIn(m) = PathsIn(ls) \cup {d} /\ n \in Nat
      /\ \A i \in 1..n : m[i].path = ls[i].path
      /\ m[n + 1].path = d
      /\ \A i \in 1..Len(m) : i \in 1..n \/ i = n + 1
  BY Appended
<1> HIDE DEF m
<1>2. \A i \in 1..n : ls[i].path \in PathsIn(ls) /\ ls[i].path \notin Below[d]
  BY DEF PathsIn, Fresh
<1>3. \A i \in 1..n : ls[i].path # d
  BY <1>2, BelowIs
<1> HIDE DEF n
<1>4. Once(m)
  BY <1>1, <1>3 DEF Once, n
<1>5. ASSUME NEW i \in 1..Len(m), NEW j \in 1..Len(m), NEW k \in 1..Len(m), i < j, j <= k
      PROVE  /\ m[i].path \notin Below[m[j].path]
             /\ \A c \in PathsIn(m) :
                   m[i].path \in Below[c] /\ m[k].path \in Below[c] => m[j].path \in Below[c]
  <2>1. i \in 1..n
    BY <1>1, <1>5
  <2>2. CASE j = n + 1
    <3>1. k = n + 1
      BY <1>1, <1>5, <2>2
    <3>2. QED
      BY <1>1, <1>2, <2>1, <2>2, <3>1
  <2>3. CASE j \in 1..n /\ k = n + 1
    <3>1. m[i].path \notin Below[m[j].path]
      BY <1>1, <1>5, <2>1, <2>3 DEF Depth, n
    <3>2. ASSUME NEW c \in PathsIn(m), m[i].path \in Below[c], m[k].path \in Below[c]
          PROVE  m[j].path \in Below[c]
      <4>1. c \in PathsIn(ls)
        BY <1>1, <1>2, <2>1, <3>2
      <4>2. QED
        BY <1>1, <1>5, <2>1, <2>3, <3>2, <4>1 DEF n
    <3>3. QED
      BY <3>1, <3>2
  <2>4. CASE j \in 1..n /\ k \in 1..n
    <3>1. /\ m[i].path \notin Below[m[j].path]
          /\ \A c \in PathsIn(ls) :
                m[i].path \in Below[c] /\ m[k].path \in Below[c] => m[j].path \in Below[c]
      BY <1>1, <1>5, <2>1, <2>4 DEF Depth, n
    <3>2. m[i].path \notin Below[d]
      BY <1>1, <1>2, <2>1
    <3>3. QED
      BY <1>1, <3>1, <3>2
  <2>5. QED
    BY <1>1, <2>2, <2>3, <2>4
<1>6. QED
  BY <1>4, <1>5 DEF Depth, m

ApartInv ==
    Apart => /\ Once(listed) /\ Depth(listed)
             /\ pc = "exec_ls" => Separate(stack, paths, listed)

\* The next argument is listed, if it comes to a listing at all.
LEMMA ArgumentListed ==
    ASSUME ShapeInv, pc = "exec_ls", stack = <<>>, paths # <<>>, Head(paths) \in Nodes,
           Separate(stack, paths, listed), Once(listed), Depth(listed),
           Listing(Head(paths)), stack' = stack, paths' = Tail(paths)
    PROVE  Once(listed') /\ Depth(listed') /\ Separate(stack', paths', listed')
<1>1. paths \in Seq(Nodes \cup Arguments) /\ listed \in Listings
  BY TypeParts DEF ShapeInv
<1>2. PICK d \in Nodes : d = Head(paths)
  OBVIOUS
<1>3. CASE listed' = listed
  BY <1>1, <1>3, SeparateTail
<1>4. CASE \E lines \in Seq(Shown) : listed' = Append(listed, [path |-> d, shown |-> lines])
  <2>1. PICK lines \in Seq(Shown) : listed' = Append(listed, [path |-> d, shown |-> lines])
    BY <1>4
  <2>2. d = paths[1] /\ 1 \in 1..Len(paths)
    BY <1>1, <1>2, TailIs
  <2>3. Fresh(d, PathsIn(listed))
    BY <2>2 DEF Separate, AllFresh
  <2>4. \A c \in PathsIn(listed) : d \notin Below[c]
    BY <2>2 DEF Separate, InOrder
  <2>5. Once(listed') /\ Depth(listed')
    BY <1>1, <2>1, <2>3, <2>4, ListedNext
  <2>6. Separate(<<>>, Tail(paths), Append(listed, [path |-> d, shown |-> lines]))
    BY <1>1, <1>2, SeparateArgument
  <2>7. QED
    BY <2>1, <2>5, <2>6
<1>5. Listing(d)
  BY <1>2, Zenon
<1>6. QED
  BY <1>3, <1>4, <1>5 DEF Listing

\* The last activation lists its directory, if it comes to a listing at all.
LEMMA DirectoryListed ==
    ASSUME ShapeInv, pc = "exec_ls", stack # <<>>,
           NEW d \in Nodes, Top.path = d, Top.pc = "list_directory",
           Separate(stack, paths, listed), Once(listed), Depth(listed), Listing(d),
           NEW f \in Frames, Replaced(stack, stack', f), paths' = paths,
           f.path = d, f.pc = "get_subdirs", f.tmp = <<>>
    PROVE  Once(listed') /\ Depth(listed') /\ Separate(stack', paths', listed')
<1>1. /\ stack \in Seq(Frames) /\ Len(stack) \in Nat /\ Len(stack) > 0
      /\ Top = stack[Len(stack)]
  BY TopIs
<1>2. listed \in Listings /\ StackShape(stack, flags)
  BY TypeParts DEF ShapeInv, StackInv
<1>3. \A lines \in Seq(Shown) :
          /\ Separate(stack', paths, Append(listed, [path |-> d, shown |-> lines]))
          /\ Separate(stack', paths, listed)
  BY <1>1, <1>2, SeparateListed
<1>4. CASE listed' = listed
  <2>1. <<>> \in Seq(Shown)
    OBVIOUS
  <2>2. QED
    BY <1>3, <1>4, <2>1
<1>5. CASE \E lines \in Seq(Shown) : listed' = Append(listed, [path |-> d, shown |-> lines])
  <2>1. PICK lines \in Seq(Shown) : listed' = Append(listed, [path |-> d, shown |-> lines])
    BY <1>5
  <2>2. Fresh(d, PathsIn(listed))
    <3>1. Len(stack) \in 1..Len(stack)
      BY <1>1
    <3>2. QED
      BY <1>1, <3>1 DEF Separate, AllFresh, FrameFresh
  <2>3. ASSUME NEW c \in PathsIn(listed), d \in Below[c],
               NEW i \in 1..Len(listed), NEW j \in 1..Len(listed),
               i <= j, listed[i].path \in Below[c]
        PROVE  listed[j].path \in Below[c]
    <3>1. Len(stack) \in 1..Len(stack) /\ stack[Len(stack)].path = d
      BY <1>1
    <3>2. PICK m \in 1..Len(stack) : stack[m].path = c
      BY <2>3, <3>1 DEF Separate, InOrder
    <3>3. QED
      BY <2>3, <3>2 DEF Separate, InOrder
  <2>4. Once(listed') /\ Depth(listed')
    BY <1>2, <2>1, <2>2, <2>3, ListedNext
  <2>5. QED
    BY <1>3, <2>1, <2>4
<1>6. QED
  BY <1>4, <1>5 DEF Listing

LEMMA ApartStep == ASSUME ApartInv, ShapeInv, [Next]_vars PROVE ApartInv'
<1>1. TypeOK /\ StackShape(stack, flags)
  BY DEF ShapeInv, StackInv
<1>2. listed \in Listings /\ (pc = "exec_ls" => paths \in Seq(Nodes \cup Arguments))
  BY <1>1, TypeParts
<1>3. argv' = argv
  BY DEF Next, Ls, ParseFlags, ParseArguments, ListPath, Exit, Lstat, List, GetSubdirs, Visit,
         FreeDirList, RemoveNode, Terminated, vars, cmdline
<1>4. Apart' = Apart
  BY <1>3 DEF Apart, PathWords
<1>5. SUFFICES ASSUME Apart
               PROVE  /\ (Once(listed) /\ Depth(listed))'
                      /\ pc' = "exec_ls" => Separate(stack, paths, listed)'
  BY <1>4 DEF ApartInv
<1>6. Once(listed) /\ Depth(listed) /\ (pc = "exec_ls" => Separate(stack, paths, listed))
  BY <1>5 DEF ApartInv
<1>7. ASSUME listed' = listed PROVE (Once(listed) /\ Depth(listed))'
  BY <1>6, <1>7
<1>8. ASSUME stack # <<>>
      PROVE  /\ stack \in Seq(Frames) /\ Len(stack) \in 1..Len(stack) /\ Top = stack[Len(stack)]
  BY <1>8, TopIs
<1>9. CASE ParseFlags \/ Exit
  <2>1. listed' = listed /\ pc' # "exec_ls"
    BY <1>9 DEF ParseFlags, Exit, output
  <2>2. QED
    BY <1>7, <2>1
<1>10. CASE RemoveNode \/ UNCHANGED vars
  <2>1. listed' = listed /\ stack' = stack /\ paths' = paths /\ pc' = pc
    BY <1>10 DEF RemoveNode, vars, output
  <2>2. QED
    BY <1>6, <1>7, <2>1
<1>11. CASE ParseArguments
  <2>1. listed' = listed /\ stack' = stack /\ listed = <<>> /\ stack = <<>>
    BY <1>11 DEF ParseArguments, output, ShapeInv, StartInv
  <2>2. ASSUME pc' = "exec_ls" PROVE Separate(<<>>, paths', <<>>)
    <3>1. \A k, l \in 1..Len(paths') :
              k # l /\ paths'[l] \in Nodes => paths'[k] \notin Below[paths'[l]]
      BY <1>5, <1>11, <2>2, ParseArgumentsDoes
    <3>2. PathsIn(<<>>) = {} /\ Len(<<>>) = 0
      BY DEF PathsIn
    <3>3. AllFresh(<<>>, paths', {})
      BY DEF AllFresh, Fresh
    <3>4. PathsApart(<<>>, paths') /\ InOrder(<<>>, paths', <<>>)
      BY <3>1, <3>2 DEF PathsApart, InOrder
    <3>5. QED
      BY <3>2, <3>3, <3>4 DEF Separate
  <2>3. QED
    BY <1>7, <2>1, <2>2
<1>12. CASE ListPath
  <2>1. PICK d \in Nodes \cup Arguments :
           /\ pc = "exec_ls" /\ stack = <<>> /\ paths # <<>> /\ d = Head(paths)
           /\ paths' = Tail(paths)
           /\ \/ listed' = listed /\ stack' = stack
              \/ d \in Nodes /\ listed' = listed /\ stack' = <<Frame(d)>>
              \/ d \in Nodes /\ Listing(d) /\ stack' = stack
    <3>1. PICK d \in Nodes \cup Arguments :
              /\ pc = "exec_ls" /\ stack = <<>> /\ paths # <<>> /\ d = Head(paths)
              /\ paths' = Tail(paths)
              /\ \/ listed' = listed /\ stack' = stack
                 \/ d \in Nodes \ removed /\ listed' = listed /\ stack' = <<Frame(d)>>
                 \/ d \in Nodes /\ Listing(d) /\ stack' = stack
      BY <1>12, ListPathDoes
    <3>2. QED
      BY <3>1
  <2>2. CASE listed' = listed /\ stack' = stack
    BY <1>2, <1>6, <1>7, <2>1, <2>2, SeparateTail
  <2>3. CASE d \in Nodes /\ listed' = listed /\ stack' = <<Frame(d)>>
    <3>1. Separate(<<Frame(Head(paths))>>, Tail(paths), listed)
      BY <1>2, <1>6, <2>1, <2>3, SeparateFirst
    <3>2. QED
      BY <1>7, <2>1, <2>3, <3>1
  <2>4. CASE d \in Nodes /\ Listing(d) /\ stack' = stack
    <3>1. Listing(Head(paths))
      BY <2>1, <2>4, Zenon
    <3>2. QED
      BY <1>6, <2>1, <2>4, <3>1, ArgumentListed
  <2>5. QED
    BY <2>1, <2>2, <2>3, <2>4
<1>13. CASE Lstat
  <2>1. PICK d \in Nodes :
           /\ pc = "exec_ls" /\ stack # <<>> /\ Top.pc = "lstat" /\ Top.path = d
           /\ pc' = pc /\ paths' = paths /\ listed' = listed
           /\ \/ \E f \in Frames :
                     /\ Replaced(stack, stack', f) /\ f.path = d
                     /\ f.pc = "list_directory" /\ f.subdirs = <<>> /\ f.tmp = <<>>
              \/ Popped(stack, stack')
    BY <1>13, LstatDoes
  <2>2. CASE Popped(stack, stack')
    BY <1>1, <1>2, <1>6, <1>7, <1>8, <2>1, <2>2, SeparatePopped
  <2>3. CASE \E f \in Frames :
                 /\ Replaced(stack, stack', f) /\ f.path = d
                 /\ f.pc = "list_directory" /\ f.subdirs = <<>> /\ f.tmp = <<>>
    <3>1. PICK f \in Frames : /\ Replaced(stack, stack', f) /\ f.path = d
                              /\ f.pc = "list_directory" /\ f.tmp = <<>>
      BY <2>3
    <3>2. Fresh(d, PathsIn(listed))
      BY <1>6, <1>8, <2>1 DEF Separate, AllFresh, FrameFresh
    <3>3. ToSet(f.tmp) = {}
      BY <3>1 DEF ToSet
    <3>4. FrameFresh(f, PathsIn(listed))
      BY <3>1, <3>2, <3>3 DEF FrameFresh
    <3>5. Separate(stack', paths, listed)
      BY <1>6, <1>8, <2>1, <3>1, <3>4, SeparateReplaced
    <3>6. QED
      BY <1>7, <2>1, <3>5
  <2>4. QED
    BY <2>1, <2>2, <2>3
<1>14. CASE List
  <2>1. PICK d \in Nodes : \E f \in Frames :
           /\ pc = "exec_ls" /\ stack # <<>> /\ Top.pc = "list_directory" /\ Top.path = d
           /\ paths' = paths /\ Listing(d) /\ Replaced(stack, stack', f)
           /\ f.path = d /\ f.pc = "get_subdirs" /\ f.tmp = <<>>
    BY <1>14, ListDoes
  <2>2. Once(listed') /\ Depth(listed') /\ Separate(stack', paths', listed')
    BY <1>6, <2>1, DirectoryListed
  <2>3. QED
    BY <2>2
<1>15. CASE GetSubdirs
  <2>1. PICK d \in Nodes :
           /\ stack # <<>> /\ pc = "exec_ls" /\ Top.pc = "get_subdirs" /\ Top.path = d
           /\ paths' = paths /\ listed' = listed
           /\ \/ pc' = "crashed"
              \/ Popped(stack, stack')
              \/ \E f \in Frames :
                     /\ Replaced(stack, stack', f)
                     /\ f.path = d /\ f.pc = "while" /\ ToSet(f.tmp) \subseteq Subdirs(d)
    BY <1>15, GetSubdirsDoes
  <2>2. CASE Popped(stack, stack')
    BY <1>1, <1>2, <1>6, <1>7, <1>8, <2>1, <2>2, SeparatePopped
  <2>3. CASE \E f \in Frames :
                 /\ Replaced(stack, stack', f)
                 /\ f.path = d /\ f.pc = "while" /\ ToSet(f.tmp) \subseteq Subdirs(d)
    <3>1. PICK f \in Frames :
                 /\ Replaced(stack, stack', f)
                 /\ f.path = d /\ f.pc = "while" /\ ToSet(f.tmp) \subseteq Subdirs(d)
      BY <2>3
    <3>2. \A c \in Children[d] : Fresh(c, PathsIn(listed))
      BY <1>6, <1>8, <2>1 DEF Separate, AllFresh, FrameFresh
    <3>3. FrameFresh(f, PathsIn(listed))
      BY <3>1, <3>2, SubdirsAre DEF FrameFresh
    <3>4. Separate(stack', paths, listed)
      BY <1>6, <1>8, <2>1, <3>1, <3>3, SeparateReplaced
    <3>5. QED
      BY <1>7, <2>1, <3>4
  <2>4. QED
    BY <1>7, <2>1, <2>2, <2>3
<1>16. CASE Visit
  <2>1. PICK d \in Nodes, x \in Nodes, f \in Frames, g \in Frames :
           /\ pc = "exec_ls" /\ stack # <<>> /\ Top.pc = "while" /\ Top.path = d
           /\ pc' = pc /\ paths' = paths /\ listed' = listed
           /\ Pushed(stack, stack', f, g)
           /\ f.path = d /\ f.pc = "while"
           /\ ToSet(Top.tmp) = {x} \cup ToSet(f.tmp)
           /\ g.path = x /\ g.pc = "lstat" /\ g.tmp = <<>>
    BY <1>16, VisitDoes
  <2>2. x \in Children[d]
    BY <2>1, TopIs DEF FrameShape, SubdirsOf
  <2>3. \A c \in {x} \cup ToSet(f.tmp) : Fresh(c, PathsIn(listed))
    BY <1>6, <1>8, <2>1 DEF Separate, AllFresh, FrameFresh
  <2>4. ToSet(g.tmp) = {}
    BY <2>1 DEF ToSet
  <2>5. FrameFresh(f, PathsIn(listed)) /\ FrameFresh(g, PathsIn(listed))
    BY <2>1, <2>3, <2>4 DEF FrameFresh
  <2>6. Separate(stack', paths, listed)
    BY <1>2, <1>6, <1>8, <2>1, <2>2, <2>3, <2>5, SeparatePushed
  <2>7. QED
    BY <1>7, <2>1, <2>6
<1>17. CASE FreeDirList
  <2>1. pc = "exec_ls" /\ stack # <<>> /\ Popped(stack, stack') /\ paths' = paths
        /\ listed' = listed
    BY <1>17, FreeDirListDoes
  <2>2. Separate(stack', paths, listed)
    BY <1>1, <1>2, <1>6, <1>8, <2>1, SeparatePopped
  <2>3. QED
    BY <1>7, <2>1, <2>2
<1>18. QED
  BY <1>9, <1>10, <1>11, <1>12, <1>13, <1>14, <1>15, <1>16, <1>17 DEF Next, Ls, Terminated

LEMMA ApartAlways == Spec => []ApartInv
<1>1. Init => ApartInv
  <2>1. ASSUME Init PROVE listed = <<>> /\ pc # "exec_ls" /\ Len(<<>>) = 0
    BY <2>1 DEF Init
  <2>2. QED
    BY <2>1 DEF ApartInv, Once, Depth
<1>2. ApartInv /\ ShapeInv /\ [Next]_vars => ApartInv'
  BY ApartStep
<1>3. QED
  BY <1>1, <1>2, ShapeAlways, PTL DEF Spec

\* Unless an argument is given twice or is below another one, ft_ls lists no path twice,
\* whatever is removed between the two times that handle_recursive reads a directory.
THEOREM NothingListedTwice == Spec => []ListedOnce
<1>1. ApartInv => ListedOnce
  BY DEF ApartInv, ListedOnce, Once
<1>2. QED
  BY <1>1, ApartAlways, PTL

\* Under the same condition a directory is listed before what is below it, and what is
\* below it before anything else, whatever part of the tree is lost on the way.
THEOREM ListsDepthFirst == Spec => []DepthFirst
<1>1. ApartInv => DepthFirst
  <2>1. Listed = PathsIn(listed)
    BY DEF Listed, PathsIn
  <2>2. QED
    BY <2>1 DEF ApartInv, DepthFirst, Depth
<1>2. QED
  BY <1>1, ApartAlways, PTL

----------------------------------------------------------------------------
(* A complete traversal. First the lines: each listing of a directory lacks at most one for *)
(* each call of malloc that failed.                                                         *)

MissingInv ==
    pc # "crashed" => \A i \in 1..Len(listed) :
        Kind[listed[i].path] = "dir" =>
            LacksAtMost(failures, listed[i].path, listed[i].shown, removed)

\* Fewer files to show and more failures.
LEMMA LacksStill ==
    ASSUME NEW d \in Nodes, NEW lines, NEW gone, NEW gone2, gone \subseteq gone2,
           NEW m \in Nat, NEW n \in Nat, m <= n, LacksAtMost(m, d, lines, gone)
    PROVE  LacksAtMost(n, d, lines, gone2)
<1> DEFINE A == Left(d, gone) \ ToSet(lines)
           B == Left(d, gone2) \ ToSet(lines)
<1>1. B \subseteq A
  BY DEF Left
<1>2. A \in SUBSET Entry
  BY ChildrenWellFounded DEF Left, Entry
<1>3. IsFiniteSet(A) /\ IsFiniteSet(B)
  BY <1>1, <1>2, EntriesFinite
<1>4. Cardinality(A) \in Nat /\ Cardinality(B) \in Nat
  BY <1>3, FS_CardinalityType
<1>5. Cardinality(B) <= Cardinality(A)
  BY <1>1, <1>3, FS_Subset
<1>6. Cardinality(A) <= m
  BY DEF LacksAtMost
<1> HIDE DEF A, B
<1>7. Cardinality(B) <= n
  BY <1>4, <1>5, <1>6
<1>8. QED
  BY <1>7 DEF LacksAtMost, B

\* What an action does to the listings, once the flags are known.
LEMMA ListingsGrow ==
    ASSUME ShapeInv, [Next]_vars
    PROVE  /\ argv' = argv /\ removed \subseteq removed' /\ failures' \in failures..MaxFailures
           /\ skipped \subseteq skipped'
           /\ flags' = flags \/ (pc = "parse_flags" /\ listed' = <<>>)
           /\ pc = "crashed" => pc' = "crashed"
           /\ \/ listed' = listed
              \/ \E d \in Nodes : flags' = flags /\ Listing(d)
<1>1. TypeOK /\ StartInv
  BY DEF ShapeInv
<1>2. failures \in 0..MaxFailures /\ MaxFailures \in Nat
  BY <1>1, TypeParts
<1>3. failures \in failures..MaxFailures
  BY <1>2
<1>4. ASSUME NEW n \in Nat, Fail(n) PROVE failures' \in failures..MaxFailures
  BY <1>2, <1>4 DEF Fail
<1>5. CASE ParseFlags
  <2>1. /\ argv' = argv /\ removed' = removed /\ listed' = listed /\ skipped' = skipped
        /\ pc = "parse_flags" /\ listed = <<>>
    BY <1>1, <1>5 DEF ParseFlags, output, StartInv
  <2>2. Fail(1) \/ Fail(0)
    BY <1>5 DEF ParseFlags
  <2>3. failures' \in failures..MaxFailures
    BY <1>4, <2>2
  <2>4. QED
    BY <2>1, <2>3
<1>6. CASE ParseArguments
  <2>1. /\ argv' = argv /\ flags' = flags /\ removed' = removed /\ listed' = listed
        /\ skipped' = skipped /\ pc = "parse_arguments"
    BY <1>6 DEF ParseArguments, output, cmdline
  <2>2. Fail(1) \/ Fail(0)
    BY <1>6 DEF ParseArguments
  <2>3. failures' \in failures..MaxFailures
    BY <1>4, <2>2
  <2>4. QED
    BY <2>1, <2>3
<1>7. CASE Exit \/ RemoveNode \/ UNCHANGED vars
  <2>1. /\ argv' = argv /\ flags' = flags /\ failures' = failures /\ listed' = listed
        /\ skipped' = skipped /\ (pc = "crashed" => pc' = "crashed")
    BY <1>7 DEF Exit, RemoveNode, vars, output, cmdline, outside
  <2>2. removed \subseteq removed'
    BY <1>7 DEF Exit, RemoveNode, vars, outside, Vanish
  <2>3. QED
    BY <1>3, <2>1, <2>2
<1>8. CASE ListPath
  <2>1. PICK d \in Nodes \cup Arguments :
          /\ pc = "exec_ls" /\ argv' = argv /\ flags' = flags /\ skipped' = skipped
          /\ \/ listed' = listed /\ removed' = removed /\ failures' = failures
             \/ d \in Nodes /\ Listing(d)
    BY <1>8, ListPathDoes
  <2>2. QED
    BY <1>3, <2>1 DEF Listing
<1>9. CASE List
  <2>1. PICK d \in Nodes :
          /\ pc = "exec_ls" /\ argv' = argv /\ flags' = flags /\ skipped' = skipped /\ Listing(d)
    BY <1>9, ListDoes
  <2>2. QED
    BY <2>1 DEF Listing
<1>10. CASE Lstat
  <2>1. /\ pc = "exec_ls" /\ argv' = argv /\ flags' = flags /\ skipped' = skipped
        /\ listed' = listed /\ removed' = removed /\ failures' = failures
    BY <1>10, LstatDoes
  <2>2. QED
    BY <1>3, <2>1
<1>11. CASE GetSubdirs
  <2>1. /\ pc = "exec_ls" /\ argv' = argv /\ flags' = flags /\ skipped \subseteq skipped'
        /\ listed' = listed /\ removed \subseteq removed' /\ failures' \in failures..MaxFailures
    BY <1>11, GetSubdirsDoes
  <2>2. QED
    BY <2>1
<1>12. CASE Visit
  <2>1. /\ pc = "exec_ls" /\ argv' = argv /\ flags' = flags /\ skipped' = skipped
        /\ listed' = listed /\ removed' = removed /\ failures' = failures
    BY <1>12, VisitDoes
  <2>2. QED
    BY <1>3, <2>1
<1>13. CASE FreeDirList
  <2>1. /\ pc = "exec_ls" /\ argv' = argv /\ flags' = flags /\ skipped' = skipped
        /\ listed' = listed /\ removed' = removed /\ failures' = failures
    BY <1>13, FreeDirListDoes
  <2>2. QED
    BY <1>3, <2>1
<1>14. QED
  BY <1>5, <1>6, <1>7, <1>8, <1>9, <1>10, <1>11, <1>12, <1>13 DEF Next, Ls, Terminated

LEMMA MissingStep == ASSUME MissingInv, ShapeInv, [Next]_vars PROVE MissingInv'
<1>1. listed \in Listings /\ failures \in 0..MaxFailures /\ MaxFailures \in Nat
  BY TypeParts DEF ShapeInv
<1>2. /\ removed \subseteq removed' /\ failures' \in failures..MaxFailures
      /\ flags' = flags \/ (pc = "parse_flags" /\ listed' = <<>>)
      /\ pc = "crashed" => pc' = "crashed"
      /\ \/ listed' = listed
         \/ \E d \in Nodes : flags' = flags /\ Listing(d)
  BY ListingsGrow
<1>3. failures \in Nat /\ failures' \in Nat /\ failures <= failures'
  BY <1>1, <1>2
<1>4. SUFFICES ASSUME pc' # "crashed", NEW i \in 1..Len(listed'), Kind[listed'[i].path] = "dir"
               PROVE  LacksAtMost(failures, listed[i].path, listed[i].shown, removed)'
  BY DEF MissingInv
<1>5. pc # "crashed" /\ (\A j \in 1..Len(listed) : Kind[listed[j].path] = "dir" =>
          LacksAtMost(failures, listed[j].path, listed[j].shown, removed))
  BY <1>2, <1>4 DEF MissingInv
<1>6. CASE listed' = <<>>
  BY <1>4, <1>6
<1>7. ASSUME flags' = flags,
             LacksAtMost(failures', listed'[i].path, listed'[i].shown, removed')
      PROVE  LacksAtMost(failures, listed[i].path, listed[i].shown, removed)'
  BY <1>7 DEF LacksAtMost, Left, Hidden
<1>8. ASSUME NEW j \in 1..Len(listed), Kind[listed[j].path] = "dir"
      PROVE  LacksAtMost(failures', listed[j].path, listed[j].shown, removed')
  <2>1. listed[j].path \in Nodes
    BY <1>1, PathsTyped DEF PathsIn
  <2>2. LacksAtMost(failures, listed[j].path, listed[j].shown, removed)
    BY <1>5, <1>8
  <2>3. QED
    BY <1>2, <1>3, <2>1, <2>2, LacksStill
<1>9. CASE flags' = flags /\ listed' = listed
  BY <1>4, <1>7, <1>8, <1>9
<1>10. CASE \E d \in Nodes : flags' = flags /\ Listing(d) /\ listed' # listed
  <2>1. PICK d \in Nodes : flags' = flags /\ Listing(d) /\ listed' # listed
    BY <1>10
  <2>2. PICK lines \in Seq(Shown) :
           /\ listed' = Append(listed, [path |-> d, shown |-> lines])
           /\ pc' = "exec_ls" /\ Kind[d] = "dir" => LacksAtMost(failures', d, lines, removed')
    BY <2>1 DEF Listing
  <2>3. pc' = "exec_ls"
    BY <1>4, <2>1 DEF Listing
  <2>4. /\ i \in 1..Len(listed) \/ i = Len(listed) + 1
        /\ i \in 1..Len(listed) => listed'[i] = listed[i]
        /\ i = Len(listed) + 1 => listed'[i].path = d /\ listed'[i].shown = lines
    BY <1>1, <2>2, Appended
  <2>5. LacksAtMost(failures', listed'[i].path, listed'[i].shown, removed')
    BY <1>4, <1>8, <2>2, <2>3, <2>4
  <2>6. QED
    BY <1>7, <2>1, <2>5
<1>11. QED
  BY <1>2, <1>6, <1>9, <1>10

(* Then the directories. A subdirectory of a directory that was listed is listed itself, or *)
(* an activation will come to it; unless it is skipped or gone.                             *)
ToCome(f, n) ==
    \/ f.pc = "get_subdirs" /\ n \in Children[f.path]
    \/ n \in ToSet(f.tmp)
    \/ f.path = n /\ f.pc \in {"lstat", "list_directory"}
ToComeIn(s, n) == \E i \in 1..Len(s) : ToCome(s[i], n)
Followed(L, s, gone, skip, fl) ==
    \A d \in L \ gone : \A n \in SubdirsOf(d, fl) \ (gone \cup skip) : n \in L \/ ToComeIn(s, n)

(* A directory given as an argument is listed, or it is still among the paths, or it is *)
(* what the first activation begins with.                                               *)
Begun(L, s, ps, R, gone) ==
    \A r \in R \ gone :
        \/ r \in L \cup ToSet(ps)
        \/ s # <<>> /\ s[1].path = r /\ s[1].pc \in {"lstat", "list_directory"}

CompleteInv ==
    pc \in {"exec_ls", "exit_success"} /\ "R" \in flags =>
        /\ Followed(PathsIn(listed), stack, removed \cup Unreadable, skipped, flags)
        /\ Begun(PathsIn(listed), stack, paths, Roots, removed \cup Unreadable)

\* What the activations will come to after one of them returned, went on or called another.
LEMMA ToComeAfter ==
    ASSUME NEW s \in Seq(Frames), s # <<>>, NEW t, NEW n
    PROVE  /\ Popped(s, t) /\ ToComeIn(s, n) => ToCome(s[Len(s)], n) \/ ToComeIn(t, n)
           /\ \A f : Replaced(s, t, f) =>
                 /\ ToComeIn(s, n) => ToCome(s[Len(s)], n) \/ ToComeIn(t, n)
                 /\ ToCome(f, n) => ToComeIn(t, n)
           /\ \A f, g : Pushed(s, t, f, g) =>
                 /\ ToComeIn(s, n) => ToCome(s[Len(s)], n) \/ ToComeIn(t, n)
                 /\ ToCome(f, n) \/ ToCome(g, n) => ToComeIn(t, n)
<1> DEFINE k == Len(s)
<1>1. k \in Nat /\ k > 0 /\ k \in 1..k /\ \A i \in 1..k : i = k \/ (i < k /\ i # k /\ i # k + 1)
  BY FramesTyped
<1>2. \A i \in 1..k : i = k \/ i \in 1..(k - 1)
  BY <1>1
<1>3. \A i \in 1..k : i \in 1..(k + 1)
  BY <1>1
<1>4. k + 1 \in 1..(k + 1) /\ k # k + 1
  BY <1>1
<1> HIDE DEF k
<1>5. ASSUME Popped(s, t), ToComeIn(s, n) PROVE ToCome(s[k], n) \/ ToComeIn(t, n)
  <2>1. Len(t) = k - 1 /\ \A i \in 1..(k - 1) : t[i] = s[i]
    BY <1>5 DEF Popped, k
  <2>2. PICK i \in 1..k : ToCome(s[i], n)
    BY <1>5 DEF ToComeIn, k
  <2>3. QED
    BY <1>2, <2>1, <2>2 DEF ToComeIn
<1>6. ASSUME NEW f, Replaced(s, t, f)
      PROVE  /\ ToComeIn(s, n) => ToCome(s[k], n) \/ ToComeIn(t, n)
             /\ ToCome(f, n) => ToComeIn(t, n)
  <2>1. Len(t) = k /\ \A i \in 1..k : t[i] = IF i = k THEN f ELSE s[i]
    BY <1>6 DEF Replaced, k
  <2>2. t[k] = f /\ \A i \in 1..k : i # k => t[i] = s[i]
    BY <1>1, <2>1
  <2>3. ASSUME ToComeIn(s, n) PROVE ToCome(s[k], n) \/ ToComeIn(t, n)
    <3>1. PICK i \in 1..k : ToCome(s[i], n)
      BY <2>3 DEF ToComeIn, k
    <3>2. QED
      BY <2>1, <2>2, <3>1 DEF ToComeIn
  <2>4. QED
    BY <1>1, <2>1, <2>2, <2>3 DEF ToComeIn
<1>7. ASSUME NEW f, NEW g, Pushed(s, t, f, g)
      PROVE  /\ ToComeIn(s, n) => ToCome(s[k], n) \/ ToComeIn(t, n)
             /\ ToCome(f, n) \/ ToCome(g, n) => ToComeIn(t, n)
  <2>1. /\ Len(t) = k + 1
        /\ \A i \in 1..(k + 1) : t[i] = IF i = k + 1 THEN g ELSE IF i = k THEN f ELSE s[i]
    BY <1>7 DEF Pushed, k
  <2>2. t[k] = f /\ t[k + 1] = g /\ \A i \in 1..k : i # k => t[i] = s[i]
    BY <1>1, <1>3, <1>4, <2>1
  <2>3. ASSUME ToComeIn(s, n) PROVE ToCome(s[k], n) \/ ToComeIn(t, n)
    <3>1. PICK i \in 1..k : ToCome(s[i], n)
      BY <2>3 DEF ToComeIn, k
    <3>2. QED
      BY <1>3, <2>1, <2>2, <3>1 DEF ToComeIn
  <2>4. QED
    BY <1>1, <1>3, <1>4, <2>1, <2>2, <2>3 DEF ToComeIn
<1>8. QED
  BY <1>5, <1>6, <1>7 DEF k

\* Only the last activation is about to begin with its directory.
LEMMA FirstIsTop ==
    ASSUME ShapeInv, stack # <<>>
    PROVE  /\ stack[1].pc # "while" => Len(stack) = 1 /\ stack[1] = Top
           /\ \A t : /\ Popped(stack, t) /\ stack[1] # Top => t # <<>> /\ t[1] = stack[1]
                     /\ \A f : Replaced(stack, t, f) =>
                           t # <<>> /\ t[1] = IF Len(stack) = 1 THEN f ELSE stack[1]
<1>1. /\ stack \in Seq(Frames) /\ Len(stack) \in Nat /\ Len(stack) > 0
      /\ Top = stack[Len(stack)]
  BY TopIs
<1>2. 1 \in 1..Len(stack) /\ (Len(stack) # 1 => 1 < Len(stack))
  <2> DEFINE k == Len(stack)
  <2>1. k \in Nat /\ k > 0
    BY <1>1
  <2> HIDE DEF k
  <2>2. 1 \in 1..k /\ (k # 1 => 1 < k)
    BY <2>1
  <2>3. QED
    BY <2>2 DEF k
<1>3. stack[1].pc # "while" => Len(stack) = 1 /\ stack[1] = Top
  BY <1>1, <1>2 DEF ShapeInv, StackInv, StackShape
<1>4. ASSUME NEW t, Popped(stack, t), stack[1] # Top PROVE t # <<>> /\ t[1] = stack[1]
  <2>1. 1 < Len(stack)
    BY <1>1, <1>2, <1>4
  <2>2. Len(t) = Len(stack) - 1 /\ \A i \in 1..Len(t) : t[i] = stack[i]
    BY <1>4 DEF Popped
  <2>3. 1 \in 1..Len(t) /\ Len(t) # 0
    BY <1>1, <2>1, <2>2
  <2>4. QED
    BY <2>2, <2>3
<1>5. ASSUME NEW t, NEW f, Replaced(stack, t, f)
      PROVE  t # <<>> /\ t[1] = IF Len(stack) = 1 THEN f ELSE stack[1]
  <2>1. Len(t) = Len(stack) /\ t[1] = IF 1 = Len(stack) THEN f ELSE stack[1]
    BY <1>2, <1>5 DEF Replaced
  <2>2. Len(t) # 0
    BY <1>1, <2>1
  <2>3. QED
    BY <2>1, <2>2
<1>6. QED
  BY <1>3, <1>4, <1>5

\* What listing d leaves to come.
LEMMA GoneNodes ==
    ASSUME ShapeInv, [Next]_vars
    PROVE  removed \cup Unreadable \subseteq (removed \cup Unreadable)'
BY ListingsGrow

LEMMA FollowedStep ==
    ASSUME CompleteInv, ShapeInv, [Next]_vars, "R" \in flags', pc' \in {"exec_ls", "exit_success"}
    PROVE  Followed(PathsIn(listed), stack, removed \cup Unreadable, skipped, flags)'
<1> DEFINE L == PathsIn(listed)
           gone == removed \cup Unreadable
<1>1. TypeOK /\ listed \in Listings /\ StackShape(stack, flags)
  BY TypeParts DEF ShapeInv, StackInv
<1>2. CASE pc \in {"parse_flags", "parse_arguments"}
  <2>1. listed' = <<>>
    BY <1>2 DEF ShapeInv, StartInv, Next, Ls, ParseFlags, ParseArguments, ListPath, Exit, Lstat,
       List, GetSubdirs, Visit, FreeDirList, RemoveNode, Terminated, At, vars, output
  <2>2. PathsIn(<<>>) = {}
    BY DEF PathsIn
  <2>3. QED
    BY <2>1, <2>2 DEF Followed
<1>3. CASE pc \notin {"parse_flags", "parse_arguments"}
  <2>1. /\ removed \subseteq removed' /\ flags' = flags /\ skipped \subseteq skipped'
        /\ \/ listed' = listed
           \/ \E d \in Nodes : Listing(d)
    BY <1>3, ListingsGrow
  <2>2. pc \in {"exec_ls", "exit_success"}
    BY <1>3 DEF Next, Ls, ParseFlags, ParseArguments, ListPath, Exit, Lstat,
       List, GetSubdirs, Visit, FreeDirList, RemoveNode, Terminated, At, vars, Final
  <2>3. Followed(L, stack, gone, skipped, flags)
    BY <2>1, <2>2 DEF CompleteInv
  <2>4. L \subseteq PathsIn(listed') /\ PathsIn(listed') \subseteq Nodes
    <3>1. CASE listed' = listed
      BY <1>1, <3>1, PathsTyped
    <3>2. CASE \E e \in Nodes, lines \in Seq(Shown) :
                   listed' = Append(listed, [path |-> e, shown |-> lines])
      <4>1. PICK e \in Nodes, lines \in Seq(Shown) :
                   listed' = Append(listed, [path |-> e, shown |-> lines])
        BY <3>2
      <4>2. PathsIn(listed') = L \cup {e} /\ L \subseteq Nodes
        BY <1>1, <4>1, PathsTyped, Appended
      <4>3. QED
        BY <4>2
    <3>3. QED
      BY <2>1, <3>1, <3>2 DEF Listing
  <2>5. SUFFICES ASSUME NEW d \in PathsIn(listed'), NEW n \in SubdirsOf(d, flags),
                        d \notin gone', n \notin gone', n \notin skipped'
                 PROVE  n \in PathsIn(listed') \/ ToComeIn(stack', n)
    BY <2>1 DEF Followed, SubdirsOf, Hidden, IsDir
  <2> HIDE DEF L
  <2>6. d \in Nodes /\ n \in Nodes /\ n \in Children[d] /\ n \in Subdirs(d)
    BY <2>4, SubdirsAre, ChildrenWellFounded
  <2>7. d \notin gone /\ n \notin gone /\ n \notin skipped
    BY <2>1, <2>5
  <2>8. d \in L => n \in PathsIn(listed') \/ ToComeIn(stack, n)
    BY <2>3, <2>4, <2>5, <2>7 DEF Followed
  <2>9. CASE stack' = stack /\ listed' = listed
    BY <2>8, <2>9 DEF L
  <2>10. ASSUME stack # <<>>
         PROVE  /\ stack \in Seq(Frames) /\ Len(stack) \in 1..Len(stack)
                /\ Top = stack[Len(stack)] /\ FrameShape(Top, flags)
    BY <2>10, TopIs
  <2>11. ASSUME stack # <<>>, listed' = listed, ToCome(Top, n) => ToComeIn(stack', n),
                \/ Popped(stack, stack')
                \/ \E f \in Frames : Replaced(stack, stack', f)
                \/ \E f, g \in Frames : Pushed(stack, stack', f, g)
         PROVE  ToComeIn(stack', n) \/ n \in PathsIn(listed')
    <3>1. d \in L
      BY <2>11 DEF L
    <3>2. ToComeIn(stack, n) => ToCome(Top, n) \/ ToComeIn(stack', n)
      BY <2>10, <2>11, ToComeAfter
    <3>3. QED
      BY <2>8, <2>11, <3>1, <3>2
  <2>12. CASE Exit \/ RemoveNode \/ Terminated \/ UNCHANGED vars
    <3>1. stack' = stack /\ listed' = listed
      BY <2>12 DEF Exit, RemoveNode, Terminated, vars, output
    <3>2. QED
      BY <2>9, <3>1
  <2>13. CASE ListPath
    <3>1. stack = <<>>
      BY <2>13 DEF ListPath
    <3>2. d \in L => n \in PathsIn(listed')
      <4>1. Len(<<>>) = 0
        OBVIOUS
      <4>2. QED
        BY <2>8, <3>1, <4>1 DEF ToComeIn
    <3>3. PICK e \in Nodes \cup Arguments :
             \/ listed' = listed
             \/ e \in Nodes /\ (Kind[e] = "dir" => "R" \notin flags) /\ Listing(e)
      BY <2>13, ListPathDoes
    <3>4. CASE listed' = listed
      BY <3>2, <3>4 DEF L
    <3>5. CASE e \in Nodes /\ (Kind[e] = "dir" => "R" \notin flags) /\ Listing(e)
               /\ listed' # listed
      <4>1. PICK lines \in Seq(Shown) : listed' = Append(listed, [path |-> e, shown |-> lines])
        BY <3>5 DEF Listing
      <4>2. PathsIn(listed') = L \cup {e}
        BY <1>1, <3>5, <4>1, Appended DEF L
      <4>3. Children[e] = {}
        BY <2>1, <3>5, TreeAssumption
      <4>4. QED
        BY <2>6, <3>2, <4>2, <4>3
    <3>6. QED
      BY <3>3, <3>4, <3>5
  <2>14. CASE Lstat
    <3>1. PICK e \in Nodes :
             /\ stack # <<>> /\ Top.pc = "lstat" /\ Top.path = e /\ listed' = listed
             /\ \/ \E f \in Frames : /\ Replaced(stack, stack', f) /\ f.path = e
                                     /\ f.pc = "list_directory"
                \/ e \in removed /\ Popped(stack, stack')
      BY <2>14, LstatDoes
    <3>2. ToCome(Top, n) => n = e
      <4>1. ToSet(Top.tmp) = {}
        BY <2>10, <3>1 DEF FrameShape, ToSet
      <4>2. QED
        BY <3>1, <4>1 DEF ToCome
    <3>3. ToCome(Top, n) => ToComeIn(stack', n)
      <4>1. CASE e \in removed
        BY <2>7, <3>2, <4>1
      <4>2. ASSUME NEW f \in Frames, Replaced(stack, stack', f), f.path = e,
                   f.pc = "list_directory"
            PROVE  ToCome(Top, n) => ToComeIn(stack', n)
        <5>1. n = e => ToCome(f, n)
          BY <4>2 DEF ToCome
        <5>2. QED
          BY <2>10, <3>1, <3>2, <4>2, <5>1, ToComeAfter
      <4>3. QED
        BY <3>1, <4>1, <4>2
    <3>4. QED
      BY <2>11, <3>1, <3>3
  <2>15. CASE List
    <3>1. PICK e \in Nodes, f \in Frames :
             /\ stack # <<>> /\ Top.pc = "list_directory" /\ Top.path = e
             /\ Listing(e) /\ Replaced(stack, stack', f) /\ f.path = e /\ f.pc = "get_subdirs"
      <4>1. PICK e \in Nodes : \E f \in Frames :
               /\ stack # <<>> /\ Top.pc = "list_directory" /\ Top.path = e
               /\ Listing(e) /\ Replaced(stack, stack', f) /\ f.path = e /\ f.pc = "get_subdirs"
        BY <2>15, ListDoes
      <4>2. QED
        BY <4>1
    <3>2. pc' = "exec_ls"
      BY <2>5, <3>1 DEF Listing
    <3>3. \/ listed' = listed /\ e \in gone'
          \/ PathsIn(listed') = L \cup {e}
      <4>1. CASE listed' = listed /\ (pc' = "crashed" \/ e \in removed' \cup Unreadable)
        BY <3>2, <4>1
      <4>2. CASE \E lines \in Seq(Shown) : listed' = Append(listed, [path |-> e, shown |-> lines])
        BY <1>1, <4>2, Appended DEF L
      <4>3. QED
        BY <3>1, <4>1, <4>2 DEF Listing
    <3>4. ToCome(Top, n) => n = e
      <4>1. ToSet(Top.tmp) = {}
        BY <2>10, <3>1 DEF FrameShape, ToSet
      <4>2. QED
        BY <3>1, <4>1 DEF ToCome
    <3>5. CASE d \in L
      <4>1. ToComeIn(stack, n) => n = e \/ ToComeIn(stack', n)
        BY <2>10, <3>1, <3>4, ToComeAfter
      <4>2. QED
        BY <2>5, <2>8, <3>3, <3>5, <4>1
    <3>6. CASE d = e
      <4>1. ToCome(f, n)
        BY <2>6, <3>1, <3>6 DEF ToCome
      <4>2. QED
        BY <2>10, <3>1, <4>1, ToComeAfter
    <3>7. QED
      BY <2>5, <3>3, <3>5, <3>6 DEF L
  <2>16. CASE GetSubdirs
    <3>1. PICK e \in Nodes :
             /\ stack # <<>> /\ pc = "exec_ls" /\ Top.pc = "get_subdirs" /\ Top.path = e
             /\ listed' = listed
             /\ \/ pc' = "crashed"
                \/ Popped(stack, stack') /\ (e \in removed' \cup Unreadable \/ Collected(e, {}))
                \/ \E f \in Frames : Replaced(stack, stack', f) /\ Collected(e, ToSet(f.tmp))
      BY <2>16, GetSubdirsDoes
    <3>2. ToCome(Top, n) => e = d
      <4>1. ToSet(Top.tmp) = {}
        BY <2>10, <3>1 DEF FrameShape, ToSet
      <4>2. ToCome(Top, n) => n \in Children[e]
        BY <3>1, <4>1 DEF ToCome
      <4>3. QED
        BY <2>6, <4>2, ChildrenWellFounded
    <3>3. \A tmp : Collected(d, tmp) => n \in tmp
      BY <2>5, <2>6 DEF Collected
    <3>4. CASE Popped(stack, stack') /\ (e \in removed' \cup Unreadable \/ Collected(e, {}))
      <4>1. ~ ToCome(Top, n)
        BY <2>5, <3>2, <3>3, <3>4
      <4>2. QED
        BY <2>11, <3>1, <3>4, <4>1
    <3>5. CASE \E f \in Frames : Replaced(stack, stack', f) /\ Collected(e, ToSet(f.tmp))
      <4>1. PICK f \in Frames : Replaced(stack, stack', f) /\ Collected(e, ToSet(f.tmp))
        BY <3>5
      <4>2. e = d => ToCome(f, n)
        BY <3>3, <4>1 DEF ToCome
      <4>3. ToCome(Top, n) => ToComeIn(stack', n)
        BY <2>10, <3>1, <3>2, <4>1, <4>2, ToComeAfter
      <4>4. QED
        BY <2>11, <3>1, <4>1, <4>3
    <3>6. QED
      BY <2>5, <3>1, <3>4, <3>5
  <2>17. CASE Visit
    <3>1. PICK e \in Nodes, x \in Nodes, f \in Frames, g \in Frames :
             /\ stack # <<>> /\ Top.pc = "while" /\ listed' = listed
             /\ Pushed(stack, stack', f, g)
             /\ ToSet(Top.tmp) = {x} \cup ToSet(f.tmp) /\ g.path = x /\ g.pc = "lstat"
      BY <2>17, VisitDoes
    <3>2. ToCome(Top, n) => ToCome(f, n) \/ ToCome(g, n)
      BY <3>1 DEF ToCome
    <3>3. ToCome(Top, n) => ToComeIn(stack', n)
      BY <2>10, <3>1, <3>2, ToComeAfter
    <3>4. QED
      BY <2>11, <3>1, <3>3
  <2>18. CASE FreeDirList
    <3>1. /\ stack # <<>> /\ Top.pc = "while" /\ Top.tmp = <<>> /\ listed' = listed
          /\ Popped(stack, stack')
      BY <2>18, FreeDirListDoes
    <3>2. ToSet(Top.tmp) = {}
      BY <3>1 DEF ToSet
    <3>3. ~ ToCome(Top, n)
      BY <3>1, <3>2 DEF ToCome
    <3>4. QED
      BY <2>11, <3>1, <3>3
  <2>19. CASE ParseFlags \/ ParseArguments
    BY <1>3, <2>19 DEF ParseFlags, ParseArguments
  <2>20. QED
    BY <2>12, <2>13, <2>14, <2>15, <2>16, <2>17, <2>18, <2>19 DEF Next, Ls
<1>4. QED
  BY <1>2, <1>3

LEMMA RootsAre ==
    ASSUME NEW r \in Roots
    PROVE  r \in Nodes /\ Kind[r] = "dir" /\ (r \in Arguments \/ (Arguments = {} /\ r = Cwd))
BY NodeNames, NodesAssumption DEF Roots

LEMMA BegunStep ==
    ASSUME CompleteInv, ShapeInv, [Next]_vars, "R" \in flags', pc' \in {"exec_ls", "exit_success"}
    PROVE  Begun(PathsIn(listed), stack, paths, Roots, removed \cup Unreadable)'
<1> DEFINE L == PathsIn(listed)
           gone == removed \cup Unreadable
           Starts(s, r) == s # <<>> /\ s[1].path = r /\ s[1].pc \in {"lstat", "list_directory"}
<1>1. TypeOK /\ StartInv /\ listed \in Listings
      /\ (pc = "exec_ls" => paths \in Seq(Nodes \cup Arguments))
  BY TypeParts DEF ShapeInv
<1>2. /\ argv' = argv /\ removed \subseteq removed'
      /\ flags' = flags \/ pc = "parse_flags"
      /\ \/ listed' = listed
         \/ \E e \in Nodes : Listing(e)
  BY ListingsGrow
<1>3. Roots' = Roots /\ Arguments' = Arguments
  BY <1>2 DEF Roots, Arguments, PathWords, IsDir
<1>4. L \subseteq PathsIn(listed')
  <2>1. CASE \E e \in Nodes, lines \in Seq(Shown) :
                   listed' = Append(listed, [path |-> e, shown |-> lines])
    BY <1>1, <2>1, Appended
  <2>2. QED
    BY <1>2, <2>1 DEF Listing
<1>5. SUFFICES ASSUME NEW r \in Roots, r \notin gone'
               PROVE  r \in PathsIn(listed') \cup ToSet(paths') \/ Starts(stack', r)
  BY <1>3 DEF Begun
<1>6. r \in Nodes /\ Kind[r] = "dir" /\ r \notin gone
  BY <1>2, <1>5, RootsAre
<1>7. pc = "exec_ls" => r \in L \cup ToSet(paths) \/ Starts(stack, r)
  BY <1>2, <1>5, <1>6 DEF CompleteInv, Begun
<1>8. ASSUME pc = "exec_ls", paths' = paths, Starts(stack, r) => r \in L \/ Starts(stack', r)
      PROVE  r \in PathsIn(listed') \cup ToSet(paths') \/ Starts(stack', r)
  BY <1>4, <1>7, <1>8
<1>9. ASSUME stack # <<>>, Top.pc \notin {"lstat", "list_directory"} PROVE ~ Starts(stack, r)
  BY <1>9, FirstIsTop
<1> HIDE DEF L
<1>10. CASE ParseFlags
  BY <1>5, <1>10 DEF ParseFlags
<1>11. CASE ParseArguments
  <2>1. pc' = "exec_ls"
    BY <1>5, <1>11 DEF ParseArguments
  <2>2. r \in ToSet(paths')
    BY <1>11, <2>1, RootsAre, ParseArgumentsDoes
  <2>3. QED
    BY <2>2
<1>12. CASE Exit
  <2>1. pc = "exec_ls" /\ stack = <<>> /\ paths' = paths
    BY <1>12 DEF Exit
  <2>2. QED
    BY <1>8, <2>1
<1>13. CASE RemoveNode \/ Terminated \/ UNCHANGED vars
  <2>1. stack' = stack /\ paths' = paths /\ listed' = listed /\ pc' = pc /\ flags' = flags
    BY <1>13 DEF RemoveNode, Terminated, vars, output, cmdline
  <2>2. r \in L \cup ToSet(paths) \/ Starts(stack, r)
    BY <1>5, <1>6, <2>1 DEF CompleteInv, Begun, L
  <2>3. QED
    BY <1>4, <2>1, <2>2
<1>14. CASE ListPath
  <2>1. PICK d \in Nodes \cup Arguments :
          /\ pc = "exec_ls" /\ stack = <<>> /\ paths # <<>> /\ d = Head(paths)
          /\ paths' = Tail(paths) /\ flags' = flags
          /\ \/ d \notin Nodes \/ d \in removed
             \/ d \in Nodes /\ stack' = <<Frame(d)>>
             \/ d \in Nodes /\ (Kind[d] = "dir" => "R" \notin flags)
    <3>1. PICK d \in Nodes \cup Arguments :
          /\ pc = "exec_ls" /\ stack = <<>> /\ paths # <<>> /\ d = Head(paths)
          /\ paths' = Tail(paths) /\ flags' = flags
          /\ \/ d \notin Nodes \/ d \in removed
             \/ d \in Nodes \ removed /\ stack' = <<Frame(d)>>
             \/ d \in Nodes /\ (Kind[d] = "dir" => "R" \notin flags)
      BY <1>14, ListPathDoes
    <3>2. QED
      BY <3>1
  <2>2. ToSet(paths) = {d} \cup ToSet(paths')
    BY <1>1, <2>1, Members
  <2>3. r \in L \cup {d} \cup ToSet(paths')
    BY <1>7, <2>1, <2>2
  <2>4. r = d => stack' = <<Frame(d)>>
    BY <1>5, <1>6, <2>1
  <2>5. stack' = <<Frame(d)>> /\ d \in Nodes => Starts(stack', d)
    BY FrameTyped
  <2>6. QED
    BY <1>4, <1>6, <2>3, <2>4, <2>5
<1>15. CASE Lstat
  <2>1. PICK d \in Nodes :
           /\ pc = "exec_ls" /\ stack # <<>> /\ Top.pc = "lstat" /\ Top.path = d
           /\ paths' = paths
           /\ \/ \E f \in Frames : /\ Replaced(stack, stack', f) /\ f.path = d
                                   /\ f.pc = "list_directory"
              \/ d \in removed /\ Popped(stack, stack')
    BY <1>15, LstatDoes
  <2>2. Starts(stack, r) => Starts(stack', r)
    <3>1. SUFFICES ASSUME Starts(stack, r) PROVE Starts(stack', r)
      OBVIOUS
    <3>2. Len(stack) = 1 /\ stack[1] = Top /\ r = d
      BY <2>1, <3>1, FirstIsTop
    <3>3. PICK f \in Frames : /\ Replaced(stack, stack', f) /\ f.path = d
                              /\ f.pc = "list_directory"
      BY <1>6, <2>1, <3>2
    <3>4. stack' # <<>> /\ stack'[1] = f
      BY <2>1, <3>2, <3>3, FirstIsTop
    <3>5. QED
      BY <3>2, <3>3, <3>4
  <2>3. QED
    BY <1>8, <2>1, <2>2
<1>16. CASE List
  <2>1. PICK d \in Nodes :
           /\ pc = "exec_ls" /\ stack # <<>> /\ Top.path = d /\ paths' = paths /\ Listing(d)
    BY <1>16, ListDoes
  <2>2. Starts(stack, r) => r = d
    BY <2>1, FirstIsTop
  <2>3. d \in gone' \/ d \in PathsIn(listed')
    <3>1. CASE listed' = listed /\ (pc' = "crashed" \/ d \in removed' \cup Unreadable)
      BY <1>5, <3>1
    <3>2. CASE \E lines \in Seq(Shown) : listed' = Append(listed, [path |-> d, shown |-> lines])
      BY <1>1, <3>2, Appended
    <3>3. QED
      BY <2>1, <3>1, <3>2 DEF Listing
  <2>4. QED
    BY <1>4, <1>5, <1>7, <2>1, <2>2, <2>3
<1>17. CASE GetSubdirs
  <2>1. pc = "exec_ls" /\ stack # <<>> /\ Top.pc = "get_subdirs" /\ paths' = paths
    BY <1>17, GetSubdirsDoes
  <2>2. QED
    BY <1>8, <1>9, <2>1
<1>18. CASE Visit
  <2>1. pc = "exec_ls" /\ stack # <<>> /\ Top.pc = "while" /\ paths' = paths
    BY <1>18, VisitDoes
  <2>2. QED
    BY <1>8, <1>9, <2>1
<1>19. CASE FreeDirList
  <2>1. pc = "exec_ls" /\ stack # <<>> /\ Top.pc = "while" /\ paths' = paths
    BY <1>19, FreeDirListDoes
  <2>2. QED
    BY <1>8, <1>9, <2>1
<1>20. QED
  BY <1>10, <1>11, <1>12, <1>13, <1>14, <1>15, <1>16, <1>17, <1>18, <1>19 DEF Next, Ls

LEMMA CompleteStep == ASSUME CompleteInv, ShapeInv, [Next]_vars PROVE CompleteInv'
<1>1. SUFFICES ASSUME "R" \in flags', pc' \in {"exec_ls", "exit_success"}
               PROVE  /\ Followed(PathsIn(listed), stack, removed \cup Unreadable, skipped, flags)'
                      /\ Begun(PathsIn(listed), stack, paths, Roots, removed \cup Unreadable)'
  BY DEF CompleteInv
<1>2. QED
  BY <1>1, FollowedStep, BegunStep

\* What Expected computes.
LEMMA ExpectedIs ==
    \A d \in Nodes :
        Expected[d] = IF CanOpen(d)
                      THEN {d} \cup UNION {Expected[n] : n \in Subdirs(d) \ skipped} ELSE {}
<1> DEFINE D == Nodes
           Y == SUBSET Nodes
           Body(h, d) == IF CanOpen(d) THEN {d} \cup UNION {h[n] : n \in Subdirs(d) \ skipped}
                         ELSE {}
           F == [h \in [D -> Y] |-> [d \in D |-> Body(h, d)]]
<1>1. WellFoundedBy(Children, D) /\ Children \in [D -> SUBSET D]
  BY ChildrenWellFounded
<1>2. \A d \in D : Subdirs(d) \subseteq Children[d] /\ Subdirs(d) \subseteq D
  BY SubdirsAre
<1>3. ASSUME NEW h \in [D -> Y], NEW d \in D PROVE Body(h, d) \in Y
  BY <1>2
<1>4. ASSUME NEW g, NEW h, NEW d \in D, \A n \in Children[d] : g[n] = h[n]
      PROVE  Body(g, d) = Body(h, d)
  BY <1>2, <1>4
<1>5. Recursion(F, Children, D, Y)
  <2> HIDE DEF D, Y, Body
  <2> QED
    BY <1>1, <1>3, <1>4 DEF Recursion
<1>6. PICK g \in [D -> Y] : g = [d \in D |-> Body(g, d)]
  <2>1. {} \in Y
    OBVIOUS
  <2> HIDE DEF D, Y, Body
  <2>2. QED
    BY <1>5, <2>1, RecursionSolved
<1>7. Expected = [d \in D |-> Body(Expected, d)]
  <2>1. Expected = CHOOSE f : f = [d \in D |-> Body(f, d)]
    BY DEF Expected
  <2> HIDE DEF D, Body
  <2>2. QED
    BY <1>6, <2>1
<1>8. \A d \in D : Expected[d] = Body(Expected, d)
  <2> HIDE DEF D, Body
  <2> QED
    BY <1>7
<1>9. QED
  BY <1>8

\* When everything was followed that could be, every directory expected was listed.
LEMMA ExpectedListed ==
    ASSUME Followed(Listed, <<>>, removed \cup Unreadable, skipped, flags)
    PROVE  \A d \in Nodes : d \in Listed \/ ~ CanOpen(d) => Expected[d] \subseteq Listed
<1> DEFINE Bad == {d \in Nodes : (d \in Listed \/ ~ CanOpen(d)) /\ ~ (Expected[d] \subseteq Listed)}
<1>1. SUFFICES ASSUME Bad # {} PROVE FALSE
  OBVIOUS
<1>2. Bad \in SUBSET Nodes
  OBVIOUS
<1>3. PICK d \in Bad : Children[d] \cap Bad = {}
  <2> HIDE DEF Bad
  <2> QED
    BY <1>1, <1>2, ChildrenWellFounded DEF WellFoundedBy
<1>4. d \in Nodes /\ (d \in Listed \/ ~ CanOpen(d)) /\ ~ (Expected[d] \subseteq Listed)
  OBVIOUS
<1>5. CanOpen(d) /\ d \in Listed
      /\ Expected[d] = {d} \cup UNION {Expected[n] : n \in Subdirs(d) \ skipped}
  BY <1>4, ExpectedIs
<1>6. PICK n \in Subdirs(d) \ skipped : ~ (Expected[n] \subseteq Listed)
  BY <1>4, <1>5
<1>7. n \in Children[d] /\ n \in Nodes /\ n \in SubdirsOf(d, flags)
  BY <1>4, <1>6, SubdirsAre
<1>8. n \in Listed \/ ~ CanOpen(n)
  <2>1. \A i \in 1..Len(<<>>) : FALSE
    OBVIOUS
  <2>2. d \in Listed \ (removed \cup Unreadable)
    BY <1>4, <1>5, NodeNames
  <2>3. CanOpen(n) => n \notin removed \cup Unreadable \cup skipped
    BY <1>6, <1>7, NodeNames
  <2>4. QED
    BY <1>7, <2>1, <2>2, <2>3 DEF Followed, ToComeIn
<1>9. n \in Bad
  BY <1>6, <1>7, <1>8
<1>10. QED
  BY <1>3, <1>7, <1>9

\* ft_ls -R lists every directory that still exists and can be opened when it ends, unless a
\* directory on the way to it was skipped by the loop of handle_recursive or lost to a failed
\* malloc; and whenever it has not crashed each listing of a directory lacks at most one of
\* the entries that exist and are visible for each call of malloc that failed.
THEOREM TraversalIsComplete == Spec => []CompleteUnlessSkipped
<1>1. Init => CompleteInv /\ MissingInv
  <2>1. ASSUME Init PROVE listed = <<>> /\ pc = "parse_flags" /\ Len(<<>>) = 0
    BY <2>1 DEF Init
  <2>2. QED
    BY <2>1 DEF CompleteInv, MissingInv
<1>2. CompleteInv /\ MissingInv /\ ShapeInv /\ [Next]_vars => (CompleteInv /\ MissingInv)'
  BY CompleteStep, MissingStep
<1>3. CompleteInv /\ MissingInv /\ ShapeInv => CompleteUnlessSkipped
  <2> SUFFICES ASSUME CompleteInv, MissingInv, ShapeInv PROVE CompleteUnlessSkipped
    OBVIOUS
  <2>1. Listed = PathsIn(listed) /\ listed \in Listings
    BY TypeParts DEF Listed, PathsIn, ShapeInv
  <2>2. ASSUME pc = "exit_success", "R" \in flags, NEW d \in Roots PROVE Expected[d] \subseteq Listed
    <3>1. stack = <<>> /\ paths = <<>>
      BY <2>2 DEF ShapeInv, StartInv
    <3>2. /\ Followed(Listed, <<>>, removed \cup Unreadable, skipped, flags)
          /\ Begun(Listed, <<>>, <<>>, Roots, removed \cup Unreadable)
      BY <2>1, <2>2, <3>1 DEF CompleteInv
    <3>3. d \in Nodes
      BY RootsAre
    <3>4. ToSet(<<>>) = {}
      BY DEF ToSet
    <3>5. d \in Listed \/ ~ CanOpen(d)
      BY <3>2, <3>3, <3>4, NodeNames DEF Begun
    <3>6. QED
      BY <3>2, <3>3, <3>5, ExpectedListed
  <2>3. ASSUME pc # "crashed", NEW i \in 1..Len(listed), IsDir(listed[i].path)
        PROVE  Cardinality(Missing(i)) <= failures
    <3>1. listed[i].path \in Nodes
      BY <2>1, PathsTyped DEF PathsIn
    <3>2. Kind[listed[i].path] = "dir"
      BY <2>3, <3>1, NodeNames
    <3>3. LacksAtMost(failures, listed[i].path, listed[i].shown, removed)
      BY <2>3, <3>2 DEF MissingInv
    <3>4. Missing(i) = Left(listed[i].path, removed) \ ToSet(listed[i].shown)
      BY <3>1, EntriesAre DEF Missing, Left
    <3>5. QED
      BY <3>3, <3>4 DEF LacksAtMost
  <2>4. QED
    BY <2>2, <2>3 DEF CompleteUnlessSkipped
<1>4. QED
  BY <1>1, <1>2, <1>3, ShapeAlways, PTL DEF Spec

----------------------------------------------------------------------------
(* merge_sort orders the list it is given and keeps ties in place, by any comparison that *)
(* tells which of two files may come first and does so in a circle for none.             *)

NotAfter(order, a, b) == Compare(order, a, b) <= 0

Ranks(order, T) ==
    /\ \A a, b \in T : NotAfter(order, a, b) \/ NotAfter(order, b, a)
    /\ \A a, b, c \in T : NotAfter(order, a, b) /\ NotAfter(order, b, c) => NotAfter(order, a, c)

Precedes(s, x, y) == \E i, j \in 1..Len(s) : i < j /\ s[i] = x /\ s[j] = y

Ordered(order, s) == \A x, y : Precedes(s, x, y) => NotAfter(order, x, y)

\* What comes before what in a list with a new head.
LEMMA PrecedesWithHead ==
    ASSUME NEW T, NEW s \in Seq(T), NEW h \in T, NEW x, NEW y
    PROVE  Precedes(<<h>> \o s, x, y) <=> (x = h /\ y \in ToSet(s)) \/ Precedes(s, x, y)
<1> DEFINE f == <<h>> \o s
           n == Len(s)
<1>1. /\ f \in Seq(T) /\ Len(f) = n + 1 /\ n \in Nat
      /\ f[1] = h /\ \A i \in 1..n : f[i + 1] = s[i]
  OBVIOUS
<1>2. ToSet(s) = {s[i] : i \in 1..n}
  BY Members
<1> HIDE DEF f, n
<1>3. ASSUME NEW i \in 1..(n + 1), NEW j \in 1..(n + 1), i < j, f[i] = x, f[j] = y
      PROVE  (x = h /\ y \in ToSet(s)) \/ Precedes(s, x, y)
  <2>1. j - 1 \in 1..n /\ f[(j - 1) + 1] = s[j - 1] /\ (j - 1) + 1 = j
    BY <1>1, <1>3
  <2>2. CASE i = 1
    BY <1>1, <1>2, <1>3, <2>1, <2>2
  <2>3. CASE i # 1
    <3>1. i - 1 \in 1..n /\ f[(i - 1) + 1] = s[i - 1] /\ (i - 1) + 1 = i /\ i - 1 < j - 1
      BY <1>1, <1>3, <2>3
    <3>2. QED
      BY <1>3, <2>1, <3>1 DEF Precedes, n
  <2>4. QED
    BY <2>2, <2>3
<1>4. ASSUME x = h, y \in ToSet(s) PROVE Precedes(f, x, y)
  <2>1. PICK j \in 1..n : s[j] = y
    BY <1>2, <1>4
  <2>2. j + 1 \in 1..(n + 1) /\ 1 \in 1..(n + 1) /\ 1 < j + 1 /\ f[j + 1] = y
    BY <1>1, <2>1
  <2>3. QED
    BY <1>1, <1>4, <2>2 DEF Precedes
<1>5. ASSUME Precedes(s, x, y) PROVE Precedes(f, x, y)
  <2>1. PICK i \in 1..n, j \in 1..n : i < j /\ s[i] = x /\ s[j] = y
    BY <1>5 DEF Precedes, n
  <2>2. i + 1 \in 1..(n + 1) /\ j + 1 \in 1..(n + 1) /\ i + 1 < j + 1
    BY <1>1, <2>1
  <2>3. f[i + 1] = x /\ f[j + 1] = y
    BY <1>1, <2>1
  <2>4. QED
    BY <1>1, <2>2, <2>3 DEF Precedes
<1>6. Precedes(f, x, y) => (x = h /\ y \in ToSet(s)) \/ Precedes(s, x, y)
  BY <1>1, <1>3 DEF Precedes
<1>7. QED
  BY <1>4, <1>5, <1>6 DEF f

\* What comes before what, by the head and the rest.
LEMMA PrecedesByHead ==
    ASSUME NEW T, NEW s \in Seq(T), s # <<>>, NEW x, NEW y
    PROVE  Precedes(s, x, y) <=> (x = Head(s) /\ y \in ToSet(Tail(s))) \/ Precedes(Tail(s), x, y)
<1> DEFINE h == Head(s)
           r == Tail(s)
<1>1. s = <<h>> \o r /\ h \in T /\ r \in Seq(T)
  OBVIOUS
<1>2. Precedes(<<h>> \o r, x, y) <=> (x = h /\ y \in ToSet(r)) \/ Precedes(r, x, y)
  <2> HIDE DEF h, r
  <2> QED
    BY <1>1, PrecedesWithHead
<1>3. QED
  BY <1>1, <1>2, Zenon

\* Only members of a list come before one another in it.
LEMMA PrecedesMembers ==
    ASSUME NEW T, NEW s \in Seq(T), NEW x, NEW y, Precedes(s, x, y)
    PROVE  x \in ToSet(s) /\ y \in ToSet(s) /\ x \in T /\ y \in T
<1>1. PICK i \in 1..Len(s), j \in 1..Len(s) : s[i] = x /\ s[j] = y
  BY DEF Precedes
<1>2. QED
  BY <1>1, Members

(* Merging two ordered lists keeps the order of each, puts any two files of different lists *)
(* in order, that of the first list first on a tie, and makes an ordered list.               *)
InOrderMerged(order, s, t, m) ==
    /\ \A x, y : Precedes(s, x, y) \/ Precedes(t, x, y) => Precedes(m, x, y)
    /\ \A x \in ToSet(s), y \in ToSet(t) :
          IF NotAfter(order, x, y) THEN Precedes(m, x, y) ELSE Precedes(m, y, x)
    /\ Ordered(order, m)

\* The head of the first list goes first.
LEMMA FirstHeadMerged ==
    ASSUME NEW order, NEW T, Ranks(order, T), NEW s \in Seq(T), NEW t \in Seq(T),
           s # <<>>, t # <<>>, Ordered(order, s), Ordered(order, t),
           NotAfter(order, Head(s), Head(t)),
           NEW rest \in Seq(T), ToSet(rest) = ToSet(Tail(s)) \cup ToSet(t),
           InOrderMerged(order, Tail(s), t, rest)
    PROVE  InOrderMerged(order, s, t, <<Head(s)>> \o rest)
<1> DEFINE h == Head(s)
           a == Tail(s)
           m == <<h>> \o rest
<1>1. h \in T /\ a \in Seq(T) /\ ToSet(s) = {h} \cup ToSet(a) /\ ToSet(s) \subseteq T
  BY Members
<1>2. Head(t) \in T /\ ToSet(t) = {Head(t)} \cup ToSet(Tail(t)) /\ ToSet(t) \subseteq T
  BY Members
<1>3. \A x, y : Precedes(m, x, y) <=> (x = h /\ y \in ToSet(rest)) \/ Precedes(rest, x, y)
  BY <1>1, PrecedesWithHead, Zenon
<1>4. \A x, y : Precedes(s, x, y) <=> (x = h /\ y \in ToSet(a)) \/ Precedes(a, x, y)
  BY PrecedesByHead, Zenon
<1>5. \A y \in ToSet(Tail(t)) : NotAfter(order, Head(t), y)
  BY PrecedesByHead DEF Ordered
<1>6. \A y \in ToSet(t) : NotAfter(order, h, y)
  <2>1. \A y \in ToSet(Tail(t)) : y \in T
    BY <1>2
  <2>2. QED
    BY <1>1, <1>2, <1>5, <2>1 DEF Ranks
<1>7. \A y \in ToSet(a) : NotAfter(order, h, y)
  BY <1>4 DEF Ordered
<1> HIDE DEF h, a, m
<1>8. /\ \A x, y : Precedes(a, x, y) \/ Precedes(t, x, y) => Precedes(rest, x, y)
      /\ \A x \in ToSet(a), y \in ToSet(t) :
            IF NotAfter(order, x, y) THEN Precedes(rest, x, y) ELSE Precedes(rest, y, x)
      /\ Ordered(order, rest)
      /\ ToSet(rest) = ToSet(a) \cup ToSet(t)
  BY DEF InOrderMerged, a
<1>9. \A x, y : Precedes(s, x, y) \/ Precedes(t, x, y) => Precedes(m, x, y)
  BY <1>3, <1>4, <1>8
<1>10. ASSUME NEW x \in ToSet(s), NEW y \in ToSet(t)
       PROVE  IF NotAfter(order, x, y) THEN Precedes(m, x, y) ELSE Precedes(m, y, x)
  <2>1. CASE x = h
    BY <1>3, <1>6, <1>8, <2>1
  <2>2. CASE x \in ToSet(a)
    BY <1>3, <1>8, <2>2
  <2>3. QED
    BY <1>1, <2>1, <2>2
<1>11. Ordered(order, m)
  BY <1>3, <1>6, <1>7, <1>8 DEF Ordered
<1>12. InOrderMerged(order, s, t, m)
  BY <1>9, <1>10, <1>11 DEF InOrderMerged
<1>13. QED
  BY <1>12 DEF m, h

\* The head of the second list goes first, because it must.
LEMMA SecondHeadMerged ==
    ASSUME NEW order, NEW T, Ranks(order, T), NEW s \in Seq(T), NEW t \in Seq(T),
           s # <<>>, t # <<>>, Ordered(order, s), Ordered(order, t),
           ~ NotAfter(order, Head(s), Head(t)),
           NEW rest \in Seq(T), ToSet(rest) = ToSet(s) \cup ToSet(Tail(t)),
           InOrderMerged(order, s, Tail(t), rest)
    PROVE  InOrderMerged(order, s, t, <<Head(t)>> \o rest)
<1> DEFINE h == Head(t)
           b == Tail(t)
           m == <<h>> \o rest
<1>1. h \in T /\ b \in Seq(T) /\ ToSet(t) = {h} \cup ToSet(b) /\ ToSet(t) \subseteq T
  BY Members
<1>2. Head(s) \in T /\ ToSet(s) = {Head(s)} \cup ToSet(Tail(s)) /\ ToSet(s) \subseteq T
  BY Members
<1>3. \A x, y : Precedes(m, x, y) <=> (x = h /\ y \in ToSet(rest)) \/ Precedes(rest, x, y)
  BY <1>1, PrecedesWithHead, Zenon
<1>4. \A x, y : Precedes(t, x, y) <=> (x = h /\ y \in ToSet(b)) \/ Precedes(b, x, y)
  BY PrecedesByHead, Zenon
<1>5. \A x \in ToSet(Tail(s)) : NotAfter(order, Head(s), x)
  BY PrecedesByHead DEF Ordered
<1>6. \A x \in ToSet(s) : ~ NotAfter(order, x, h) /\ NotAfter(order, h, x)
  <2>1. \A x \in ToSet(s) : x \in T /\ (x = Head(s) \/ NotAfter(order, Head(s), x))
    BY <1>2, <1>5
  <2>2. \A x \in ToSet(s) : ~ NotAfter(order, x, h)
    BY <1>1, <1>2, <2>1 DEF Ranks
  <2>3. QED
    BY <1>1, <2>1, <2>2 DEF Ranks
<1>7. \A y \in ToSet(b) : NotAfter(order, h, y)
  BY <1>4 DEF Ordered
<1> HIDE DEF h, b, m
<1>8. /\ \A x, y : Precedes(s, x, y) \/ Precedes(b, x, y) => Precedes(rest, x, y)
      /\ \A x \in ToSet(s), y \in ToSet(b) :
            IF NotAfter(order, x, y) THEN Precedes(rest, x, y) ELSE Precedes(rest, y, x)
      /\ Ordered(order, rest)
      /\ ToSet(rest) = ToSet(s) \cup ToSet(b)
  BY DEF InOrderMerged, b
<1>9. \A x, y : Precedes(s, x, y) \/ Precedes(t, x, y) => Precedes(m, x, y)
  BY <1>3, <1>4, <1>8
<1>10. ASSUME NEW x \in ToSet(s), NEW y \in ToSet(t)
       PROVE  IF NotAfter(order, x, y) THEN Precedes(m, x, y) ELSE Precedes(m, y, x)
  <2>1. CASE y = h
    BY <1>3, <1>6, <1>8, <2>1
  <2>2. CASE y \in ToSet(b)
    BY <1>3, <1>8, <2>2
  <2>3. QED
    BY <1>1, <2>1, <2>2
<1>11. Ordered(order, m)
  BY <1>3, <1>6, <1>7, <1>8 DEF Ordered
<1>12. InOrderMerged(order, s, t, m)
  BY <1>9, <1>10, <1>11 DEF InOrderMerged
<1>13. QED
  BY <1>12 DEF m, h

\* sorted_merge puts two ordered lists in order.
LEMMA SortedMergeOrders ==
    ASSUME NEW order, NEW T, Ranks(order, T), NEW merge, Merges(merge, order, T),
           NEW s0 \in Seq(T), NEW t0 \in Seq(T), Ordered(order, s0), Ordered(order, t0)
    PROVE  InOrderMerged(order, s0, t0, merge[<<s0, t0>>])
<1> DEFINE P(s, t) == Ordered(order, s) /\ Ordered(order, t)
                      => InOrderMerged(order, s, t, merge[<<s, t>>])
           Bad == {n \in Nat : \E s, t \in Seq(T) : n = Len(s) + Len(t) /\ ~ P(s, t)}
<1>0. Permutes(merge, T)
  BY SortedMergePermutes
<1>1. SUFFICES ASSUME Bad # {} PROVE FALSE
  <2>1. Len(s0) + Len(t0) \in Nat
    OBVIOUS
  <2>2. P(s0, t0)
    <3> HIDE DEF P
    <3> QED
      BY <2>1
  <2>3. QED
    BY <2>2
<1>2. PICK n \in Bad : \A k \in Bad : n <= k
  <2>1. Bad \in SUBSET Nat
    OBVIOUS
  <2> HIDE DEF Bad
  <2>2. QED
    BY <1>1, <2>1, LeastNat
<1>3. PICK s \in Seq(T), t \in Seq(T) : n = Len(s) + Len(t) /\ ~ P(s, t)
  <2> HIDE DEF P
  <2> QED
    OBVIOUS
<1>4. ASSUME NEW u \in Seq(T), NEW v \in Seq(T), Len(u) + Len(v) < n PROVE P(u, v)
  <2>1. Len(u) + Len(v) \in Nat /\ n \in Nat
    OBVIOUS
  <2> HIDE DEF Bad
  <2>2. Len(u) + Len(v) \notin Bad
    BY <1>2, <1>4, <2>1
  <2> HIDE DEF P
  <2>3. QED
    BY <2>1, <2>2 DEF Bad
<1> HIDE DEF Bad
<1>5. /\ n = Len(s) + Len(t) /\ Len(s) \in Nat /\ Len(t) \in Nat
      /\ Ordered(order, s) /\ Ordered(order, t) /\ ~ InOrderMerged(order, s, t, merge[<<s, t>>])
  <2>1. Len(s) \in Nat /\ Len(t) \in Nat
    OBVIOUS
  <2>2. QED
    BY <1>3, <2>1
<1>6. \A x, y : ~ Precedes(<<>>, x, y)
  BY DEF Precedes
<1>7. CASE s = <<>>
  <2>1. merge[<<s, t>>] = t
    BY <1>7, Zenon DEF Merges
  <2>2. ToSet(s) = {}
    BY <1>7 DEF ToSet
  <2>3. QED
    BY <1>5, <1>6, <1>7, <2>1, <2>2 DEF InOrderMerged
<1>8. CASE s # <<>> /\ t = <<>>
  <2>1. merge[<<s, t>>] = s
    BY <1>8, Zenon DEF Merges
  <2>2. ToSet(t) = {}
    BY <1>8 DEF ToSet
  <2>3. QED
    BY <1>5, <1>6, <1>8, <2>1, <2>2 DEF InOrderMerged
<1>9. CASE s # <<>> /\ t # <<>> /\ NotAfter(order, Head(s), Head(t))
  <2> DEFINE rest == merge[<<Tail(s), t>>]
  <2>1. merge[<<s, t>>] = <<Head(s)>> \o rest
    BY <1>9, Zenon DEF Merges, NotAfter
  <2>2. Tail(s) \in Seq(T) /\ Len(Tail(s)) + Len(t) < n
    BY <1>5, <1>9, Members
  <2>3. Ordered(order, Tail(s))
    BY <1>5, <1>9, PrecedesByHead DEF Ordered
  <2>4. InOrderMerged(order, Tail(s), t, rest)
    BY <1>4, <1>5, <2>2, <2>3
  <2>5. rest \in Seq(T) /\ ToSet(rest) = ToSet(Tail(s)) \cup ToSet(t)
    BY <1>0, <2>2, Zenon DEF Permutes
  <2> HIDE DEF rest, P
  <2>6. InOrderMerged(order, s, t, <<Head(s)>> \o rest)
    BY <1>5, <1>9, <2>4, <2>5, FirstHeadMerged
  <2>7. QED
    BY <1>5, <2>1, <2>6
<1>10. CASE s # <<>> /\ t # <<>> /\ ~ NotAfter(order, Head(s), Head(t))
  <2> DEFINE rest == merge[<<s, Tail(t)>>]
  <2>1. merge[<<s, t>>] = <<Head(t)>> \o rest
    BY <1>10, Zenon DEF Merges, NotAfter
  <2>2. Tail(t) \in Seq(T) /\ Len(s) + Len(Tail(t)) < n
    BY <1>5, <1>10, Members
  <2>3. Ordered(order, Tail(t))
    BY <1>5, <1>10, PrecedesByHead DEF Ordered
  <2>4. InOrderMerged(order, s, Tail(t), rest)
    BY <1>4, <1>5, <2>2, <2>3
  <2>5. rest \in Seq(T) /\ ToSet(rest) = ToSet(s) \cup ToSet(Tail(t))
    BY <1>0, <2>2, Zenon DEF Permutes
  <2> HIDE DEF rest, P
  <2>6. InOrderMerged(order, s, t, <<Head(t)>> \o rest)
    BY <1>5, <1>10, <2>4, <2>5, SecondHeadMerged
  <2>7. QED
    BY <1>5, <2>1, <2>6
<1>11. QED
  BY <1>7, <1>8, <1>9, <1>10

\* The halves that split_list makes keep the order of the list.
LEMMA SplitListKeepsOrder ==
    ASSUME NEW T, NEW l \in Seq(T), ~ (Len(l) <= 1), NEW x, NEW y, Precedes(l, x, y)
    PROVE  LET s == SplitList(l)[1]
               t == SplitList(l)[2]
           IN  Precedes(s, x, y) \/ Precedes(t, x, y) \/ (x \in ToSet(s) /\ y \in ToSet(t))
<1> DEFINE len == Len(l)
<1>1. len \in Nat /\ len >= 2
  OBVIOUS
<1>2. PICK n, s, t : Halves(T, l, n, s, t)
  BY SplitListHalves
<1>3. /\ n \in 1..(len - 1) /\ s \in Seq(T) /\ t \in Seq(T)
      /\ SplitList(l) = <<s, t>> /\ Len(s) = n /\ Len(t) = len - n
      /\ \A i \in 1..n : s[i] = l[i]
      /\ \A i \in 1..(len - n) : t[i] = l[i + n]
  BY <1>2 DEF Halves
<1>4. ToSet(s) = {s[i] : i \in 1..n} /\ ToSet(t) = {t[i] : i \in 1..(len - n)}
  BY <1>3, Members
<1>5. PICK i \in 1..len, j \in 1..len : i < j /\ l[i] = x /\ l[j] = y
  BY DEF Precedes
<1> HIDE DEF len
<1>6. CASE j <= n
  <2>1. i \in 1..n /\ j \in 1..n
    BY <1>1, <1>3, <1>5, <1>6
  <2>2. Precedes(s, x, y)
    BY <1>3, <1>5, <2>1 DEF Precedes
  <2>3. QED
    BY <1>3, <2>2
<1>7. CASE i > n
  <2>1. i - n \in 1..(len - n) /\ j - n \in 1..(len - n) /\ i - n < j - n
        /\ (i - n) + n = i /\ (j - n) + n = j
    BY <1>1, <1>3, <1>5, <1>7
  <2>2. t[i - n] = x /\ t[j - n] = y
    BY <1>3, <1>5, <2>1
  <2>3. Precedes(t, x, y)
    BY <1>3, <2>1, <2>2 DEF Precedes
  <2>4. QED
    BY <1>3, <2>3
<1>8. CASE i <= n /\ ~ (j <= n)
  <2>1. i \in 1..n /\ j - n \in 1..(len - n) /\ (j - n) + n = j
    BY <1>1, <1>3, <1>5, <1>8
  <2>2. s[i] = x /\ t[j - n] = y
    BY <1>3, <1>5, <2>1
  <2>3. x \in ToSet(s) /\ y \in ToSet(t)
    BY <1>4, <2>1, <2>2
  <2>4. QED
    BY <1>3, <2>3
<1>9. QED
  <2>1. i \in Int /\ j \in Int /\ n \in Int
    BY <1>1, <1>3
  <2>2. QED
    BY <1>6, <1>7, <1>8, <2>1

(* Two files are in the order that their comparison gives; a tie stays as it was. *)
InOrderSorted(order, l, m) ==
    /\ \A x, y : Precedes(l, x, y) =>
          IF NotAfter(order, x, y) THEN Precedes(m, x, y) ELSE Precedes(m, y, x)
    /\ Ordered(order, m)

\* merge_sort does so.
LEMMA MergeSortOrders ==
    ASSUME NEW order, NEW T, Ranks(order, T), NEW l0 \in Seq(T)
    PROVE  InOrderSorted(order, l0, MergeSort(order, T)[l0])
<1> DEFINE sort == MergeSort(order, T)
           merge == SortedMerge(order, T)
           P(l) == InOrderSorted(order, l, sort[l])
           Bad == {n \in Nat : \E l \in Seq(T) : n = Len(l) /\ ~ P(l)}
<1>0. Merges(merge, order, T) /\ Sorts(sort, merge, T)
  BY SortedMergeMerges, MergeSortSorts
<1>a. \A l \in Seq(T) : sort[l] \in Seq(T) /\ ToSet(sort[l]) = ToSet(l)
  <2> TAKE l \in Seq(T)
  <2>1. QED
    BY MergeSortPermutes
<1> HIDE DEF sort, merge
<1>1. SUFFICES ASSUME Bad # {} PROVE FALSE
  <2>1. Len(l0) \in Nat
    OBVIOUS
  <2>2. P(l0)
    <3> HIDE DEF P
    <3> QED
      BY <2>1
  <2>3. QED
    BY <2>2 DEF sort
<1>2. PICK n \in Bad : \A k \in Bad : n <= k
  <2>1. Bad \in SUBSET Nat
    OBVIOUS
  <2> HIDE DEF Bad
  <2>2. QED
    BY <1>1, <2>1, LeastNat
<1>3. PICK l \in Seq(T) : n = Len(l) /\ ~ P(l)
  <2> HIDE DEF P
  <2> QED
    OBVIOUS
<1>4. ASSUME NEW u \in Seq(T), Len(u) < n PROVE P(u)
  <2>1. Len(u) \in Nat /\ n \in Nat
    OBVIOUS
  <2> HIDE DEF Bad
  <2>2. Len(u) \notin Bad
    BY <1>2, <1>4, <2>1
  <2> HIDE DEF P
  <2>3. QED
    BY <2>1, <2>2 DEF Bad
<1> HIDE DEF Bad
<1>5. CASE Len(l) <= 1
  <2>1. sort[l] = l
    BY <1>0, <1>5 DEF Sorts
  <2>2. \A x, y : ~ Precedes(l, x, y)
    <3>1. Len(l) \in Nat
      OBVIOUS
    <3>2. \A i, j \in 1..Len(l) : ~ (i < j)
      BY <1>5, <3>1
    <3>3. QED
      BY <3>2 DEF Precedes
  <2>3. P(l)
    BY <2>1, <2>2 DEF InOrderSorted, Ordered
  <2>4. QED
    BY <1>3, <2>3
<1>6. CASE ~ (Len(l) <= 1)
  <2>1. PICK s \in Seq(T), t \in Seq(T) :
            SplitList(l) = <<s, t>> /\ Len(s) < Len(l) /\ Len(t) < Len(l)
    BY <1>6, SplitListCuts, Zenon
  <2> DEFINE a == sort[s]
             b == sort[t]
             m == merge[<<a, b>>]
  <2>2. InOrderSorted(order, s, a) /\ InOrderSorted(order, t, b)
    BY <1>3, <1>4, <2>1
  <2>3. /\ a \in Seq(T) /\ b \in Seq(T) /\ ToSet(a) = ToSet(s) /\ ToSet(b) = ToSet(t)
    BY <1>a
  <2>4. sort[l] = m
    <3>1. sort[l] = merge[<<sort[SplitList(l)[1]], sort[SplitList(l)[2]]>>]
      BY <1>0, <1>6, Zenon DEF Sorts
    <3>2. SplitList(l)[1] = s /\ SplitList(l)[2] = t
      BY <2>1
    <3>3. QED
      BY <3>1, <3>2, Zenon
  <2>5. InOrderMerged(order, a, b, m)
    <3>1. Ordered(order, a) /\ Ordered(order, b)
      BY <2>2 DEF InOrderSorted
    <3> HIDE DEF a, b, P
    <3>2. QED
      BY <1>0, <2>3, <3>1, SortedMergeOrders
  <2> HIDE DEF a, b, m, P
  <2>6. ASSUME NEW x, NEW y, Precedes(l, x, y)
        PROVE  IF NotAfter(order, x, y) THEN Precedes(m, x, y) ELSE Precedes(m, y, x)
    <3>1. Precedes(s, x, y) \/ Precedes(t, x, y) \/ (x \in ToSet(s) /\ y \in ToSet(t))
      <4>1. SplitList(l)[1] = s /\ SplitList(l)[2] = t
        BY <2>1
      <4>2. QED
        BY <1>6, <2>6, <4>1, SplitListKeepsOrder
    <3>2. CASE Precedes(s, x, y) \/ Precedes(t, x, y)
      BY <2>2, <2>5, <3>2 DEF InOrderSorted, InOrderMerged
    <3>3. CASE x \in ToSet(s) /\ y \in ToSet(t)
      BY <2>3, <2>5, <3>3 DEF InOrderMerged
    <3>4. QED
      BY <3>1, <3>2, <3>3
  <2>7. InOrderSorted(order, l, m)
    BY <2>5, <2>6 DEF InOrderSorted, InOrderMerged
  <2>8. QED
    BY <1>3, <2>4, <2>7 DEF P
<1>7. QED
  BY <1>5, <1>6

----------------------------------------------------------------------------
(* The comparison of names. *)

Chars == 1..127
Positive == Nat \ {0}

(* The order that ft_strcasecmp gives to names without leading dots: that of their lower-case *)
(* letters, as functions which are 0 from the end of the name on.                             *)
Key(u) == [i \in Positive |-> ToLower(CharAt(u, i))]
Less(f, g) == \E k \in Positive : (\A i \in 1..(k - 1) : f[i] = g[i]) /\ f[k] < g[k]

\* A letter is 0 after the end of a name and not before, and a dot is a dot.
LEMMA KeyTyped ==
    ASSUME NEW u \in Seq(Chars)
    PROVE  /\ Key(u) \in [Positive -> Nat]
           /\ \A i \in Positive : Key(u)[i] = 0 <=> ~ (i <= Len(u))
           /\ \A i \in 1..Len(u) : Key(u)[i] = ToLower(u[i])
           /\ Key(u)[1] = Dot <=> StartsWithDot(u)
<1>1. \A i \in Positive : i <= Len(u) => i \in 1..Len(u) /\ u[i] \in Chars /\ CharAt(u, i) = u[i]
  BY DEF CharAt, Positive
<1>2. \A i \in Positive : ~ (i <= Len(u)) => CharAt(u, i) = 0
  BY DEF CharAt
<1>3. \A c \in Chars : ToLower(c) \in Nat \ {0} /\ (ToLower(c) = 46 <=> c = 46)
  BY DEF ToLower, Chars
<1>4. ToLower(0) = 0
  BY DEF ToLower
<1>5. \A i \in Positive : Key(u)[i] = ToLower(CharAt(u, i))
  BY DEF Key
<1>6. \A i \in Positive : Key(u)[i] \in Nat
  BY <1>1, <1>2, <1>3, <1>4, <1>5
<1>7. Key(u) \in [Positive -> Nat]
  BY <1>6 DEF Key
<1>8. \A i \in Positive : Key(u)[i] = 0 <=> ~ (i <= Len(u))
  BY <1>1, <1>2, <1>3, <1>4, <1>5
<1>9. \A i \in 1..Len(u) : Key(u)[i] = ToLower(u[i])
  <2>1. \A i \in 1..Len(u) : i \in Positive /\ i <= Len(u)
    BY DEF Positive
  <2>2. QED
    BY <1>1, <1>5, <2>1
<1>10. Key(u)[1] = Dot <=> StartsWithDot(u)
  <2>1. 1 \in Positive
    BY DEF Positive
  <2>2. CASE 1 <= Len(u)
    BY <1>1, <1>3, <1>5, <2>1, <2>2 DEF StartsWithDot, Dot
  <2>3. CASE ~ (1 <= Len(u))
    BY <1>2, <1>4, <1>5, <2>1, <2>3 DEF StartsWithDot, Dot
  <2>4. QED
    BY <2>2, <2>3
<1>11. QED
  BY <1>7, <1>8, <1>9, <1>10

\* The order of keys is total and strict.
LEMMA LessOrders ==
    ASSUME NEW f \in [Positive -> Nat], NEW g \in [Positive -> Nat]
    PROVE  /\ Less(f, g) \/ Less(g, f) \/ f = g
           /\ ~ (Less(f, g) /\ Less(g, f)) /\ ~ Less(f, f)
           /\ \A h \in [Positive -> Nat] : Less(f, g) /\ Less(g, h) => Less(f, h)
<1>0. \A k \in Positive : f[k] \in Nat /\ g[k] \in Nat
  OBVIOUS
<1>1. Less(f, g) \/ Less(g, f) \/ f = g
  <2> DEFINE S == {k \in Positive : f[k] # g[k]}
  <2>1. CASE S = {}
    BY <2>1
  <2>2. CASE S # {}
    <3>1. S \in SUBSET Nat
      BY DEF Positive
    <3> HIDE DEF S
    <3>2. PICK k \in S : \A i \in S : k <= i
      BY <2>2, <3>1, LeastNat
    <3>3. k \in Positive /\ f[k] # g[k]
      BY DEF S
    <3>4. \A i \in 1..(k - 1) : i \in Positive /\ ~ (k <= i)
      BY <3>3 DEF Positive
    <3>5. \A i \in 1..(k - 1) : f[i] = g[i]
      BY <3>2, <3>4 DEF S
    <3>6. f[k] < g[k] \/ g[k] < f[k]
      BY <1>0, <3>3
    <3>7. QED
      BY <3>3, <3>5, <3>6 DEF Less
  <2>3. QED
    BY <2>1, <2>2
<1>2. ASSUME Less(f, g), Less(g, f) PROVE FALSE
  <2>1. PICK k \in Positive : (\A i \in 1..(k - 1) : f[i] = g[i]) /\ f[k] < g[k]
    BY <1>2 DEF Less
  <2>2. PICK l \in Positive : (\A i \in 1..(l - 1) : g[i] = f[i]) /\ g[l] < f[l]
    BY <1>2 DEF Less
  <2>3. k \in Int /\ l \in Int /\ k >= 1 /\ l >= 1
    BY DEF Positive
  <2>4. k = l \/ k \in 1..(l - 1) \/ l \in 1..(k - 1)
    BY <2>3
  <2>5. QED
    BY <1>0, <2>1, <2>2, <2>4
<1>3. ~ Less(f, f)
  BY <1>0 DEF Less
<1>4. ASSUME NEW h \in [Positive -> Nat], Less(f, g), Less(g, h) PROVE Less(f, h)
  <2>0. \A k \in Positive : h[k] \in Nat
    OBVIOUS
  <2>1. PICK k \in Positive : (\A i \in 1..(k - 1) : f[i] = g[i]) /\ f[k] < g[k]
    BY <1>4 DEF Less
  <2>2. PICK l \in Positive : (\A i \in 1..(l - 1) : g[i] = h[i]) /\ g[l] < h[l]
    BY <1>4 DEF Less
  <2>3. k \in Int /\ l \in Int /\ k >= 1 /\ l >= 1
    BY DEF Positive
  <2>4. CASE k < l
    <3>1. k \in 1..(l - 1) /\ \A i \in 1..(k - 1) : i \in 1..(l - 1)
      BY <2>3, <2>4
    <3>2. (\A i \in 1..(k - 1) : f[i] = h[i]) /\ f[k] < h[k]
      BY <2>1, <2>2, <3>1
    <3>3. QED
      BY <3>2 DEF Less
  <2>5. CASE l < k
    <3>1. l \in 1..(k - 1) /\ \A i \in 1..(l - 1) : i \in 1..(k - 1)
      BY <2>3, <2>5
    <3>2. (\A i \in 1..(l - 1) : f[i] = h[i]) /\ f[l] < h[l]
      BY <2>1, <2>2, <3>1
    <3>3. QED
      BY <3>2 DEF Less
  <2>6. CASE k = l
    <3>1. f[k] < h[k]
      BY <1>0, <2>0, <2>1, <2>2, <2>6
    <3>2. \A i \in 1..(k - 1) : f[i] = h[i]
      BY <2>1, <2>2, <2>6
    <3>3. QED
      BY <3>1, <3>2 DEF Less
  <2>7. QED
    BY <2>3, <2>4, <2>5, <2>6
<1>5. QED
  BY <1>1, <1>2, <1>3, <1>4

(* What the loop of ft_strcasecmp returns for two names. *)
Plain(u, v) ==
    LET k == FirstDifference(u, v) IN ToLower(CharAt(u, k)) - ToLower(CharAt(v, k))

\* It has the sign of the order.
LEMMA PlainCompares ==
    ASSUME NEW u \in Seq(Chars), NEW v \in Seq(Chars)
    PROVE  /\ Plain(u, v) \in Int
           /\ Plain(u, v) < 0 <=> Less(Key(u), Key(v))
           /\ Plain(u, v) > 0 <=> Less(Key(v), Key(u))
           /\ Plain(u, v) = 0 <=> Key(u) = Key(v)
<1> DEFINE n == Len(u) + 1
           f == Key(u)
           g == Key(v)
           S == {i \in 1..n : i = n \/ ToLower(CharAt(u, i)) # ToLower(CharAt(v, i))}
           k == Min(S)
<1>1. n \in Positive /\ Len(v) \in Nat
  BY DEF Positive
<1>2. /\ f \in [Positive -> Nat] /\ g \in [Positive -> Nat]
      /\ \A i \in Positive : (f[i] = 0 <=> ~ (i <= Len(u))) /\ (g[i] = 0 <=> ~ (i <= Len(v)))
  BY KeyTyped
<1>3. \A i \in Positive : f[i] = ToLower(CharAt(u, i)) /\ g[i] = ToLower(CharAt(v, i))
  BY DEF Key
<1>4. \A i \in 1..n : i \in Positive
  BY <1>1 DEF Positive
<1>5. f[n] = 0 /\ \A i \in Positive : i <= n => i = n \/ (f[i] # 0 /\ i \in 1..(n - 1))
  <2>1. n \in Nat \ {0} /\ Len(u) = n - 1
    BY <1>1 DEF Positive
  <2> HIDE DEF n, f, g
  <2>2. QED
    BY <1>1, <1>2, <2>1 DEF Positive
<1>6. Plain(u, v) = ToLower(CharAt(u, k)) - ToLower(CharAt(v, k))
  BY DEF Plain, FirstDifference
<1>7. S \in SUBSET Nat /\ n \in S
  BY <1>1 DEF Positive
<1> HIDE DEF n, f, g, S
<1>8. k \in S /\ \A i \in S : k <= i
  <2>1. PICK m \in S : \A i \in S : m <= i
    BY <1>7, LeastNat
  <2>2. QED
    BY <2>1 DEF Min
<1> HIDE DEF k
<1>9. k \in 1..n /\ (k = n \/ f[k] # g[k])
  BY <1>3, <1>4, <1>8 DEF S
<1>10. \A i \in 1..(k - 1) : f[i] = g[i]
  <2>1. n \in Int /\ k \in Int /\ k <= n
    BY <1>1, <1>9 DEF Positive
  <2>2. \A i \in 1..(k - 1) : i \in 1..n /\ ~ (k <= i)
    BY <2>1
  <2>3. QED
    BY <1>3, <1>4, <1>8, <2>2 DEF S
<1>11. Plain(u, v) = f[k] - g[k] /\ k \in Positive /\ f[k] \in Nat /\ g[k] \in Nat
  BY <1>2, <1>3, <1>4, <1>6, <1>9
<1>12. CASE f[k] # g[k]
  <2>1. Plain(u, v) \in Int /\ Plain(u, v) # 0 /\ (Plain(u, v) < 0 <=> f[k] < g[k])
        /\ (Plain(u, v) > 0 <=> g[k] < f[k])
    BY <1>11, <1>12
  <2>2. f[k] < g[k] \/ g[k] < f[k]
    BY <1>11, <1>12
  <2>3. f[k] < g[k] => Less(f, g)
    BY <1>10, <1>11 DEF Less
  <2>4. g[k] < f[k] => Less(g, f)
    BY <1>10, <1>11 DEF Less
  <2>5. ~ (Less(f, g) /\ Less(g, f)) /\ f # g
    BY <1>2, <1>12, LessOrders
  <2>6. QED
    BY <2>1, <2>2, <2>3, <2>4, <2>5 DEF f, g
<1>13. CASE f[k] = g[k]
  <2>1. k = n /\ f[n] = 0 /\ g[n] = 0
    BY <1>5, <1>9, <1>13
  <2>2. Plain(u, v) = 0
    BY <1>11, <1>13
  <2>3. ~ (n <= Len(v))
    BY <1>1, <1>2, <2>1
  <2>4. ASSUME NEW i \in Positive PROVE f[i] = g[i]
    <3>1. CASE i < n
      <4>1. i \in 1..(k - 1)
        BY <1>1, <2>1, <3>1 DEF Positive
      <4>2. QED
        BY <1>10, <4>1
    <3>2. CASE ~ (i < n)
      <4>1. ~ (i <= Len(v)) /\ ~ (i <= Len(u))
        BY <1>1, <2>3, <3>2 DEF Positive, n
      <4>2. QED
        BY <1>2, <4>1
    <3>3. QED
      BY <3>1, <3>2
  <2>5. f = g
    BY <1>2, <2>4
  <2>6. ~ Less(f, g) /\ ~ Less(g, f)
    BY <1>2, <2>5, LessOrders
  <2>7. QED
    BY <2>2, <2>5, <2>6 DEF f, g
<1>14. QED
  BY <1>12, <1>13

(* What the last case of the recursion compares at i and j. *)
Direct(s, t, i, j) ==
    Plain(Undotted(SubSeq(s, i, Len(s))), Undotted(SubSeq(t, j, Len(t))))

(* The equation of the recursion of ft_strcasecmp. *)
Compared(f, s, t, i, j) ==
    IF CharAt(s, i) = Dot /\ f[<<i + 1, j>>] = 0 THEN 1
    ELSE IF CharAt(t, j) = Dot /\ f[<<i, j + 1>>] = 0 THEN -1
    ELSE Direct(s, t, i, j)
Recurs(f, s, t) ==
    \A i \in 1..(Len(s) + 1), j \in 1..(Len(t) + 1) : f[<<i, j>>] = Compared(f, s, t, i, j)

\* ft_strcasecmp obeys it.
LEMMA StrCaseCmpRecurs ==
    ASSUME NEW s \in Seq(Chars), NEW t \in Seq(Chars)
    PROVE  \E f : Recurs(f, s, t) /\ StrCaseCmp(s, t) = f[<<1, 1>>]
<1> DEFINE m == Len(s) + 1
           n == Len(t) + 1
           D == (1..m) \X (1..n)
           Y == {Direct(s, t, i, j) : i \in 1..m, j \in 1..n} \cup {1, -1}
           Later(p) == {q \in D : q[1] + q[2] > p[1] + p[2]}
           pre == [p \in D |-> Later(p)]
           d == [p \in D |-> m + n - (p[1] + p[2])]
           Body(h, p) == IF CharAt(s, p[1]) = Dot /\ h[<<p[1] + 1, p[2]>>] = 0 THEN 1
                         ELSE IF CharAt(t, p[2]) = Dot /\ h[<<p[1], p[2] + 1>>] = 0 THEN -1
                         ELSE Direct(s, t, p[1], p[2])
           F == [h \in [D -> Y] |-> [p \in D |-> Body(h, p)]]
           f == CHOOSE f1 : f1 = [p \in D |-> Body(f1, p)]
<1>0. m \in Nat /\ n \in Nat /\ m >= 1 /\ n >= 1
  OBVIOUS
<1>1. WellFoundedBy(pre, D)
  <2>1. ASSUME NEW p \in D PROVE d[p] \in Nat /\ d[p] = m + n - (p[1] + p[2])
    <3>1. p[1] \in 1..m /\ p[2] \in 1..n /\ d[p] = m + n - (p[1] + p[2])
      OBVIOUS
    <3> HIDE DEF m, n, D, d
    <3>2. QED
      BY <1>0, <3>1
  <2>2. pre \in [D -> SUBSET D]
    OBVIOUS
  <2>3. ASSUME NEW p \in D, NEW q \in pre[p] PROVE d[q] < d[p]
    <3>1. pre[p] = Later(p)
      OBVIOUS
    <3> HIDE DEF pre, d
    <3>2. q \in D /\ q[1] + q[2] > p[1] + p[2]
      BY <3>1
    <3> HIDE DEF m, n
    <3>3. q[1] \in 1..m /\ q[2] \in 1..n /\ p[1] \in 1..m /\ p[2] \in 1..n
      BY <3>2
    <3> HIDE DEF D
    <3>4. d[p] = m + n - (p[1] + p[2]) /\ d[q] = m + n - (q[1] + q[2])
      BY <2>1, <3>2
    <3>5. p[1] \in Int /\ p[2] \in Int /\ q[1] \in Int /\ q[2] \in Int
      BY <3>3
    <3>6. QED
      BY ONLY <1>0, <3>2, <3>4, <3>5
  <2> HIDE DEF D, pre, d
  <2>4. QED
    BY <2>1, <2>2, <2>3, MeasureDecreases
<1>2. ASSUME NEW p \in D
      PROVE  /\ CharAt(s, p[1]) = Dot => <<p[1] + 1, p[2]>> \in pre[p]
             /\ CharAt(t, p[2]) = Dot => <<p[1], p[2] + 1>> \in pre[p]
  <2>1. p[1] \in 1..m /\ p[2] \in 1..n /\ pre[p] = Later(p)
    OBVIOUS
  <2>2. CharAt(s, p[1]) = Dot => p[1] + 1 \in 1..m
    BY <2>1 DEF CharAt, Dot
  <2>3. CharAt(t, p[2]) = Dot => p[2] + 1 \in 1..n
    BY <2>1 DEF CharAt, Dot
  <2> HIDE DEF m, n, pre
  <2>4. CharAt(s, p[1]) = Dot => <<p[1] + 1, p[2]>> \in Later(p)
    BY <1>0, <2>1, <2>2
  <2>5. CharAt(t, p[2]) = Dot => <<p[1], p[2] + 1>> \in Later(p)
    BY <1>0, <2>1, <2>3
  <2>6. QED
    BY <2>1, <2>4, <2>5
<1>3. ASSUME NEW h \in [D -> Y], NEW p \in D PROVE Body(h, p) \in Y
  <2>1. p[1] \in 1..m /\ p[2] \in 1..n
    OBVIOUS
  <2>2. Direct(s, t, p[1], p[2]) \in Y
    <3> HIDE DEF m, n
    <3> QED
      BY <2>1
  <2>3. 1 \in Y /\ -1 \in Y
    OBVIOUS
  <2> HIDE DEF Y
  <2>4. QED
    BY <2>2, <2>3
<1>4. ASSUME NEW g, NEW h, NEW p \in D, \A q \in pre[p] : g[q] = h[q]
      PROVE  Body(g, p) = Body(h, p)
  <2> HIDE DEF pre, D
  <2> QED
    BY <1>2, <1>4
<1>5. Recursion(F, pre, D, Y)
  <2> HIDE DEF D, Y, pre, Body
  <2> QED
    BY <1>1, <1>3, <1>4 DEF Recursion
<1>6. PICK g \in [D -> Y] : g = [p \in D |-> Body(g, p)]
  <2>1. 1 \in Y
    OBVIOUS
  <2> HIDE DEF D, Y, pre, Body
  <2>2. QED
    BY <1>5, <2>1, RecursionSolved
<1>7. f = [p \in D |-> Body(f, p)]
  <2> HIDE DEF D, Body
  <2>1. QED
    BY <1>6
<1>8. StrCaseCmp(s, t) = f[<<1, 1>>]
  BY DEF StrCaseCmp, Direct, Plain
<1> HIDE DEF f
<1>9. ASSUME NEW i \in 1..m, NEW j \in 1..n PROVE f[<<i, j>>] = Compared(f, s, t, i, j)
  <2>1. <<i, j>> \in D
    OBVIOUS
  <2>2. Body(f, <<i, j>>) = Compared(f, s, t, i, j)
    BY DEF Compared
  <2> HIDE DEF D, Body
  <2>3. QED
    BY <1>7, <2>1, <2>2
<1>10. Recurs(f, s, t)
  <2> HIDE DEF D, Y, pre, Body
  <2> QED
    BY <1>9, Zenon DEF Recurs
<1>11. QED
  BY <1>8, <1>10

\* What the recursion of ft_strcasecmp compares of a name, from the place it has reached on.
Remainder(s, i) == Undotted(SubSeq(s, i, Len(s)))

\* What is left of an ordinary name at the places that the recursion reaches.
LEMMA NameParts ==
    ASSUME NEW s \in Seq(Chars)
    PROVE  LET a == Undotted(s)
           IN  /\ a \in Seq(Chars) /\ Remainder(s, 1) = a
               /\ 1 \in 1..(Len(s) + 1) /\ (CharAt(s, 1) = Dot <=> StartsWithDot(s))
               /\ ~ StartsWithDot(a) => Undotted(a) = a
               /\ StartsWithDot(s) =>
                     /\ 2 \in 1..(Len(s) + 1) /\ Remainder(s, 2) = Undotted(a)
                     /\ CharAt(s, 2) = Dot <=> StartsWithDot(a)
               /\ StartsWithDot(s) /\ StartsWithDot(a) /\ Ordinary(s) =>
                     /\ 3 \in 1..(Len(s) + 1) /\ CharAt(s, 3) # Dot
                     /\ a = <<Dot>> /\ Undotted(a) = <<>> /\ Remainder(s, 3) = <<>>
<1> DEFINE a == Undotted(s)
           n == Len(s)
<1>1. n \in Nat /\ 1 \in 1..(n + 1) /\ (CharAt(s, 1) = Dot <=> StartsWithDot(s))
  BY DEF StartsWithDot
<1>2. StartsWithDot(s) => n >= 1 /\ a = Tail(s) /\ s # <<>>
  BY DEF StartsWithDot, CharAt, Dot, Undotted
<1>3. a \in Seq(Chars)
  BY <1>2 DEF Undotted
<1>4. Remainder(s, 1) = a
  <2>1. SubSeq(s, 1, n) = s
    OBVIOUS
  <2>2. QED
    BY <2>1 DEF Remainder
<1>5. ~ StartsWithDot(a) => Undotted(a) = a
  BY DEF Undotted
<1>6. ASSUME StartsWithDot(s)
      PROVE  /\ 2 \in 1..(n + 1) /\ Remainder(s, 2) = Undotted(a)
             /\ CharAt(s, 2) = Dot <=> StartsWithDot(a)
  <2>1. a = Tail(s) /\ n \in Nat /\ n >= 1 /\ s # <<>>
    BY <1>1, <1>2, <1>6
  <2>2. SubSeq(s, 2, n) = Tail(s)
    BY <2>1
  <2>3. Remainder(s, 2) = Undotted(a)
    BY <2>1, <2>2 DEF Remainder
  <2>4. Len(a) = n - 1 /\ (n >= 2 => a[1] = s[2])
    <3> HIDE DEF a
    <3> QED
      BY <2>1
  <2>5. CharAt(s, 2) = CharAt(a, 1)
    <3>1. 2 <= n <=> 1 <= Len(a)
      BY <2>1, <2>4
    <3>2. QED
      BY <2>4, <3>1 DEF CharAt
  <2>6. 2 \in 1..(n + 1)
    BY <2>1
  <2>7. QED
    BY <2>3, <2>5, <2>6 DEF StartsWithDot
<1>7. ASSUME StartsWithDot(s), StartsWithDot(a), Ordinary(s)
      PROVE  /\ 3 \in 1..(n + 1) /\ CharAt(s, 3) # Dot
             /\ a = <<Dot>> /\ Undotted(a) = <<>> /\ Remainder(s, 3) = <<>>
  <2>1. a = Tail(s) /\ n \in Nat /\ n >= 1 /\ s # <<>> /\ ~ (n > 2)
    BY <1>1, <1>2, <1>7 DEF Ordinary
  <2>2. Len(a) = n - 1 /\ a \in Seq(Chars)
    BY <1>3, <2>1
  <2> HIDE DEF a
  <2>3. Len(a) >= 1 /\ a[1] = Dot
    BY <1>7, <2>1, <2>2 DEF StartsWithDot, CharAt, Dot
  <2>4. n = 2 /\ Len(a) = 1
    BY <2>1, <2>2, <2>3
  <2>5. a = <<Dot>>
    BY <2>2, <2>3, <2>4
  <2>6. Undotted(a) = <<>>
    BY <1>7, <2>5 DEF Undotted
  <2>7. CharAt(s, 3) # Dot /\ 3 \in 1..(n + 1)
    BY <2>4 DEF CharAt, Dot
  <2>8. SubSeq(s, 3, n) = <<>>
    BY <2>4
  <2>9. ~ StartsWithDot(<<>>)
    BY DEF StartsWithDot, CharAt, Dot
  <2>10. Remainder(s, 3) = <<>>
    BY <2>8, <2>9 DEF Remainder, Undotted
  <2>11. QED
    BY <2>5, <2>6, <2>7, <2>10
<1>8. QED
  BY <1>1, <1>3, <1>4, <1>5, <1>6, <1>7

(* The order that the comparison is meant to give: by the name without its dot, then the *)
(* one with the dot last.                                                                 *)
NameLess(s, t) ==
    \/ Less(Key(Undotted(s)), Key(Undotted(t)))
    \/ Key(Undotted(s)) = Key(Undotted(t)) /\ ~ StartsWithDot(s) /\ StartsWithDot(t)

\* On ordinary names ft_strcasecmp tells that order.
LEMMA StrCaseCmpOrders ==
    ASSUME NEW s \in Seq(Chars), NEW t \in Seq(Chars), Ordinary(s), Ordinary(t)
    PROVE  /\ StrCaseCmp(s, t) \in Int
           /\ StrCaseCmp(s, t) < 0 <=> NameLess(s, t)
           /\ StrCaseCmp(s, t) > 0 <=> NameLess(t, s)
<1> DEFINE a == Undotted(s)
           b == Undotted(t)
           p == Plain(a, b)
           r == StrCaseCmp(s, t)
           sdot == StartsWithDot(s)
           tdot == StartsWithDot(t)
           adot == StartsWithDot(a)
           bdot == StartsWithDot(b)
           m == Len(s) + 1
           n == Len(t) + 1
<1>1. PICK f : Recurs(f, s, t) /\ r = f[<<1, 1>>]
  BY StrCaseCmpRecurs
<1>2. \A i \in 1..m, j \in 1..n :
          f[<<i, j>>] = IF CharAt(s, i) = Dot /\ f[<<i + 1, j>>] = 0 THEN 1
                        ELSE IF CharAt(t, j) = Dot /\ f[<<i, j + 1>>] = 0 THEN -1
                        ELSE Plain(Remainder(s, i), Remainder(t, j))
  <2>1. \A i \in 1..m, j \in 1..n : f[<<i, j>>] = Compared(f, s, t, i, j)
    BY <1>1, Zenon DEF Recurs
  <2> HIDE DEF m, n
  <2>2. QED
    BY <2>1 DEF Compared, Direct, Remainder
<1>3. /\ a \in Seq(Chars) /\ Remainder(s, 1) = a /\ 1 \in 1..m /\ (CharAt(s, 1) = Dot <=> sdot)
      /\ ~ adot => Undotted(a) = a
      /\ sdot => 2 \in 1..m /\ Remainder(s, 2) = Undotted(a) /\ (CharAt(s, 2) = Dot <=> adot)
      /\ sdot /\ adot => /\ 3 \in 1..m /\ CharAt(s, 3) # Dot
                         /\ a = <<Dot>> /\ Undotted(a) = <<>> /\ Remainder(s, 3) = <<>>
  BY NameParts
<1>4. /\ b \in Seq(Chars) /\ Remainder(t, 1) = b /\ 1 \in 1..n /\ (CharAt(t, 1) = Dot <=> tdot)
      /\ ~ bdot => Undotted(b) = b
      /\ tdot => 2 \in 1..n /\ Remainder(t, 2) = Undotted(b) /\ (CharAt(t, 2) = Dot <=> bdot)
      /\ tdot /\ bdot => /\ 3 \in 1..n /\ CharAt(t, 3) # Dot
                         /\ b = <<Dot>> /\ Undotted(b) = <<>> /\ Remainder(t, 3) = <<>>
  BY NameParts
<1>5. ~ sdot => a = s /\ ~ adot
  BY DEF Undotted
<1>6. ~ tdot => b = t /\ ~ bdot
  BY DEF Undotted
<1>7. <<>> \in Seq(Chars)
  OBVIOUS
<1> HIDE DEF a, b, m, n, sdot, tdot, adot, bdot
<1>8. /\ p \in Int /\ (p < 0 <=> Less(Key(a), Key(b))) /\ (p > 0 <=> Less(Key(b), Key(a)))
      /\ p = 0 <=> Key(a) = Key(b)
  BY <1>3, <1>4, PlainCompares
<1>9. /\ Plain(<<>>, b) = 0 <=> Key(<<>>) = Key(b)
      /\ Plain(a, <<>>) = 0 <=> Key(a) = Key(<<>>)
      /\ Plain(<<>>, <<>>) = 0
  BY <1>3, <1>4, <1>7, PlainCompares
<1>10. /\ Key(<<>>)[1] = 0 /\ (Key(a)[1] = Dot <=> adot) /\ (Key(b)[1] = Dot <=> bdot)
  <2>1. 1 \in Positive /\ ~ (1 <= Len(<<>>))
    BY DEF Positive
  <2>2. Key(<<>>)[1] = 0
    BY <1>7, <2>1, KeyTyped
  <2>3. QED
    BY <1>3, <1>4, <2>2, KeyTyped DEF adot, bdot
<1>11. Key(<<>>) = Key(b) /\ adot => p > 0
  <2>1. 1 \in Positive /\ \A i \in 1..(1 - 1) : FALSE
    BY DEF Positive
  <2>2. ASSUME Key(<<>>) = Key(b), adot PROVE Less(Key(b), Key(a))
    <3>1. Key(b)[1] = 0 /\ Key(a)[1] = 46
      BY <1>10, <2>2 DEF Dot
    <3>2. QED
      BY <2>1, <3>1 DEF Less
  <2>3. QED
    BY <1>8, <2>2
<1>12. Key(a) = Key(<<>>) /\ bdot => p < 0
  <2>1. 1 \in Positive /\ \A i \in 1..(1 - 1) : FALSE
    BY DEF Positive
  <2>2. ASSUME Key(a) = Key(<<>>), bdot PROVE Less(Key(a), Key(b))
    <3>1. Key(a)[1] = 0 /\ Key(b)[1] = 46
      BY <1>10, <2>2 DEF Dot
    <3>2. QED
      BY <2>1, <3>1 DEF Less
  <2>3. QED
    BY <1>8, <2>2
<1>13. (adot <=> ~ bdot) => p # 0
  BY <1>8, <1>10
<1>14. SUFFICES r \in Int /\ (r < 0 <=> p < 0 \/ (p = 0 /\ ~ sdot /\ tdot))
                /\ (r > 0 <=> p > 0 \/ (p = 0 /\ sdot /\ ~ tdot))
  BY <1>8 DEF NameLess, a, b, sdot, tdot
<1> DEFINE E(i, j) == Plain(Remainder(s, i), Remainder(t, j))
           V(i, j) == f[<<i, j>>]
<1>15. \A i \in 1..m, j \in 1..n :
           V(i, j) = IF CharAt(s, i) = Dot /\ V(i + 1, j) = 0 THEN 1
                     ELSE IF CharAt(t, j) = Dot /\ V(i, j + 1) = 0 THEN -1
                     ELSE E(i, j)
  BY <1>2
<1>16. V(1, 1) = r /\ E(1, 1) = p
  BY <1>1, <1>3, <1>4
<1> HIDE DEF V, E, p, r
<1>17. V(1, 1) = IF sdot /\ V(2, 1) = 0 THEN 1 ELSE IF tdot /\ V(1, 2) = 0 THEN -1 ELSE p
  BY <1>3, <1>4, <1>15, <1>16
<1>18. CASE ~ sdot /\ ~ tdot
  BY <1>8, <1>14, <1>16, <1>17, <1>18
<1>19. CASE sdot /\ ~ tdot
  <2>1. V(2, 1) = IF adot /\ V(3, 1) = 0 THEN 1 ELSE E(2, 1)
    BY <1>3, <1>4, <1>15, <1>19
  <2>2. CASE ~ adot
    <3>1. E(2, 1) = p
      BY <1>3, <1>4, <1>19, <2>2 DEF E, p
    <3>2. QED
      BY <1>8, <1>14, <1>16, <1>17, <1>19, <2>1, <2>2, <3>1
  <2>3. CASE adot
    <3>1. V(3, 1) = E(3, 1)
      BY <1>3, <1>4, <1>15, <1>19, <2>3
    <3>2. E(2, 1) = E(3, 1)
      BY <1>3, <1>4, <1>19, <2>3 DEF E
    <3>3. p # 0
      BY <1>6, <1>13, <1>19, <2>3
    <3>4. QED
      BY <1>8, <1>14, <1>16, <1>17, <1>19, <2>1, <2>3, <3>1, <3>2, <3>3
  <2>4. QED
    BY <2>2, <2>3
<1>20. CASE ~ sdot /\ tdot
  <2>1. V(1, 2) = IF bdot /\ V(1, 3) = 0 THEN -1 ELSE E(1, 2)
    BY <1>3, <1>4, <1>15, <1>20
  <2>2. CASE ~ bdot
    <3>1. E(1, 2) = p
      BY <1>3, <1>4, <1>20, <2>2 DEF E, p
    <3>2. QED
      BY <1>8, <1>14, <1>16, <1>17, <1>20, <2>1, <2>2, <3>1
  <2>3. CASE bdot
    <3>1. V(1, 3) = E(1, 3)
      BY <1>3, <1>4, <1>15, <1>20, <2>3
    <3>2. E(1, 2) = E(1, 3)
      BY <1>3, <1>4, <1>20, <2>3 DEF E
    <3>3. p # 0
      BY <1>5, <1>13, <1>20, <2>3
    <3>4. QED
      BY <1>8, <1>14, <1>16, <1>17, <1>20, <2>1, <2>3, <3>1, <3>2, <3>3
  <2>4. QED
    BY <2>2, <2>3
<1>21. CASE sdot /\ tdot
  <2>1. /\ V(2, 1) = IF adot /\ V(3, 1) = 0 THEN 1 ELSE IF V(2, 2) = 0 THEN -1 ELSE E(2, 1)
        /\ V(1, 2) = IF V(2, 2) = 0 THEN 1 ELSE IF bdot /\ V(1, 3) = 0 THEN -1 ELSE E(1, 2)
        /\ V(2, 2) = IF adot /\ V(3, 2) = 0 THEN 1
                     ELSE IF bdot /\ V(2, 3) = 0 THEN -1 ELSE E(2, 2)
    BY <1>3, <1>4, <1>15, <1>21
  <2>2. adot => /\ V(3, 1) = IF V(3, 2) = 0 THEN -1 ELSE E(3, 1)
                /\ V(3, 2) = IF bdot /\ V(3, 3) = 0 THEN -1 ELSE E(3, 2)
    BY <1>3, <1>4, <1>15, <1>21
  <2>3. bdot => /\ V(1, 3) = IF V(2, 3) = 0 THEN 1 ELSE E(1, 3)
                /\ V(2, 3) = IF adot /\ V(3, 3) = 0 THEN 1 ELSE E(2, 3)
    BY <1>3, <1>4, <1>15, <1>21
  <2>4. adot /\ bdot => V(3, 3) = E(3, 3)
    BY <1>3, <1>4, <1>15, <1>21
  <2>5. CASE ~ adot /\ ~ bdot
    <3>1. E(2, 1) = p /\ E(1, 2) = p /\ E(2, 2) = p
      BY <1>3, <1>4, <1>21, <2>5 DEF E, p
    <3>2. QED
      BY <1>8, <1>14, <1>16, <1>17, <1>21, <2>1, <2>5, <3>1
  <2>6. CASE adot /\ ~ bdot
    <3> DEFINE e == Plain(<<>>, b)
    <3>1. E(2, 1) = e /\ E(3, 1) = e /\ E(2, 2) = e /\ E(3, 2) = e /\ E(1, 2) = p
      BY <1>3, <1>4, <1>21, <2>6 DEF E, p
    <3>2. p # 0 /\ (e = 0 => p > 0)
      BY <1>9, <1>11, <1>13, <2>6
    <3> HIDE DEF e
    <3>3. V(3, 2) = e /\ V(3, 1) # 0 /\ V(2, 2) # 0 /\ V(2, 1) = e /\ V(1, 2) = p
      BY <2>1, <2>2, <2>6, <3>1
    <3>4. QED
      BY <1>8, <1>14, <1>16, <1>17, <1>21, <3>2, <3>3
  <2>7. CASE ~ adot /\ bdot
    <3> DEFINE e == Plain(a, <<>>)
    <3>1. E(1, 2) = e /\ E(1, 3) = e /\ E(2, 2) = e /\ E(2, 3) = e /\ E(2, 1) = p
      BY <1>3, <1>4, <1>21, <2>7 DEF E, p
    <3>2. p # 0 /\ (e = 0 => p < 0)
      BY <1>9, <1>12, <1>13, <2>7
    <3> HIDE DEF e
    <3>3. V(2, 3) = e /\ V(1, 3) # 0 /\ V(2, 2) # 0 /\ V(1, 2) = e /\ V(2, 1) = p
      BY <2>1, <2>3, <2>7, <3>1
    <3>4. QED
      BY <1>8, <1>14, <1>16, <1>17, <1>21, <3>2, <3>3
  <2>8. CASE adot /\ bdot
    <3>1. a = b /\ p = 0
      BY <1>3, <1>4, <1>8, <1>21, <2>8
    <3>2. E(3, 3) = 0 /\ E(2, 2) = 0
      BY <1>3, <1>4, <1>9, <1>21, <2>8 DEF E
    <3>3. E(3, 1) # 0
      <4>1. E(3, 1) = Plain(<<>>, b)
        BY <1>3, <1>4, <1>21, <2>8 DEF E
      <4>2. QED
        BY <1>9, <1>11, <2>8, <3>1, <4>1
    <3>4. V(3, 2) = -1 /\ V(2, 3) = 1 /\ V(2, 2) = 0 /\ V(3, 1) # 0
      BY <2>1, <2>2, <2>3, <2>4, <2>8, <3>2, <3>3
    <3>5. V(2, 1) = -1 /\ V(1, 2) = 1
      BY <2>1, <2>8, <3>4
    <3>6. QED
      BY <1>14, <1>16, <1>17, <1>21, <3>1, <3>5
  <2>9. QED
    BY <2>5, <2>6, <2>7, <2>8
<1>22. QED
  BY <1>18, <1>19, <1>20, <1>21

(* The order that the comparison under these flags is meant to give. *)
FileLess(order, a, b) ==
    IF "r" \in order THEN NameLess(b.name, a.name)
    ELSE IF "t" \in order /\ a.time # b.time THEN a.time > b.time
    ELSE NameLess(a.name, b.name)

OrdinaryFile(a) == a.name \in Seq(Chars) /\ Ordinary(a.name) /\ a.time \in Int

\* The comparison tells it.
LEMMA CompareOrders ==
    ASSUME NEW order, NEW a, NEW b, OrdinaryFile(a), OrdinaryFile(b)
    PROVE  NotAfter(order, a, b) <=> ~ FileLess(order, b, a)
<1> DEFINE r == StrCaseCmp(a.name, b.name)
<1>1. /\ r \in Int /\ (r < 0 <=> NameLess(a.name, b.name)) /\ (r > 0 <=> NameLess(b.name, a.name))
  BY StrCaseCmpOrders DEF OrdinaryFile
<1>2. a.time \in Int /\ b.time \in Int
  BY DEF OrdinaryFile
<1> HIDE DEF r
<1>3. CASE "r" \in order
  <2>1. Compare(order, a, b) = -r
    BY <1>3 DEF Compare, CompareFilesReverse, r
  <2>2. QED
    BY <1>1, <1>3, <2>1 DEF NotAfter, FileLess
<1>4. CASE "r" \notin order /\ "t" \in order /\ a.time # b.time
  <2>1. Compare(order, a, b) = IF a.time < b.time THEN 1 ELSE 0
    BY <1>4 DEF Compare, CompareByTime
  <2>2. NotAfter(order, a, b) <=> ~ (a.time < b.time)
    BY <2>1 DEF NotAfter
  <2>3. FileLess(order, b, a) <=> b.time > a.time
    BY <1>4 DEF FileLess
  <2>4. QED
    BY <1>2, <2>2, <2>3
<1>5. CASE "r" \notin order /\ ("t" \notin order \/ a.time = b.time)
  <2>1. Compare(order, a, b) = r
    BY <1>5 DEF Compare, CompareByTime, CompareFiles, r
  <2>2. FileLess(order, b, a) <=> NameLess(b.name, a.name)
    BY <1>5 DEF FileLess
  <2>3. QED
    BY <1>1, <2>1, <2>2 DEF NotAfter
<1>6. QED
  BY <1>3, <1>4, <1>5

\* Of two names one is not after the other, and names in between can be left out.
LEMMA NameLessRanks ==
    ASSUME NEW s \in Seq(Chars), NEW t \in Seq(Chars), NEW u \in Seq(Chars)
    PROVE  /\ ~ (NameLess(s, t) /\ NameLess(t, s))
           /\ NameLess(s, u) => NameLess(s, t) \/ NameLess(t, u)
<1> DEFINE f == Key(Undotted(s))
           g == Key(Undotted(t))
           h == Key(Undotted(u))
<1>1. f \in [Positive -> Nat] /\ g \in [Positive -> Nat] /\ h \in [Positive -> Nat]
  BY NameParts, KeyTyped
<1> HIDE DEF f, g, h
<1>2. /\ Less(f, g) \/ Less(g, f) \/ f = g
      /\ Less(g, h) \/ Less(h, g) \/ g = h
      /\ Less(f, h) \/ Less(h, f) \/ f = h
      /\ ~ (Less(f, g) /\ Less(g, f)) /\ ~ Less(f, f)
      /\ ~ (Less(f, h) /\ Less(h, f)) /\ ~ Less(g, g)
      /\ Less(f, g) /\ Less(g, h) => Less(f, h)
      /\ Less(g, f) /\ Less(f, h) => Less(g, h)
      /\ Less(h, g) /\ Less(g, f) => Less(h, f)
      /\ Less(f, h) /\ Less(h, g) => Less(f, g)
  BY <1>1, LessOrders
<1>3. /\ NameLess(s, t) <=> Less(f, g) \/ (f = g /\ ~ StartsWithDot(s) /\ StartsWithDot(t))
      /\ NameLess(t, s) <=> Less(g, f) \/ (g = f /\ ~ StartsWithDot(t) /\ StartsWithDot(s))
      /\ NameLess(t, u) <=> Less(g, h) \/ (g = h /\ ~ StartsWithDot(t) /\ StartsWithDot(u))
      /\ NameLess(s, u) <=> Less(f, h) \/ (f = h /\ ~ StartsWithDot(s) /\ StartsWithDot(u))
  BY DEF NameLess, f, g, h
<1>4. QED
  BY <1>2, <1>3

\* So the comparison ranks files with ordinary names.
LEMMA CompareRanks ==
    ASSUME NEW order, NEW T, \A a \in T : OrdinaryFile(a)
    PROVE  Ranks(order, T)
<1>1. \A a, b \in T : NotAfter(order, a, b) <=> ~ FileLess(order, b, a)
  BY CompareOrders
<1>2. ASSUME NEW a \in T, NEW b \in T PROVE ~ (FileLess(order, a, b) /\ FileLess(order, b, a))
  <2>1. a.name \in Seq(Chars) /\ b.name \in Seq(Chars) /\ a.time \in Int /\ b.time \in Int
    BY DEF OrdinaryFile
  <2>2. ~ (NameLess(a.name, b.name) /\ NameLess(b.name, a.name))
    BY <2>1, NameLessRanks
  <2>3. QED
    BY <2>1, <2>2 DEF FileLess
<1>3. ASSUME NEW a \in T, NEW b \in T, NEW c \in T, FileLess(order, c, a)
      PROVE  FileLess(order, c, b) \/ FileLess(order, b, a)
  <2>1. /\ a.name \in Seq(Chars) /\ b.name \in Seq(Chars) /\ c.name \in Seq(Chars)
        /\ a.time \in Int /\ b.time \in Int /\ c.time \in Int
    BY DEF OrdinaryFile
  <2>2. /\ NameLess(c.name, a.name) => NameLess(c.name, b.name) \/ NameLess(b.name, a.name)
        /\ NameLess(a.name, c.name) => NameLess(a.name, b.name) \/ NameLess(b.name, c.name)
    BY <2>1, NameLessRanks
  <2>3. QED
    BY <1>3, <2>1, <2>2 DEF FileLess
<1>4. QED
  BY <1>1, <1>2, <1>3 DEF Ranks

----------------------------------------------------------------------------
(* The sort of one directory, as MCLsSort specifies it. *)

\* Lists with the same members at the same places are the same.
LEMMA SameMembers ==
    ASSUME NEW T, NEW s \in Seq(T), NEW t \in Seq(T), Len(s) = Len(t),
           \A i \in 1..Len(s) : s[i] = t[i]
    PROVE  s = t
OBVIOUS

\* A function on 1..n is a list.
LEMMA FunctionIsList ==
    ASSUME NEW T, NEW n \in Nat, NEW f \in [1..n -> T] PROVE f \in Seq(T) /\ Len(f) = n
OBVIOUS

(* A name in lower case. *)
Lowered(u) == [i \in 1..Len(u) |-> ToLower(u[i])]

\* The reference order of names is the order by keys.
LEMMA LexBeforeIsLess ==
    ASSUME NEW u \in Seq(Chars), NEW v \in Seq(Chars),
           NEW x, x = Lowered(u), NEW y, y = Lowered(v)
    PROVE  /\ LexBefore(x, y) <=> Less(Key(u), Key(v))
           /\ x = y <=> Key(u) = Key(v)
<1> DEFINE f == Key(u)
           g == Key(v)
           m == Len(u)
           n == Len(v)
<1>1. /\ f \in [Positive -> Nat] /\ g \in [Positive -> Nat] /\ m \in Nat /\ n \in Nat
      /\ \A i \in Positive : (f[i] = 0 <=> ~ (i <= m)) /\ (g[i] = 0 <=> ~ (i <= n))
      /\ (\A i \in 1..m : f[i] = ToLower(u[i])) /\ (\A i \in 1..n : g[i] = ToLower(v[i]))
  BY KeyTyped
<1>2. /\ \A i \in 1..m : x[i] = f[i] /\ i \in Positive
      /\ \A i \in 1..n : y[i] = g[i] /\ i \in Positive
  BY <1>1 DEF Positive, Lowered
<1>3. x \in Seq(Nat) /\ y \in Seq(Nat) /\ Len(x) = m /\ Len(y) = n
  <2>1. x \in [1..m -> Nat] /\ y \in [1..n -> Nat]
    <3>1. (\A i \in 1..m : x[i] \in Nat) /\ (\A i \in 1..n : y[i] \in Nat)
      BY <1>1, <1>2
    <3> HIDE DEF f, g
    <3>2. QED
      BY <3>1 DEF Lowered
  <2> HIDE DEF m, n
  <2>2. QED
    BY <1>1, <2>1, FunctionIsList
<1>4. \A i \in Positive : (i <= m => i \in 1..m) /\ (i <= n => i \in 1..n)
  BY <1>1 DEF Positive
<1> HIDE DEF f, g, m, n
<1>5. ASSUME NEW k \in Nat, k <= m, k <= n
      PROVE  SubSeq(x, 1, k) = SubSeq(y, 1, k) <=> \A i \in 1..k : f[i] = g[i]
  <2>1. /\ SubSeq(x, 1, k) \in Seq(Nat) /\ Len(SubSeq(x, 1, k)) = k
        /\ \A i \in 1..k : SubSeq(x, 1, k)[i] = x[i]
    BY <1>1, <1>3, <1>5
  <2>2. /\ SubSeq(y, 1, k) \in Seq(Nat) /\ Len(SubSeq(y, 1, k)) = k
        /\ \A i \in 1..k : SubSeq(y, 1, k)[i] = y[i]
    BY <1>1, <1>3, <1>5
  <2> DEFINE xk == SubSeq(x, 1, k)
             yk == SubSeq(y, 1, k)
  <2>3. \A i \in 1..k : i \in 1..m /\ i \in 1..n
    BY <1>1, <1>5
  <2> HIDE DEF xk, yk
  <2>4. \A i \in 1..k : xk[i] = f[i] /\ yk[i] = g[i]
    BY <1>2, <2>1, <2>2, <2>3 DEF xk, yk
  <2>5. (\A i \in 1..k : xk[i] = yk[i]) => xk = yk
    <3>1. xk \in Seq(Nat) /\ yk \in Seq(Nat) /\ Len(xk) = k /\ Len(yk) = k
      BY <2>1, <2>2 DEF xk, yk
    <3>2. QED
      BY <3>1, SameMembers
  <2>6. QED
    BY <2>4, <2>5 DEF xk, yk
<1>6. ASSUME LexBefore(x, y) PROVE Less(f, g)
  <2>1. PICK k \in 0..m : /\ k <= n /\ SubSeq(x, 1, k) = SubSeq(y, 1, k)
                          /\ \/ k = m /\ k < n
                             \/ k < m /\ k < n /\ x[k + 1] < y[k + 1]
    BY <1>3, <1>6 DEF LexBefore
  <2>2. k \in Nat /\ k <= m /\ k + 1 \in Positive /\ (k + 1) - 1 = k
    BY <1>1, <2>1 DEF Positive
  <2>3. \A i \in 1..k : f[i] = g[i]
    BY <1>5, <2>1, <2>2
  <2>4. CASE k = m /\ k < n
    <3>1. ~ (k + 1 <= m) /\ k + 1 <= n
      BY <1>1, <2>2, <2>4
    <3>2. f[k + 1] = 0 /\ g[k + 1] # 0 /\ g[k + 1] \in Nat
      BY <1>1, <2>2, <3>1
    <3>3. f[k + 1] < g[k + 1]
      BY <3>2
    <3>4. QED
      BY <2>2, <2>3, <3>3 DEF Less
  <2>5. CASE k < m /\ k < n /\ x[k + 1] < y[k + 1]
    <3>1. k + 1 \in 1..m /\ k + 1 \in 1..n
      BY <1>1, <2>2, <2>5
    <3>2. f[k + 1] < g[k + 1]
      BY <1>2, <2>5, <3>1
    <3>3. QED
      BY <2>2, <2>3, <3>2 DEF Less
  <2>6. QED
    BY <2>1, <2>4, <2>5
<1>7. ASSUME Less(f, g) PROVE LexBefore(x, y)
  <2>1. PICK k1 \in Positive : (\A i \in 1..(k1 - 1) : f[i] = g[i]) /\ f[k1] < g[k1]
    BY <1>7 DEF Less
  <2> DEFINE k == k1 - 1
  <2>2. k \in Nat /\ k + 1 = k1 /\ k + 1 \in Positive
    BY DEF Positive
  <2> HIDE DEF k
  <2>3. k + 1 <= n
    <3>1. g[k + 1] # 0
      BY <1>1, <2>1, <2>2
    <3>2. QED
      BY <1>1, <2>2, <3>1
  <2>4. k <= m
    <3>1. CASE k = 0
      BY <1>1, <3>1
    <3>2. CASE k # 0
      <4>1. k \in Positive /\ k \in 1..(k1 - 1) /\ k <= n
        BY <1>1, <2>2, <2>3, <3>2 DEF Positive
      <4>2. f[k] # 0
        BY <1>1, <2>1, <4>1
      <4>3. QED
        BY <1>1, <4>1, <4>2
    <3>3. QED
      BY <3>1, <3>2
  <2>5. k <= n /\ k < n
    BY <1>1, <2>2, <2>3
  <2>6. SubSeq(x, 1, k) = SubSeq(y, 1, k)
    BY <1>5, <2>1, <2>2, <2>4, <2>5 DEF k
  <2>7. k < m => x[k + 1] < y[k + 1]
    <3>1. ASSUME k < m PROVE k + 1 \in 1..m /\ k + 1 \in 1..n
      BY <1>1, <2>2, <2>3, <3>1
    <3>2. QED
      BY <1>2, <2>1, <2>2, <3>1
  <2>8. k \in 0..m /\ (k = m \/ k < m)
    BY <1>1, <2>2, <2>4
  <2>9. QED
    BY <1>3, <2>5, <2>6, <2>7, <2>8 DEF LexBefore
<1>8. ASSUME x = y PROVE f = g
  <2>1. m = n
    BY <1>3, <1>8
  <2>2. ASSUME NEW i \in Positive PROVE f[i] = g[i]
    BY <1>1, <1>2, <1>4, <1>8, <2>1
  <2>3. QED
    BY <1>1, <2>2
<1>9. ASSUME f = g PROVE x = y
  <2>1. m = n
    <3>1. CASE m < n
      <4>1. n \in Positive /\ n <= n /\ ~ (n <= m)
        BY <1>1, <3>1 DEF Positive
      <4>2. QED
        BY <1>1, <1>9, <4>1
    <3>2. CASE n < m
      <4>1. m \in Positive /\ m <= m /\ ~ (m <= n)
        BY <1>1, <3>2 DEF Positive
      <4>2. QED
        BY <1>1, <1>9, <4>1
    <3>3. QED
      BY <1>1, <3>1, <3>2
  <2>2. \A i \in 1..m : x[i] = y[i]
    BY <1>2, <1>9, <2>1
  <2>3. QED
    BY <1>3, <2>1, <2>2, SameMembers
<1>10. QED
  BY <1>6, <1>7, <1>8, <1>9 DEF f, g

\* The reference order of files is the one that the comparison tells, unless both r and t are
\* given; and files that it does not tell apart the comparison does not either.
LEMMA BeforeIsLess ==
    ASSUME NEW a, NEW b, a.name \in Seq(Chars), b.name \in Seq(Chars),
           a.time \in Int, b.time \in Int
    PROVE  /\ ~({"r", "t"} \subseteq given) => (Before(a, b) <=> FileLess(given, a, b))
           /\ ~ Before(a, b) /\ ~ Before(b, a) => ~ FileLess(given, a, b)
<1>1. ASSUME NEW s \in Seq(Chars), NEW t \in Seq(Chars)
      PROVE  NameBefore(s, t) <=> NameLess(s, t)
  <2> DEFINE x == Lowered(Undotted(s))
             y == Lowered(Undotted(t))
  <2>1. LowerName(s) = x /\ LowerName(t) = y
    BY Zenon DEF Lowered, LowerName
  <2>2. Undotted(s) \in Seq(Chars) /\ Undotted(t) \in Seq(Chars)
    BY NameParts
  <2>3. /\ LexBefore(x, y) <=> Less(Key(Undotted(s)), Key(Undotted(t)))
        /\ x = y <=> Key(Undotted(s)) = Key(Undotted(t))
    BY <2>2, LexBeforeIsLess
  <2> HIDE DEF x, y
  <2>4. QED
    BY <2>1, <2>3 DEF NameBefore, NameLess
<1>2. /\ NameBefore(a.name, b.name) <=> NameLess(a.name, b.name)
      /\ NameBefore(b.name, a.name) <=> NameLess(b.name, a.name)
  BY <1>1
<1>3. CASE ~({"r", "t"} \subseteq given)
  <2>1. /\ Before(a, b) <=> FileLess(given, a, b)
        /\ Before(b, a) <=> FileLess(given, b, a)
    BY <1>2, <1>3 DEF Before, FileLess
  <2>2. QED
    BY <1>3, <2>1
<1>4. CASE {"r", "t"} \subseteq given
  <2>1. "r" \in given /\ "t" \in given
    BY <1>4
  <2>2. a.time # b.time => Before(a, b) \/ Before(b, a)
    BY <2>1 DEF Before
  <2>3. a.time = b.time => (Before(a, b) <=> NameBefore(b.name, a.name))
    BY <2>1 DEF Before
  <2>4. FileLess(given, a, b) <=> NameLess(b.name, a.name)
    BY <2>1 DEF FileLess
  <2>5. QED
    BY <1>2, <1>4, <2>2, <2>3, <2>4
<1>5. QED
  BY <1>3, <1>4

(* The list that was read has files with different names; the sort leaves what it makes of it. *)
SortInv ==
    /\ files \in Seq([name : Names, time : Times])
    /\ \A i, j \in 1..Len(files) : i < j => files[i].name # files[j].name
    /\ sorted # <<>> => sorted = MergeSort(given, ToSet(files))[files]

LEMMA SortInvariant == SortSpec => []SortInv
<1> DEFINE F == [name : Names, time : Times]
<1>1. SortInit => SortInv
  <2> SUFFICES ASSUME SortInit PROVE SortInv
    OBVIOUS
  <2>1. PICK n \in 1..MaxFiles : files \in [1..n -> F]
    BY DEF SortInit, AllFiles
  <2>2. files \in Seq(F) /\ Len(files) = n
    <3>1. n \in Nat
      OBVIOUS
    <3> HIDE DEF F
    <3>2. QED
      BY <2>1, <3>1, FunctionIsList
  <2>3. QED
    BY <2>2 DEF SortInit, SortInv
<1>2. SortInv /\ [SortNext]_sortVars => SortInv'
  <2> SUFFICES ASSUME SortInv, [SortNext]_sortVars PROVE SortInv'
    OBVIOUS
  <2>1. CASE ApplySort
    <3>1. UNCHANGED <<given, files>> /\ sorted' = MergeSort(given, Range(files))[files]
      BY <2>1 DEF ApplySort
    <3>2. Range(files) = ToSet(files)
      BY DEF SortInv, Range, ToSet
    <3>3. QED
      BY <3>1, <3>2 DEF SortInv
  <2>2. CASE UNCHANGED sortVars
    BY <2>2 DEF sortVars, SortInv
  <2>3. QED
    BY <2>1, <2>2 DEF SortNext
<1>3. QED
  BY <1>1, <1>2, PTL DEF SortSpec

\* merge_sort loses and repeats no file, whatever the names are and however the comparison
\* treats them.
THEOREM SortKeepsFiles == SortSpec => []SameFiles
<1>1. SortInv => SameFiles
  <2> SUFFICES ASSUME SortInv, sorted # <<>>
               PROVE  Len(sorted) = Len(files) /\ Range(sorted) = Range(files)
    BY DEF SameFiles
  <2> DEFINE T == ToSet(files)
  <2>1. files \in Seq(T)
    <3>1. files \in Seq([name : Names, time : Times])
      BY DEF SortInv
    <3>2. files \in [1..Len(files) -> T] /\ Len(files) \in Nat
      BY <3>1 DEF ToSet
    <3>3. QED
      BY <3>2, FunctionIsList
  <2>2. sorted = MergeSort(given, T)[files]
    BY DEF SortInv
  <2> HIDE DEF T
  <2>3. sorted \in Seq(T) /\ Len(sorted) = Len(files) /\ ToSet(sorted) = ToSet(files)
    BY <2>1, <2>2, MergeSortPermutes
  <2>4. Range(files) = ToSet(files) /\ Range(sorted) = ToSet(sorted)
    BY <2>1, <2>3 DEF Range, ToSet
  <2>5. QED
    BY <2>3, <2>4
<1>2. QED
  BY <1>1, SortInvariant, PTL

\* With ordinary names the sorted list has any two files in the reference order, unless both r
\* and t are given; two files that this order does not tell apart are in the order read.
LEMMA SortOrders ==
    ASSUME SortInv, sorted # <<>>, AllOrdinary
    PROVE  /\ files \in Seq(ToSet(files)) /\ sorted \in Seq(ToSet(files))
           /\ InOrderSorted(given, files, sorted)
           /\ \A a, b \in ToSet(files) :
                 /\ ~({"r", "t"} \subseteq given) => (NotAfter(given, a, b) <=> ~ Before(b, a))
                 /\ ~ Before(a, b) /\ ~ Before(b, a) => NotAfter(given, a, b)
<1> DEFINE T == ToSet(files)
           F == [name : Names, time : Times]
<1>1. files \in Seq(F)
  BY DEF SortInv
<1>2. files \in Seq(T) /\ T = {files[i] : i \in 1..Len(files)} /\ T \subseteq F
  <2>1. files \in [1..Len(files) -> T] /\ Len(files) \in Nat
    BY <1>1 DEF ToSet
  <2> HIDE DEF F
  <2>2. files \in Seq(T)
    BY <2>1, FunctionIsList
  <2>3. QED
    BY <1>1, <2>2, Members
<1>3. sorted = MergeSort(given, T)[files]
  BY DEF SortInv
<1>4. \A a \in T : OrdinaryFile(a)
  <2> SUFFICES ASSUME NEW i \in 1..Len(files) PROVE OrdinaryFile(files[i])
    BY <1>2
  <2>1. files[i] \in F
    <3> HIDE DEF F
    <3> QED
      BY <1>1
  <2>2. files[i].name \in Names /\ files[i].time \in Times
    BY <2>1
  <2>3. files[i].name \in Seq(Chars) /\ files[i].time \in Int
    BY <2>2, AsciiAssumption, TimesAssumption DEF Chars
  <2>4. Ordinary(files[i].name)
    BY DEF AllOrdinary
  <2>5. QED
    BY <2>3, <2>4 DEF OrdinaryFile
<1> HIDE DEF T, F
<1>5. sorted \in Seq(T)
  BY <1>2, <1>3, MergeSortPermutes
<1>6. InOrderSorted(given, files, sorted)
  <2>1. Ranks(given, T)
    BY <1>4, CompareRanks
  <2>2. QED
    BY <1>2, <1>3, <2>1, MergeSortOrders
<1>7. ASSUME NEW a \in T, NEW b \in T
      PROVE  /\ ~({"r", "t"} \subseteq given) => (NotAfter(given, a, b) <=> ~ Before(b, a))
             /\ ~ Before(a, b) /\ ~ Before(b, a) => NotAfter(given, a, b)
  <2>1. OrdinaryFile(a) /\ OrdinaryFile(b)
    BY <1>4
  <2>2. NotAfter(given, a, b) <=> ~ FileLess(given, b, a)
    BY <2>1, CompareOrders
  <2>3. /\ ~({"r", "t"} \subseteq given) => (Before(b, a) <=> FileLess(given, b, a))
        /\ ~ Before(b, a) /\ ~ Before(a, b) => ~ FileLess(given, b, a)
    BY <2>1, BeforeIsLess DEF OrdinaryFile
  <2>4. QED
    BY <2>2, <2>3
<1>8. QED
  BY <1>2, <1>5, <1>6, <1>7 DEF T

\* Without a flag, with -r and with -t merge_sort puts files with ordinary names in the order of
\* ls: by letters whatever their case, a name with a dot after the name without; the other way
\* round; or newest first. Nothing is said of -rt.
THEOREM SortOrdersFiles == SortSpec => []SortedByReference
<1>1. SortInv => SortedByReference
  <2> SUFFICES ASSUME SortInv, sorted # <<>>, AllOrdinary, ~({"r", "t"} \subseteq given),
                      NEW i \in 1..Len(sorted), NEW j \in 1..Len(sorted), i < j
               PROVE  ~ Before(sorted[j], sorted[i])
    BY DEF SortedByReference
  <2>1. /\ sorted \in Seq(ToSet(files)) /\ InOrderSorted(given, files, sorted)
        /\ \A a, b \in ToSet(files) : NotAfter(given, a, b) <=> ~ Before(b, a)
    BY SortOrders
  <2>2. Precedes(sorted, sorted[i], sorted[j])
    BY DEF Precedes
  <2>3. NotAfter(given, sorted[i], sorted[j])
    BY <2>1, <2>2 DEF InOrderSorted, Ordered
  <2>4. sorted[i] \in ToSet(files) /\ sorted[j] \in ToSet(files)
    BY <2>1
  <2>5. QED
    BY <2>1, <2>3, <2>4
<1>2. QED
  BY <1>1, SortInvariant, PTL

\* Files that this order does not tell apart stay in the order in which they were read.
THEOREM SortIsStable == SortSpec => []TiesKeepTheirOrder
<1>1. SortInv => TiesKeepTheirOrder
  <2> SUFFICES ASSUME SortInv, sorted # <<>>, AllOrdinary,
                      NEW i \in 1..Len(files), NEW j \in 1..Len(files), i < j,
                      ~ Before(files[i], files[j]), ~ Before(files[j], files[i])
               PROVE  \E k, l \in 1..Len(sorted) :
                          k < l /\ sorted[k] = files[i] /\ sorted[l] = files[j]
    BY DEF TiesKeepTheirOrder
  <2>1. /\ files \in Seq(ToSet(files)) /\ InOrderSorted(given, files, sorted)
        /\ \A a, b \in ToSet(files) : ~ Before(a, b) /\ ~ Before(b, a) => NotAfter(given, a, b)
    BY SortOrders
  <2>2. Precedes(files, files[i], files[j])
    BY DEF Precedes
  <2>3. files[i] \in ToSet(files) /\ files[j] \in ToSet(files)
    BY <2>1
  <2>4. Precedes(sorted, files[i], files[j])
    BY <2>1, <2>2, <2>3 DEF InOrderSorted
  <2>5. QED
    BY <2>4 DEF Precedes
<1>2. QED
  BY <1>1, SortInvariant, PTL
=============================================================================
