------------------------ MODULE IcmpChecksumProofs ------------------------
(***************************************************************************)
(* Theorems about IcmpChecksum, for every word size B and packet of at     *)
(* most B words.                                                           *)
(***************************************************************************)
EXTENDS IcmpChecksum, DataLemmas, TLAPS

\* A number written as a multiple of w and a rest below w has that multiple as quotient.
LEMMA DivOfSum ==
    ASSUME NEW w \in Nat \ {0}, NEW q \in Nat, NEW r \in 0..(w - 1)
    PROVE  (w * q + r) \div w = q
<1> DEFINE n == w * q + r
           d == n \div w
           e == n % w
<1>1. n \in Nat
  OBVIOUS
<1>2. d \in Nat /\ e \in 0..(w - 1) /\ n = w * d + e
  BY <1>1, DivMod
<1>3. e = r
  BY ModOfSum
<1>4. w * (d - q) = 0 /\ d - q \in Int
  BY <1>2, <1>3
<1> HIDE DEF n, d, e
<1>5. CASE d - q >= 1
  BY <1>4, <1>5, TimesAtLeast
<1>6. CASE d - q <= -1
  BY <1>4, <1>6, TimesAtMost
<1>7. CASE d - q = 0
  BY <1>2, <1>7 DEF n, d
<1>8. QED
  BY <1>4, <1>5, <1>6, <1>7

\* A product is monotonic in a factor.
LEMMA TimesMonotonic ==
    ASSUME NEW a \in Nat, NEW b \in Nat, NEW c \in Nat, a <= b PROVE a * c <= b * c
<1>1. (b - a) * c >= 0
  OBVIOUS
<1>2. (b - a) * c = b * c - a * c
  OBVIOUS
<1>3. a * c \in Int /\ b * c \in Int
  OBVIOUS
<1>4. QED
  BY <1>1, <1>2, <1>3

\* Folding a sum of at most B words twice gives a word that differs from the sum by a
\* multiple of B - 1: the second fold cannot carry again.
LEMMA TwoFoldsSuffice ==
    ASSUME NEW s \in Nat, s <= B * (B - 1)
    PROVE  /\ Folded(s) \in Word
           /\ \E k \in Nat : s = (B - 1) * k + Folded(s)
<1> DEFINE q == s \div B
           r == s % B
           f == q + r
<1>0. B \in Nat \ {0}
  BY WordsAssumption
<1>1. q \in Nat /\ r \in 0..(B - 1) /\ s = B * q + r
  BY <1>0, DivMod
<1> USE WordsAssumption
<1>2. Folded(s) = (f + (f \div B)) % B
  BY DEF Folded
<1> HIDE DEF q, r
<1>3. q <= B - 1
  <2>1. SUFFICES ASSUME q >= B PROVE FALSE
    BY <1>1
  <2> DEFINE square == B * B
             product == B * q
  <2>2. square <= product
    <3>1. B <= q /\ q * B = product
      BY <1>1, <2>1
    <3>2. QED
      BY <1>1, <3>1, TimesMonotonic
  <2>3. s <= square - B /\ square \in Nat /\ product \in Nat
    BY <1>1
  <2>4. s = product + r
    BY <1>1
  <2> HIDE DEF square, product
  <2>5. QED
    BY <1>1, <2>2, <2>3, <2>4
<1>4. f \in Nat /\ f <= 2 * B - 2
  BY <1>1, <1>3
<1>5. s = (B - 1) * q + f
  <2>1. (B - 1) * q = B * q - q /\ B * q \in Nat
    BY <1>1
  <2>2. QED
    BY <1>1, <2>1
<1> HIDE DEF f
<1>6. CASE f < B
  <2>1. f = B * 0 + f /\ f \in 0..(B - 1)
    BY <1>4, <1>6
  <2>2. f \div B = 0 /\ f % B = f
    BY <2>1, DivOfSum, ModOfSum
  <2>3. Folded(s) = f
    BY <1>2, <1>4, <2>2
  <2>4. QED
    BY <1>1, <1>5, <2>1, <2>3 DEF Word
<1>7. CASE f >= B
  <2>1. f = B * 1 + (f - B) /\ f - B \in 0..(B - 1)
    BY <1>4, <1>7
  <2>2. f \div B = 1
    BY <2>1, DivOfSum
  <2>3. f + 1 = B * 1 + (f + 1 - B) /\ f + 1 - B \in 0..(B - 1)
    BY <1>4, <1>7
  <2>4. (f + 1) % B = f + 1 - B
    BY <2>3, ModOfSum
  <2>5. Folded(s) = f + 1 - B
    BY <1>2, <2>2, <2>4
  <2>6. s = (B - 1) * (q + 1) + (f + 1 - B) /\ q + 1 \in Nat
    <3>1. (B - 1) * (q + 1) = (B - 1) * q + (B - 1) /\ (B - 1) * q \in Nat
      BY <1>1
    <3>2. QED
      BY <1>1, <1>4, <1>5, <3>1
  <2>7. QED
    BY <2>3, <2>5, <2>6 DEF Word
<1>8. QED
  BY <1>4, <1>6, <1>7

\* The complement of a folded sum cancels the sum modulo B - 1.
LEMMA ComplementCancels ==
    ASSUME NEW s \in Nat, s <= B * (B - 1)
    PROVE  /\ B - 1 - Folded(s) \in Word
           /\ (s + (B - 1 - Folded(s))) % (B - 1) = 0
<1> USE WordsAssumption
<1>1. PICK k \in Nat : s = (B - 1) * k + Folded(s)
  BY TwoFoldsSuffice
<1>2. Folded(s) \in 0..(B - 1)
  BY TwoFoldsSuffice DEF Word
<1>3. B - 1 - Folded(s) \in Word
  BY <1>2 DEF Word
<1>4. s + (B - 1 - Folded(s)) = (B - 1) * (k + 1) + 0
  <2>1. (B - 1) * (k + 1) = (B - 1) * k + (B - 1) /\ (B - 1) * k \in Nat
    OBVIOUS
  <2>2. QED
    BY <1>1, <1>2, <2>1
<1>5. ((B - 1) * (k + 1) + 0) % (B - 1) = 0
  <2>1. B - 1 \in Nat \ {0} /\ k + 1 \in Nat /\ 0 \in 0..((B - 1) - 1)
    OBVIOUS
  <2>2. QED
    BY <2>1, ModOfSum
<1>6. QED
  BY <1>3, <1>4, <1>5

(* The strengthening: the sum of the first words is at most as many times B - 1, so it *)
(* stays below the modulus of the accumulator.                                         *)
SumInv ==
    /\ packet \in [1..N -> Word]
    /\ pc \in {"prepare", "add", "fold", "sent"}
    /\ next \in 1..(N + 1) /\ sum \in Nat
    /\ sum = total
    /\ pc = "add" => next <= N
    /\ sum <= (next - 1) * (B - 1)
    /\ ChecksumCancels

\* Each word adds at most B - 1.
LEMMA SumBounded ==
    ASSUME NEW n \in 1..N, NEW s \in Nat, s <= (n - 1) * (B - 1), NEW w \in Word
    PROVE  /\ s + w <= ((n + 1) - 1) * (B - 1)
           /\ s + w \in Nat /\ (s + w) % (B * B) = s + w
<1> USE WordsAssumption
<1>1. w \in Nat /\ w <= B - 1
  BY DEF Word
<1>2. ((n + 1) - 1) * (B - 1) = (n - 1) * (B - 1) + (B - 1) /\ (n - 1) * (B - 1) \in Nat
  OBVIOUS
<1>3. s + w <= ((n + 1) - 1) * (B - 1)
  BY <1>1, <1>2
<1>4. n * (B - 1) <= B * (B - 1)
  BY TimesMonotonic
<1>5. B * (B - 1) = B * B - B /\ B * B \in Nat \ {0} /\ n * (B - 1) \in Nat
  OBVIOUS
<1>6. (n + 1) - 1 = n
  OBVIOUS
<1>7. s + w \in 0..(B * B - 1)
  BY <1>1, <1>3, <1>4, <1>5, <1>6
<1> DEFINE m == B * B
<1>8. m \in Nat \ {0} /\ s + w \in 0..(m - 1)
  BY <1>5, <1>7
<1> HIDE DEF m
<1>9. (m * 0 + (s + w)) % m = s + w
  BY <1>8, ModOfSum
<1>10. m * 0 + (s + w) = s + w
  BY <1>1, <1>8
<1>11. QED
  BY <1>3, <1>7, <1>9, <1>10 DEF m

\* Every step keeps the strengthening.
LEMMA SumStep == SumInv /\ [Next]_vars => SumInv'
<1> USE WordsAssumption
<1>1. ASSUME SumInv, [Next]_vars PROVE SumInv'
  <2>1. CASE Prepare
    <3>1. packet' \in [1..N -> Word]
      <4>1. PICK s \in Word : packet' = [packet EXCEPT ![SequenceField] = s, ![ChecksumField] = 0]
        BY <2>1 DEF Prepare
      <4>2. 0 \in Word
        BY DEF Word
      <4>3. packet \in [1..N -> Word]
        BY <1>1 DEF SumInv
      <4>4. QED
        BY <4>1, <4>2, <4>3
    <3>2. sum' = 0 /\ total' = 0 /\ next' = 1 /\ pc' = "add"
      BY <2>1 DEF Prepare
    <3>3. 1 \in 1..(N + 1) /\ 1 <= N /\ 0 <= (1 - 1) * (B - 1)
      BY DEF SequenceField
    <3>4. QED
      BY <3>1, <3>2, <3>3 DEF SumInv, ChecksumCancels
  <2>2. CASE Add
    <3>1. /\ next \in 1..N /\ sum \in Nat /\ sum = total /\ packet[next] \in Word
          /\ sum <= (next - 1) * (B - 1)
      BY <1>1, <2>2 DEF SumInv, Add
    <3>2. /\ sum + packet[next] <= ((next + 1) - 1) * (B - 1)
          /\ sum + packet[next] \in Nat
          /\ (sum + packet[next]) % (B * B) = sum + packet[next]
      BY <3>1, SumBounded
    <3>3. /\ sum' = sum + packet[next] /\ total' = total + packet[next]
          /\ next' = next + 1 /\ packet' = packet
          /\ pc' = IF next = N THEN "fold" ELSE "add"
      BY <2>2, <3>2 DEF Add
    <3>4. next' \in 1..(N + 1) /\ (pc' = "add" => next' <= N) /\ pc' \in {"add", "fold"}
      BY <3>1, <3>3
    <3>5. sum' <= (next' - 1) * (B - 1)
      BY <3>2, <3>3
    <3>6. QED
      BY <1>1, <3>1, <3>2, <3>3, <3>4, <3>5 DEF SumInv, ChecksumCancels
  <2>3. CASE Store
    <3>1. /\ next \in 1..(N + 1) /\ sum \in Nat /\ sum = total
          /\ sum <= (next - 1) * (B - 1) /\ packet \in [1..N -> Word]
      BY <1>1 DEF SumInv
    <3>2. sum <= B * (B - 1)
      <4>1. next - 1 \in Nat /\ next - 1 <= B /\ B - 1 \in Nat
        BY <3>1
      <4>2. (next - 1) * (B - 1) <= B * (B - 1)
        BY <4>1, TimesMonotonic
      <4>3. (next - 1) * (B - 1) \in Nat /\ B * (B - 1) \in Nat
        BY <4>1
      <4>4. QED
        BY <3>1, <4>2, <4>3
    <3>3. /\ B - 1 - Folded(sum) \in Word
          /\ (sum + (B - 1 - Folded(sum))) % (B - 1) = 0
      BY <3>1, <3>2, ComplementCancels
    <3>4. /\ pc' = "sent" /\ UNCHANGED <<next, sum, total>>
          /\ packet' = [packet EXCEPT ![ChecksumField] = B - 1 - Folded(sum)]
      BY <2>3 DEF Store
    <3>5. ChecksumField \in 1..N
      BY DEF ChecksumField, SequenceField
    <3>6. packet' \in [1..N -> Word] /\ packet'[ChecksumField] = B - 1 - Folded(sum)
      BY <3>1, <3>3, <3>4, <3>5
    <3>7. ChecksumCancels'
      BY <3>1, <3>3, <3>4, <3>6 DEF ChecksumCancels, Word
    <3>8. QED
      BY <3>1, <3>4, <3>6, <3>7 DEF SumInv
  <2>4. CASE UNCHANGED vars
    BY <1>1, <2>4 DEF SumInv, ChecksumCancels, vars
  <2>5. QED
    BY <1>1, <2>1, <2>2, <2>3, <2>4 DEF Next
<1>2. QED
  BY <1>1

\* The strengthening holds whatever the packets are.
LEMMA SumInvariant == Spec => []SumInv
<1>1. Init => SumInv
  BY WordsAssumption DEF Init, SumInv, ChecksumCancels
<1>2. QED
  BY <1>1, SumStep, PTL DEF Spec

----------------------------------------------------------------------------

(* What has been added up: the first words of the packet, in which the field of the checksum *)
(* is still empty; in the end that of the packet but for the field.                          *)
WordsInv ==
    /\ pc \in {"add", "fold"} => /\ packet[ChecksumField] = 0
                                /\ total = SumFunctionOnSet(packet, 1..(next - 1))
    /\ pc = "fold" => next = N + 1
    /\ pc = "sent" => SumFunctionOnSet(packet, 1..N) = total + packet[ChecksumField]

\* The history variable is the sum of the words.
LEMMA WordsInvariant == Spec => []WordsInv
<1> USE WordsAssumption
<1>1. Init => WordsInv
  BY DEF Init, WordsInv
<1>2. ASSUME SumInv, WordsInv, [Next]_vars PROVE WordsInv'
  <2>0. /\ packet \in [1..N -> Word] /\ next \in 1..(N + 1) /\ \A i \in 1..N : packet[i] \in Int
        /\ ChecksumField \in 1..N /\ SequenceField \in 1..N /\ ChecksumField # SequenceField
    BY <1>2 DEF SumInv, Word, ChecksumField, SequenceField
  <2>1. CASE Prepare
    <3>1. /\ pc' = "add" /\ next' = 1 /\ total' = 0 /\ packet'[ChecksumField] = 0
      BY <2>0, <2>1 DEF Prepare
    <3>2. 1..(next' - 1) = {}
      BY <3>1
    <3>3. SumFunctionOnSet(packet', 1..(next' - 1)) = SumFunctionOnSet(packet', {})
      BY <3>2, Zenon
    <3>4. QED
      BY <3>1, <3>3, SumEmpty DEF WordsInv
  <2>2. CASE Add
    <3>1. /\ next \in 1..N /\ next - 1 \in Nat /\ (next - 1) + 1 = next
          /\ packet[ChecksumField] = 0
          /\ total = SumFunctionOnSet(packet, 1..(next - 1))
      BY <1>2, <2>0, <2>2 DEF SumInv, WordsInv, Add
    <3>2. SumFunctionOnSet(packet, 1..next) =
              SumFunctionOnSet(packet, 1..(next - 1)) + packet[next]
      <4> DEFINE n == next - 1
      <4>1. n \in Nat /\ n + 1 = next /\ \A i \in 1..(n + 1) : packet[i] \in Int
        BY <2>0, <3>1
      <4> HIDE DEF n
      <4>2. SumFunctionOnSet(packet, 1..(n + 1)) = SumFunctionOnSet(packet, 1..n) + packet[n + 1]
        BY <4>1, SumNext
      <4>3. QED
        BY <4>1, <4>2 DEF n
    <3>3. /\ total' = total + packet[next] /\ next' = next + 1 /\ packet' = packet
          /\ pc' = IF next = N THEN "fold" ELSE "add"
      BY <2>2 DEF Add
    <3>4. next' - 1 = next
      BY <3>1, <3>3
    <3>5. total' = SumFunctionOnSet(packet', 1..(next' - 1))
      BY <3>1, <3>2, <3>3, <3>4
    <3>6. QED
      BY <3>1, <3>3, <3>5 DEF WordsInv
  <2>3. CASE Store
    <3> DEFINE c == B - 1 - Folded(sum)
    <3>1. /\ packet[ChecksumField] = 0 /\ next = N + 1 /\ pc' = "sent" /\ total' = total
          /\ total = SumFunctionOnSet(packet, 1..(next - 1))
          /\ packet' = [packet EXCEPT ![ChecksumField] = c]
      BY <1>2, <2>3 DEF WordsInv, Store
    <3>2. packet'[ChecksumField] \in Int /\ packet' \in [1..N -> Word]
      <4>1. SumInv'
        BY <1>2, SumStep
      <4>2. QED
        BY <2>0, <4>1 DEF SumInv, Word
    <3>3. \A i \in 1..N : i # ChecksumField => packet'[i] = packet[i]
      BY <2>0, <3>1
    <3>4. IsFiniteSet(1..N)
      BY FS_Interval
    <3>5. SumFunctionOnSet(packet', 1..N) =
              SumFunctionOnSet(packet, 1..N) - packet[ChecksumField] + packet'[ChecksumField]
      <4> DEFINE S == 1..N
      <4>1. /\ IsFiniteSet(S) /\ ChecksumField \in S /\ packet[ChecksumField] \in Int
            /\ \A i \in S : i # ChecksumField => packet[i] \in Int /\ packet'[i] = packet[i]
        BY <2>0, <3>3, <3>4
      <4> HIDE DEF S
      <4>2. SumFunctionOnSet(packet', S) =
                SumFunctionOnSet(packet, S) - packet[ChecksumField] + packet'[ChecksumField]
        BY <3>2, <4>1, SumChanged
      <4>3. QED
        BY <4>2 DEF S
    <3>6. next - 1 = N /\ total \in Int
      BY <1>2, <3>1 DEF SumInv
    <3>7. total = SumFunctionOnSet(packet, 1..N)
      BY <3>1, <3>6
    <3>8. SumFunctionOnSet(packet', 1..N) = total' + packet'[ChecksumField]
      BY <3>1, <3>2, <3>5, <3>6, <3>7
    <3>9. QED
      BY <3>1, <3>8 DEF WordsInv
  <2>4. CASE UNCHANGED vars
    BY <1>2, <2>4 DEF WordsInv, vars
  <2>5. QED
    BY <1>2, <2>1, <2>2, <2>3, <2>4 DEF Next
<1>3. QED
  BY <1>1, <1>2, SumInvariant, PTL DEF Spec

\* A receiver that adds up the words of any probe that was sent finds all ones: the checksum
\* is that of this packet and not of the one before, for packets of every length up to B.
THEOREM EveryProbeVerifies == Spec => []Verifies
<1>1. SumInv /\ WordsInv => Verifies
  <2> SUFFICES ASSUME SumInv, WordsInv, pc = "sent"
               PROVE  SumFunction(packet) % (B - 1) = 0
    BY DEF Verifies
  <2>1. DOMAIN packet = 1..N
    BY DEF SumInv
  <2>2. SumFunction(packet) = SumFunctionOnSet(packet, 1..N)
    BY <2>1 DEF SumFunction
  <2>3. QED
    BY <2>2 DEF SumInv, WordsInv, ChecksumCancels
<1>2. QED
  BY <1>1, SumInvariant, WordsInvariant, PTL

\* The accumulator never wraps, for packets of at most B words.
THEOREM AccumulatorStaysExact == Spec => []AccumulatorExact
<1>1. SumInv => AccumulatorExact
  BY DEF SumInv, AccumulatorExact
<1>2. QED
  BY <1>1, SumInvariant, PTL

\* Two folds are enough for every packet: the stored checksum cancels the sum.
THEOREM ChecksumAlwaysCancels == Spec => []ChecksumCancels
<1>1. SumInv => ChecksumCancels
  BY DEF SumInv
<1>2. QED
  BY <1>1, SumInvariant, PTL
=============================================================================
