---------------------------- MODULE LibftNumbers ----------------------------
(***************************************************************************)
(* libft: numbers to text and back, and ft_printf. A text is the sequence  *)
(* of its ASCII codes. int and long have IntBits and LongBits bits, so     *)
(* that every number can be tried; arithmetic wraps as the processor's.    *)
(* A function that prints returns what it wrote and the count it reports.  *)
(***************************************************************************)
EXTENDS Integers, Sequences, FiniteSetsExt

CONSTANTS IntBits, LongBits, NullString

\* A char has 8 bits; ft_atoi sums in a type that is wider than the int it returns.
ASSUME WidthsAssumption ==
    IntBits \in Nat /\ LongBits \in Nat /\ 8 <= IntBits /\ IntBits < LongBits

Power(base, exponent) ==
    LET power[k \in Nat] == IF k = 0 THEN 1 ELSE base * power[k - 1] IN power[exponent]

Unsigned(k, bits) == k % Power(2, bits)
Signed(k, bits) ==
    LET u == Unsigned(k, bits) IN IF u < Power(2, bits - 1) THEN u ELSE u - Power(2, bits)

IntMin == -Power(2, IntBits - 1)
IntMax == Power(2, IntBits - 1) - 1
LongMax == Power(2, LongBits - 1) - 1

Zero == 48
Minus == 45
Plus == 43
Percent == 37
IsDigit(b) == b \in 48..57
IsSpace(b) == b \in 9..13 \cup {32}

Printed(text, count) == [text |-> text, count |-> count]
Then(p, q) == Printed(p.text \o q.text, p.count + q.count)
PutChar(b) == Printed(<<b>>, 1)

Lower == [d \in 0..15 |-> IF d < 10 THEN Zero + d ELSE 87 + d]
Upper == [d \in 0..15 |-> IF d < 10 THEN Zero + d ELSE 55 + d]

----------------------------------------------------------------------------
(* ft_put... *)

\* Each level of the recursion counts its own digit.
PutDigits(k, base, digit) ==
    LET put[n \in Nat] ==
            IF n < base THEN PutChar(digit[n])
            ELSE Then(put[n \div base], PutChar(digit[n % base]))
    IN  put[k]

PutUInt(k) == PutDigits(k, 10, Lower)
PutHexLow(k) == PutDigits(Unsigned(k, IntBits), 16, Lower)
PutHexUpper(k) == PutDigits(Unsigned(k, IntBits), 16, Upper)

\* Mutant: the magnitude is taken as an int, and the smallest one stays negative.
PutIntSigned(k) ==
    IF k >= 0 THEN PutUInt(k)
    ELSE LET m == Signed(-k, IntBits)
         IN  Then(PutChar(Minus), IF m < 0 THEN PutChar(Zero) ELSE PutUInt(m))

\* The magnitude is unsigned: the smallest int has one too.
PutInt(k) ==
    IF k >= 0 THEN PutUInt(k) ELSE Then(PutChar(Minus), PutUInt(Unsigned(-k, IntBits)))

PutNbrFd(k) == PutInt(k).text

\* The recursive calls start a count of their own: only the last digit and the sign are
\* reported. The smallest long, whose negation is undefined, is not given.
PutLongInt(k) ==
    IF k < 0 THEN Then(PutChar(Minus), Printed(PutUInt(-k).text, 1))
    ELSE Printed(PutUInt(k).text, 1)

\* An address, as an unsigned number; the innermost level writes 0x.
PutMemory(address) ==
    LET p == PutDigits(address, 16, Lower) IN Printed(<<Zero, 120>> \o p.text, p.count + 2)

PutStr(s) == IF s = NullString THEN Printed(<<40, 110, 117, 108, 108, 41>>, 6)
             ELSE Printed(s, Len(s))

----------------------------------------------------------------------------
(* ft_itoa *)

CountDigits(k) ==
    LET count[n \in Nat] == IF n > 9 THEN 1 + count[n \div 10] ELSE 1 IN count[k]

\* 10 to the power of len - 1, an int.
Dev(len) == Signed(Power(10, len - 1), IntBits)

\* left[i] is what is left of k after i digits.
DigitsFrom(k, len) ==
    LET left[i \in 0..len] == IF i = 0 THEN k ELSE left[i - 1] % Dev(len - i + 1)
    IN  [i \in 1..len |-> Zero + left[i - 1] \div Dev(len - i + 1)]

\* The text and the size that is allocated for it, its NUL included.
Itoa(k) ==
    LET m == Unsigned(IF k < 0 THEN -k ELSE k, IntBits)
        sign == IF k < 0 THEN <<Minus>> ELSE <<>>
    IN  [room |-> CountDigits(m) + Len(sign) + 1, text |-> sign \o DigitsFrom(m, CountDigits(m))]

----------------------------------------------------------------------------
(* ft_atoi *)

SkipSpaces(s) ==
    LET i == Min({k \in 0..Len(s) : k = Len(s) \/ ~IsSpace(s[k + 1])}) IN SubSeq(s, i + 1, Len(s))

\* The sum is an unsigned long long; one above the largest signed value ends the loop, if
\* it is not so large that it has wrapped to a small one. sum[i] is the sum of i digits,
\* and meant for digits only.
Accumulate(s, sign) ==
    LET sum[i \in 0..Len(s)] ==
            IF i = 0 THEN 0 ELSE Unsigned(sum[i - 1] * 10 + (s[i] - Zero), LongBits)
        stop == Min({i \in 0..Len(s) : i = Len(s) \/ ~IsDigit(s[i + 1]) \/ sum[i] > LongMax})
    IN  IF sum[stop] > LongMax THEN (IF sign = 1 THEN -1 ELSE 0)
        ELSE Signed(Signed(sum[stop], IntBits) * sign, IntBits)

Atoi(str) ==
    LET s == SkipSpaces(str)
        signed == s # <<>> /\ Head(s) \in {Minus, Plus}
    IN  Accumulate(IF signed THEN Tail(s) ELSE s, IF signed /\ Head(s) = Minus THEN -1 ELSE 1)

----------------------------------------------------------------------------
(* ft_printf *)

\* The letters of the conversions.
LetterC == 99
LetterS == 115
LetterP == 112
LetterD == 100
LetterI == 105
LetterU == 117
LetterX == 120
LetterUpperX == 88
LetterL == 108

\* What one conversion prints; an argument is read at the width of the conversion.
FixNorm(letter, arg) ==
    CASE letter = LetterC -> PutChar(arg)
      [] letter = LetterS -> PutStr(arg)
      [] letter = LetterP -> PutMemory(Unsigned(arg, LongBits))
      [] letter \in {LetterD, LetterI} -> PutInt(Signed(arg, IntBits))
      [] letter = LetterU -> PutUInt(Unsigned(arg, IntBits))
      [] letter = LetterX -> PutHexLow(arg)
      [] letter = LetterUpperX -> PutHexUpper(arg)

Conversions == {LetterC, LetterS, LetterP, LetterD, LetterI, LetterU, LetterX, LetterUpperX}

\* A step of the loop: it prints a character, or a long, or what a conversion says.
Directive(kind, letter) == [kind |-> kind, letter |-> letter]

\* After %, ld is a long, %% a percent sign; any other letter that is not a conversion
\* prints nothing, and %l before it changes nothing. No format ends in a lone %: the loop
\* would go past its NUL.
Directives(str) ==
    LET from[s \in Seq(Nat)] ==
            IF s = <<>> THEN <<>>
            ELSE IF Head(s) # Percent THEN <<Directive("char", Head(s))>> \o from[Tail(s)]
            ELSE LET long == s[2] = LetterL /\ Len(s) > 2
                     letter == IF long THEN s[3] ELSE s[2]
                     kind == IF long /\ letter = LetterD THEN "long"
                             ELSE IF letter \in Conversions THEN "conversion"
                             ELSE IF letter = Percent THEN "char" ELSE "nothing"
                 IN  <<Directive(kind, letter)>> \o from[SubSeq(s, IF long THEN 4 ELSE 3, Len(s))]
    IN  from[str]

Perform(d, arg) ==
    CASE d.kind = "char" -> PutChar(d.letter)
      [] d.kind = "long" -> PutLongInt(Signed(arg, LongBits))
      [] d.kind = "conversion" -> FixNorm(d.letter, arg)
      [] d.kind = "nothing" -> Printed(<<>>, 0)

\* used[k] is the number of arguments read after k steps; a step that reads one reads the
\* next, and another ignores what it is given.
Printf(str, args) ==
    LET ds == Directives(str)
        Reads(k) == ds[k].kind \in {"long", "conversion"}
        used[k \in 0..Len(ds)] ==
            IF k = 0 THEN 0 ELSE used[k - 1] + (IF Reads(k) THEN 1 ELSE 0)
        printed[k \in 0..Len(ds)] ==
            IF k = 0 THEN Printed(<<>>, 0)
            ELSE Then(printed[k - 1], Perform(ds[k], IF Reads(k) THEN args[used[k]] ELSE 0))
    IN  printed[Len(ds)]
=============================================================================
