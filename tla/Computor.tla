------------------------------ MODULE Computor ------------------------------
(***************************************************************************)
(* computor.py: the terms of both sides of an equation are added up in a   *)
(* dictionary from powers to coefficients, the largest power in it is      *)
(* taken for the degree, and the degree picks the solver.                  *)
(*                                                                         *)
(* A term is a coefficient and a power, as the regular expressions split   *)
(* the text. Coefficients of the text are whole numbers of 1/Scale (tenths *)
(* when Scale = 10). Floats are whole numbers of 1/Unit with at most as    *)
(* many digits as Precision allows, and every conversion, sum and product  *)
(* is rounded to one of them. Of the solutions it is modelled how many     *)
(* there are and of which kind, not their decimals.                        *)
(***************************************************************************)
EXTENDS Integers, Sequences, FiniteSetsExt, Functions

CONSTANTS
    Coefficients,   \* coefficients in the text, in units of 1/Scale
    Scale,          \* a power of ten: the places that the text writes after the point
    Precision,      \* whole numbers below it are floats: 2^53
    Places,         \* binary places of the smallest float: 1074
    MaxPower,       \* bound: powers in the text
    MaxTerms        \* bound: terms on the left; the right has half as many

ASSUME TermsAssumption ==
    Coefficients \subseteq Int /\ MaxPower \in Nat /\ MaxTerms \in Nat \ {0}

ASSUME FloatsAssumption ==
    Scale \in Nat \ {0} /\ Precision \in Nat \ {0, 1} /\ Places \in Nat

VARIABLES
    ls_terms, rs_terms, \* the terms not yet read
    polynomial,         \* the dictionary, of floats
    degree,             \* -1 before it is known
    answer,             \* what is printed, "none" before
    written,            \* history: the sum of the terms of the text for each power
    exact               \* history: the powers whose terms are whole and not too large

vars == <<ls_terms, rs_terms, polynomial, degree, answer, written, exact>>

----------------------------------------------------------------------------
(* Floats: k stands for k / Unit. The exponent has no upper end here. *)

Doubled[n \in Nat] == IF n = 0 THEN 1 ELSE 2 * Doubled[n - 1]

Unit == Doubled[Places]

Abs(n) == IF n < 0 THEN -n ELSE n

\* The least power of two of which a number from n on has fewer than Precision.
Step[n \in Nat] == IF n < Precision THEN 1 ELSE 2 * Step[n \div 2]

\* The distance of the floats around num / den.
Spacing(num, den) == Step[Abs(num) \div den]

\* The whole number nearest to num / den, the even one of two.
Nearest(num, den) ==
    LET q == num \div den
        r == num % den
    IN  IF 2 * r > den \/ (2 * r = den /\ q % 2 = 1) THEN q + 1 ELSE q

\* The float nearest to num / den: conversions, sums and products give it.
Round(num, den) ==
    LET s == Spacing(num, den) IN s * Nearest(num, den * s)

\* num / den if it is a float, else one of the two floats around it: pow promises no more.
Around(num, den) ==
    LET s == Spacing(num, den)
        q == num \div (den * s)
    IN  {x \in {s * q, s * (q + 1)} : Abs(den * x - num) < den * s}

----------------------------------------------------------------------------

Powers == 0..MaxPower
Terms == [coeff : Coefficients, power : Powers]
TermLists(n) == UNION {[1..k -> Terms] : k \in 0..n}

\* The sum of the coefficients that a side has at power p.
Total(side, p) ==
    SumFunction([i \in 1..Len(side) |-> IF side[i].power = p THEN side[i].coeff ELSE 0])

\* The equation that is meant: what is on the right counts negatively.
Meant(ls, rs) == [p \in Powers |-> Total(ls, p) - Total(rs, p)]

Sizes(side) == [i \in 1..Len(side) |-> [side[i] EXCEPT !.coeff = Abs(@)]]

Whole(side, p) == \A i \in 1..Len(side) : side[i].power = p => side[i].coeff % Scale = 0

\* The powers whose terms are whole numbers that stay below Precision when they are added.
Exact(ls, rs) ==
    {p \in Powers : /\ Whole(ls, p) /\ Whole(rs, p)
                    /\ Total(Sizes(ls), p) + Total(Sizes(rs), p) < Precision * Scale}

Init ==
    /\ ls_terms \in TermLists(MaxTerms) /\ rs_terms \in TermLists(MaxTerms \div 2)
    /\ polynomial = [p \in {} |-> 0] /\ degree = -1 /\ answer = "none"
    /\ written = Meant(ls_terms, rs_terms) /\ exact = Exact(ls_terms, rs_terms)

Get(poly, p, default) == IF p \in DOMAIN poly THEN poly[p] ELSE default

\* float(match.group(1))
Float(coeff) == Round(coeff * Unit, Scale)

\* polynomial[power] = polynomial.get(power, 0) + c
AddTerm(poly, p, c) ==
    [q \in DOMAIN poly \cup {p} |-> IF q = p THEN Round(Get(poly, p, 0) + c, 1) ELSE poly[q]]

ParseLeft ==
    /\ ls_terms # <<>>
    /\ polynomial' = AddTerm(polynomial, Head(ls_terms).power, Float(Head(ls_terms).coeff))
    /\ ls_terms' = Tail(ls_terms)
    /\ UNCHANGED <<rs_terms, degree, answer, written, exact>>

\* Mutant: the terms of the right side keep their sign.
ParseRightSameSign ==
    /\ ls_terms = <<>> /\ rs_terms # <<>>
    /\ polynomial' = AddTerm(polynomial, Head(rs_terms).power, Float(Head(rs_terms).coeff))
    /\ rs_terms' = Tail(rs_terms)
    /\ UNCHANGED <<ls_terms, degree, answer, written, exact>>

ParseRight ==
    /\ ls_terms = <<>> /\ rs_terms # <<>>
    /\ polynomial' = AddTerm(polynomial, Head(rs_terms).power, -Float(Head(rs_terms).coeff))
    /\ rs_terms' = Tail(rs_terms)
    /\ UNCHANGED <<ls_terms, degree, answer, written, exact>>

\* The largest key, whatever its coefficient.
CalculateDegree ==
    /\ ls_terms = <<>> /\ rs_terms = <<>> /\ degree = -1
    /\ degree' = Max(DOMAIN polynomial \cup {0})
    /\ UNCHANGED <<ls_terms, rs_terms, polynomial, answer, written, exact>>

SolveDegree0 == IF Get(polynomial, 0, 1) = 0 THEN "all reals" ELSE "no solution"

\* -c / b: a division by zero ends in the message for a wrong format.
SolveDegree1 == IF Get(polynomial, 1, 0) = 0 THEN "invalid" ELSE "one"

(* b ** 2 - 4 * a * c; multiplying by 4 only changes the exponent. *)

Squares(b) == Around(b * b, Unit)

\* Mutant: 4 a c is added to the square.
DiscriminantsAdded(a, b, c) == {Round(s + Round(4 * a * c, Unit), 1) : s \in Squares(b)}

Discriminants(a, b, c) == {Round(s - Round(4 * a * c, Unit), 1) : s \in Squares(b)}

\* All three cases divide by 2 a, so a = 0 is answered like a division by zero above.
SolveDegree2 ==
    LET a == Get(polynomial, 2, 0)
        b == Get(polynomial, 1, 0)
        c == Get(polynomial, 0, 0)
    IN  IF a = 0 THEN {"invalid"}
        ELSE {IF delta > 0 THEN "two" ELSE IF delta = 0 THEN "one" ELSE "two complex" :
                 delta \in Discriminants(a, b, c)}

Solve ==
    /\ degree >= 0 /\ answer = "none"
    /\ \/ degree > 2 /\ answer' = "too high"
       \/ degree = 2 /\ answer' \in SolveDegree2
       \/ degree = 1 /\ answer' = SolveDegree1
       \/ degree = 0 /\ answer' = SolveDegree0
    /\ UNCHANGED <<ls_terms, rs_terms, polynomial, degree, written, exact>>

Next == ParseLeft \/ ParseRight \/ CalculateDegree \/ Solve

Spec == Init /\ [][Next]_vars

----------------------------------------------------------------------------
(* Reference: the degree is that of the last coefficient that is not zero, and the kind of *)
(* solutions of a quadratic is told from its signs at the multiples of 1 / 2|a|, among     *)
(* which is its vertex.                                                                     *)

Degree == Max({p \in Powers : written[p] # 0} \cup {0})

Sign(n) == IF n > 0 THEN 1 ELSE IF n < 0 THEN -1 ELSE 0

\* The signs relative to that of a, with x = n / 2|a|, within Reach of 0.
Reach == 1 + (IF written[1] < 0 THEN -written[1] ELSE written[1])

Signs ==
    LET a == written[2]
        d == 2 * a * Sign(a)
        Value(n) == a * n * n + written[1] * n * d + written[0] * d * d
    IN  {Sign(a) * Sign(Value(n)) : n \in -Reach..Reach}

Kind ==
    CASE Degree = 0 -> IF written[0] = 0 THEN "all reals" ELSE "no solution"
      [] Degree = 1 -> "one"
      [] Degree = 2 -> IF -1 \in Signs THEN "two" ELSE IF 0 \in Signs THEN "one" ELSE "two complex"
      [] Degree > 2 -> "too high"

\* Every term of the text is in the polynomial once, with the sign of its side, in whatever
\* order and however often its power occurs: without any rounding when the terms of the
\* power are whole numbers that add up to less than 2^53.
PolynomialIsMeant ==
    degree # -1 => \A p \in exact : Scale * Get(polynomial, p, 0) = Unit * written[p]

\* Whole coefficients small enough for the discriminant to be exact as well.
Small ==
    /\ exact = Powers
    /\ Degree = 2 => LET a == written[2] \div Scale
                         b == written[1] \div Scale
                         c == written[0] \div Scale
                     IN  b * b < Precision /\ Abs(4 * a * c) < Precision

\* For such an equation whose largest power does not cancel the answer is right: it is told
\* by a discriminant that is zero exactly when there is one solution.
RightForWholes ==
    answer # "none" /\ DOMAIN polynomial # {} /\ degree = Degree /\ Small => answer = Kind

\* For any other coefficients the answer to a quadratic is that of its stored coefficients
\* as long as their discriminant is no smaller than one rounding of each of its two products.
\* Nearer to zero it may be wrong, as for 0.1 * X^2 + 0.6 * X^1 + 0.9 * X^0 = 0.
RightBeyondRounding ==
    LET a == Get(polynomial, 2, 0)
        b == Get(polynomial, 1, 0)
        c == Get(polynomial, 0, 0)
        delta == b * b - 4 * a * c
        margin == Unit * (Spacing(b * b, Unit) + Spacing(4 * a * c, Unit))
    IN  answer # "none" /\ degree = 2 /\ a # 0 =>
            /\ delta >= margin => answer = "two"
            /\ delta <= -margin => answer = "two complex"

RightUnlessCancelled == RightForWholes /\ RightBeyondRounding

\* README.md: it "reduces it to its simplest form, and then solves it based on its degree"
\* (violated: a power whose coefficients cancel still makes the degree.)
AlwaysRight == answer # "none" /\ DOMAIN polynomial # {} => answer = Kind
=============================================================================
