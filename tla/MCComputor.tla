----------------------------- MODULE MCComputor -----------------------------
(***************************************************************************)
(* Instance of Computor for TLC, with floats of five binary digits.        *)
(***************************************************************************)
EXTENDS Computor

\* Tenths. 1, 6 and 9 are rounded, and 0.1, 0.6, 0.9 is an equation whose discriminant is
\* zero until it is computed; -2 and 1 are whole and can cancel by addition.
MCCoefficients == {-20, 1, 6, 9, 10}
=============================================================================
