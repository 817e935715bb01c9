----------------------------- MODULE RealRounding -----------------------------
(***************************************************************************)
(* What "correctly rounded" means (doc/mpfr.texi, "Rounding" and           *)
(* "Exceptions"), with no trace of how it is computed.  The modules that   *)
(* model the code are compared with it.                                    *)
(*                                                                         *)
(* A positive real is an integer X counted in units so small that whatever *)
(* matters is a whole number of them; signs are kept apart.                *)
(***************************************************************************)
EXTENDS Integers

CONSTANT MaxBits  \* bound: the reals considered, once rounded, are below 2^MaxBits units

ASSUME RealRoundingAssumption == MaxBits \in Nat

BitLength(X) == CHOOSE n \in 0..MaxBits : 2^n > X /\ (n = 0 \/ X >= 2^(n-1))

\* The distance between the p-bit numbers around X.
Ulp(X, p) ==
  LET n == BitLength(X) IN IF n > p THEN 2^(n - p) ELSE 1

\* X to the multiples of u, in direction rnd.
RoundToMultiple(X, u, rnd, neg) ==
  LET lo == X - (X % u)
      hi == lo + u
      away == rnd = "RNDA" \/ rnd = (IF neg THEN "RNDD" ELSE "RNDU")
  IN CASE lo = X -> X
       [] lo # X /\ rnd \in {"RNDN", "RNDNA"} ->
            IF X - lo # hi - X THEN (IF X - lo < hi - X THEN lo ELSE hi)
            ELSE IF rnd = "RNDNA" \/ (lo \div u) % 2 = 1 THEN hi ELSE lo
       [] OTHER -> IF away THEN hi ELSE lo

\* X to p bits, in an unbounded exponent range.
RoundTo(X, p, rnd, neg) == RoundToMultiple(X, Ulp(X, p), rnd, neg)

\* The p-bit numbers that are faithful roundings of X (MPFR_RNDF).
FaithfulTo(X, p) == {RoundTo(X, p, "RNDZ", FALSE), RoundTo(X, p, "RNDA", FALSE)}

SignOf(i) == CASE i < 0 -> -1 [] i = 0 -> 0 [] i > 0 -> 1

\* The ternary value of result Y for X: the sign of Y - X for the signed numbers.
Ternary(Y, X, neg) == IF neg THEN SignOf(X - Y) ELSE SignOf(Y - X)

-----------------------------------------------------------------------------
(* Rounding to p bits and to a range of exponents: "the result obtained    *)
(* after the rounding, assuming an unbounded exponent range, has an        *)
(* exponent smaller [larger] than the minimum [maximum] value of the       *)
(* current exponent range" is an underflow [overflow] (doc/mpfr.texi).     *)
(* The exponent of X is its length in bits, emin and emax are counted so.  *)

Infinity == 2^MaxBits

TowardZero(rnd, neg) == rnd = "RNDZ" \/ rnd = (IF neg THEN "RNDU" ELSE "RNDD")

Overflows(X, p, rnd, neg, emax) == BitLength(RoundTo(X, p, rnd, neg)) > emax

CorrectValue(X, p, rnd, neg, emin, emax) ==
  LET Y == RoundTo(X, p, rnd, neg)
      n == BitLength(Y)
  IN CASE n < emin -> RoundToMultiple(X, 2^(emin - 1), rnd, neg)
       [] n > emax -> IF TowardZero(rnd, neg) THEN (2^p - 1) * 2^(emax - p) ELSE Infinity
       [] OTHER -> Y

CorrectFlags(X, p, rnd, neg, emin, emax) ==
  LET n == BitLength(RoundTo(X, p, rnd, neg))
  IN (IF CorrectValue(X, p, rnd, neg, emin, emax) # X THEN {"inexact"} ELSE {})
       \cup (IF n < emin THEN {"underflow"} ELSE {})
       \cup (IF n > emax THEN {"overflow"} ELSE {})
=============================================================================
