----------------------------- MODULE WithRationals -----------------------------
(***************************************************************************)
(* mpfr_mul_q, mpfr_div_q (gmp_op.c) and mpfr_set_q: the rational n/d has  *)
(* no common factor removed, and n and d may have any size.                *)
(***************************************************************************)
EXTENDS WithIntegers

Ext == INSTANCE WithIntegers WITH emin <- ExtEmin, emax <- ExtEmax

\* The exponent of what a division returned, when it was of the significand of x.
Scaled(s, e) == [s EXCEPT !.y.exp = @ + e]

\* MPFR_SAVE_EXPO_FREE, and mpfr_check_range: what the largest range raised is dropped.
InRange(s, rnd) == CheckRange(s.y, s.inex, rnd, emin, emax)

\* x * n / d, where the product x * n is exact or too large.
DividedBy(p, product, x, n, d, rnd) ==
  LET exact == product.inex = 0
      q == Ext!DivZ(p, IF exact THEN product.y
                       ELSE Ext!MulZ(product.y.prec, [x EXCEPT !.exp = 0], n, "RNDN").y, d, rnd)
  IN InRange(Scaled(q, IF exact THEN 0 ELSE x.exp), rnd)
\* mpfr_muldiv_z, for n, d and x # 0.
MulDivZ(p, x, n, d, rnd) ==
  DividedBy(p, Ext!MulZ(x.prec + NumBits(AbsOf(n)), x, n, "RNDN"), x, n, d, rnd)

\* n = 0.
MulDivZero(p, x, d) == Return(Zero(x.neg # (d < 0), p), 0, {})

MulQ(p, x, n, d, rnd) == IF n = 0 THEN MulDivZero(p, x, d) ELSE MulDivZ(p, x, n, d, rnd)
DivQ(p, x, n, d, rnd) == MulQ(p, x, d, n, rnd)

\* set_z: the significand of z, of the smallest precision once its null limbs are removed.
SignificandOf(z) ==
  LET bits == NumBits(AbsOf(z))
      zeros == CHOOSE k \in 0 .. bits : AbsOf(z) % 2^(k * W) = 0 /\ AbsOf(z) % 2^((k + 1) * W) # 0
  IN Num(z < 0, 0, AbsOf(z) \div 2^(zeros * W), bits - zeros * W)

\* mpfr_set_q, for n and d whose sizes do not leave the largest range: q is the quotient
\* of the significands.
SetQuotient(p, q, shift, rnd) == InRange([ExtMul!Mul2si(p, q.y, shift, rnd) EXCEPT !.inex = q.inex], rnd)
SetQ(p, n, d, rnd) ==
  IF n = 0 THEN Return(Zero(FALSE, p), 0, {})
  ELSE SetQuotient(p, ExtMul!Div(p, SignificandOf(n), SignificandOf(d), rnd, FALSE),
                   NumBits(AbsOf(n)) - NumBits(AbsOf(d)), rnd)
=============================================================================
