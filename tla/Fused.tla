--------------------------------- MODULE Fused ---------------------------------
(***************************************************************************)
(* fma.c, fms.c, fmma.c and ubf.c: one rounding for x*y + z and for        *)
(* a*b + c*d.                                                              *)
(*                                                                         *)
(* The product is kept exactly.  When its exponent is out of the range it  *)
(* is a UBF, a number whose exponent is an integer of any size; here, a    *)
(* number whose exponent is not in the range.  mpfr_fma first tries, in    *)
(* the largest range, a product that is a usual number.                    *)
(***************************************************************************)
EXTENDS AddSubGeneral, MulDiv

CONSTANTS ExtEmin, ExtEmax  \* MPFR_EMIN_MIN, MPFR_EMAX_MAX

ASSUME ExtendedRangeAssumption ==
  ExtEmin \in Int /\ ExtEmax \in Int /\ ExtEmin <= emin /\ emax <= ExtEmax

\* Between MPFR_SAVE_EXPO_MARK and MPFR_SAVE_EXPO_FREE.
ExtAdd == INSTANCE AddSubGeneral WITH emin <- ExtEmin, emax <- ExtEmax
ExtMul == INSTANCE MulDiv WITH emin <- ExtEmin, emax <- ExtEmax

\* |b*c| on all the bits of prec.
Product(b, c, prec) ==
  LET m == b.mant * c.mant
      bits == b.prec + c.prec
      shift == IF m < 2^(bits - 1) THEN 1 ELSE 0
  IN IF IsSingular(b) \/ IsSingular(c) THEN Zero(ProductSign(b, c), prec)
     ELSE Num(ProductSign(b, c), b.exp + c.exp - shift, ShiftLeft(m, prec - bits + shift), prec)

\* mpfr_ubf_mul_exact
UbfMul(b, c) == Product(b, c, Size(b.prec) + Size(c.prec))

\* A zero among the operands of mpfr_fma.
FmaSingular(p, x, y, z, same, rnd, generic) ==
  LET neg == ProductSign(x, y)
      null == IsSingular(x) \/ IsSingular(y)
  IN CASE null /\ IsSingular(z) ->
            Return(Zero(IF rnd = "RNDD" THEN neg \/ z.neg ELSE neg /\ z.neg, p), 0, {})
       [] null /\ ~ IsSingular(z) -> Set4(z, p, rnd, z.neg, emax)
       [] ~ null -> IF same THEN Sqr(p, x, rnd, generic) ELSE Mul(p, x, y, FALSE, rnd, generic)

\* mpfr_set_1_2 and mpfr_check_range, of what an addition returned.
RoundedAgain(p, u, rnd) ==
  [Set12(u.y, p, rnd, u.inex, emin, emax) EXCEPT !.raised = @ \cup u.raised]
\* When small, u was rounded to twice the bits.
FromTwice(small, p, u, rnd) == IF small THEN RoundedAgain(p, u, rnd) ELSE u
Checked(s, rnd) == [CheckRange(s.y, s.inex, rnd, emin, emax) EXCEPT !.raised = @ \cup s.raised]

\* All of precision p < W: the sum on 2p bits, then mpfr_set_1_2; otherwise the exact product.
FmaInRange(p, x, y, z, small, rnd, generic) ==
  LET q == IF small THEN 2 * p ELSE p
      product == Product(x, y, IF small THEN 2 * p ELSE Size(x.prec) + Size(y.prec))
      term == IF small THEN [z EXCEPT !.mant = @ * 2^p, !.prec = 2 * p] ELSE z
  IN FromTwice(small, p, Add(q, product, term, rnd, generic), rnd)

\* Mutant: a product that underflows is replaced without a look at z.
FmaProductUnchecked(p, x, y, z, u) ==
  IF u.inex # 0 /\ u.y.kind # "inf" THEN SetMin(ProductSign(x, y), ExtEmin, 1)
  ELSE IF u.inex = 0 THEN u.y ELSE UbfMul(x, y)

\* The product u of mpfr_mul in the largest range, when it is not exact: for one that
\* underflows, its sign is enough if it is far below half an ulp of z.
FmaProduct(p, x, y, z, u) ==
  LET tiny == u.y.kind # "inf" /\ z.exp - ExtEmin >= MaxOf(z.prec, p + 1)
  IN CASE u.inex = 0 -> u.y
       [] u.inex # 0 /\ tiny -> SetMin(ProductSign(x, y), ExtEmin, 1)
       [] u.inex # 0 /\ ~ tiny -> UbfMul(x, y)

\* An overflow of u either decides the result or not.
FmaSum(p, x, y, z, u, rnd, generic) ==
  LET neg == ProductSign(x, y)
  IN IF u.y.kind = "inf" /\ (neg = z.neg \/ x.exp + y.exp >= ExtEmax + 3)
     THEN Overflow(p, rnd, neg, emax)
     ELSE Checked(ExtAdd!Add(p, FmaProduct(p, x, y, z, u), z, rnd, generic), rnd)

FmaExtended(p, x, y, z, same, rnd, generic) ==
  FmaSum(p, x, y, z, ExtMul!Mul(x.prec + y.prec, x, y, same, "RNDN", generic), rnd, generic)

\* mpfr_fma; same: x and y are the same variable.
Fma(p, x, y, z, same, rnd, generic) ==
  LET inRange == x.prec = y.prec /\ emin < x.exp + y.exp /\ x.exp + y.exp <= emax
      small == x.prec < W /\ z.prec = x.prec /\ p = x.prec
  IN CASE IsSingular(x) \/ IsSingular(y) \/ IsSingular(z) ->
            FmaSingular(p, x, y, z, same, rnd, generic)
       [] OTHER ->
            IF inRange /\ (small \/ NLimbs(x.prec) <= 4 * MulThreshold)
            THEN FmaInRange(p, x, y, z, small, rnd, generic)
            ELSE FmaExtended(p, x, y, z, same, rnd, generic)

\* mpfr_fmma (sub = FALSE) and mpfr_fmms
Fmma(p, a, b, c, d, sub, rnd, generic) ==
  LET small == (\A x \in {a, b, c, d} : x.prec = p) /\ 2 * NLimbs(p) = NLimbs(2 * p)
      q == IF small THEN 2 * p ELSE p
      ProductOf(x, y) == Product(x, y, IF small THEN 2 * p ELSE Size(x.prec) + Size(y.prec))
  IN FromTwice(small, p, AddSub(q, ProductOf(a, b), ProductOf(c, d), sub, rnd, generic), rnd)
=============================================================================
