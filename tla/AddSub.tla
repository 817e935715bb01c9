-------------------------------- MODULE AddSub --------------------------------
(***************************************************************************)
(* Addition and subtraction of magnitudes when the three numbers have the  *)
(* same precision: add1sp.c and sub1sp.c.                                  *)
(***************************************************************************)
EXTENDS Limbs

\* The first limb of C lost by a shift of d >= 1 bits, as the code computes it: only the
\* bits of the limb that is cut, the limbs below being or'ed into its last bit.
LostLimb(C, d) ==
  LET q == d \div W
      r == d % W
  IN IF r = 0 THEN Sticky(Limb(C, q - 1), C % 2^((q - 1) * W) # 0)
     ELSE Sticky(((Limb(C, q) % 2^r) * 2^(W - r)), C % 2^(q * W) # 0)

-----------------------------------------------------------------------------
(* add1sp.c *)

\* mpfr_add1sp1, mpfr_add1sp2, mpfr_add1sp3: n limbs, the last of which has sh
\* bits that are not part of the significand.
AddMasked(n, b, c, rnd, neg) ==
  LET p == b.prec
      x == Larger(b, c)
      B == Mant(x)
      C == Mant(Smaller(b, c))
      d == x.exp - Smaller(b, c).exp
      sh == n * W - p
      far == d >= n * W
      sum == B + IF far THEN 0 ELSE C \div 2^d
      carry == sum \div 2^(n * W)
      a == sum \div 2^carry
      rb == Bit(a, sh - 1) = 1
      sb == \/ far
            \/ d > 0 /\ LostLimb(C, d) # 0
            \/ d > 0 /\ sum % 2^carry # 0
            \/ a % 2^(sh - 1) # 0
  IN RoundUnder(p, a \div 2^sh, x.exp + carry, ~ far /\ rb, sb, rnd, neg)

\* mpfr_add1sp1n, mpfr_add1sp2n: all the bits of the n limbs.
AddFull(n, b, c, rnd, neg) ==
  LET p == b.prec
      x == Larger(b, c)
      B == Mant(x)
      C == Mant(Smaller(b, c))
      d == x.exp - Smaller(b, c).exp
      sum == B + C \div 2^d
      low == IF d = 0 THEN 0 ELSE LostLimb(C, d)
      isPow2 == C = 2^(p - 1)
  IN CASE d >= n * W ->
            RoundUnder(p, B, x.exp, d = n * W, d # n * W \/ ~ isPow2, rnd, neg)
       [] d < n * W /\ sum >= 2^(n * W) ->
            RoundUnder(p, sum \div 2, x.exp + 1, sum % 2 = 1, low # 0, rnd, neg)
       [] OTHER ->
            RoundUnder(p, sum, x.exp, low >= HighBit, low % HighBit # 0, rnd, neg)

Add1sp1(b, c, rnd, neg) == AddMasked(1, b, c, rnd, neg)
Add1sp1n(b, c, rnd, neg) == AddFull(1, b, c, rnd, neg)
Add1sp2(b, c, rnd, neg) == AddMasked(2, b, c, rnd, neg)
Add1sp2n(b, c, rnd, neg) == AddFull(2, b, c, rnd, neg)
Add1sp3(b, c, rnd, neg) == AddMasked(3, b, c, rnd, neg)

\* The labels set_exponent and add_one_ulp of mpfr_add1sp; inexact is away from zero.
SetExponent(p, m, e, inexact, rnd, neg) ==
  IF e > emax THEN Overflow(p, rnd, neg, emax)
  ELSE Return(Num(neg, e, m, p), Signed(neg, inexact), {})

AddOneUlpSp(p, m, e, rnd, neg) ==
  IF m + 1 = 2^p THEN SetExponent(p, 2^(p-1), e + 1, 1, rnd, neg)
                 ELSE SetExponent(p, m + 1, e, 1, rnd, neg)

\* mpfr_add1sp, d >= p: c is below the last bit of b.
AddFar(b, c, d, rnd, neg) ==
  LET p == b.prec
      m == b.mant
  IN IF \/ rnd = "RNDF"
        \/ d > p /\ (rnd = "RNDN" \/ IsLikeRNDZ(rnd, neg))
        \/ d = p /\ rnd = "RNDN" /\ IsPowerof2Raw(c) /\ m % 2 = 0
        \/ d = p /\ rnd # "RNDN" /\ IsLikeRNDZ(rnd, neg)
     THEN SetExponent(p, m, b.exp, -1, rnd, neg)
     ELSE AddOneUlpSp(p, m, b.exp, rnd, neg)

\* mpfr_add1sp, d < p, with mpfr_addrsh.
AddNear(b, c, d, rnd, neg) ==
  LET p == b.prec
      n == NLimbs(p)
      sh == MinusModulo(p)
      sum == Mant(b) + Mant(c) \div 2^d
      a == sum % 2^(n * W)
      low == LostLimb(Mant(c), d)
      rb0 == IF sh > 0 THEN Bit(a, sh - 1) = 1 ELSE low >= HighBit
      sb0 == IF sh > 0 THEN low # 0 \/ a % 2^(sh - 1) # 0 ELSE low % HighBit # 0
      carry == sum >= 2^(n * W)
      q == sum \div 2^sh
      m == IF carry THEN q \div 2 ELSE q
      e == IF carry THEN b.exp + 1 ELSE b.exp
      rb == IF carry THEN q % 2 = 1 ELSE rb0
      sb == sb0 \/ (carry /\ rb0)
      any == IF rb \/ sb THEN -1 ELSE 0
  IN CASE rnd = "RNDF" -> SetExponent(p, m, e, 0, rnd, neg)
       [] rnd = "RNDN" ->
            IF rb /\ (sb \/ m % 2 = 1) THEN AddOneUlpSp(p, m, e, rnd, neg)
            ELSE SetExponent(p, m, e, any, rnd, neg)
       [] OTHER ->
            IF any = 0 \/ IsLikeRNDZ(rnd, neg) THEN SetExponent(p, m, e, any, rnd, neg)
            ELSE AddOneUlpSp(p, m, e, rnd, neg)

\* mpfr_add1sp, d = 0: one bit is lost.
AddAligned(b, c, rnd, neg) ==
  LET p == b.prec
      sum == b.mant + c.mant
      m == sum \div 2
      e == b.exp + 1
  IN CASE sum % 2 = 0 \/ rnd = "RNDF" -> SetExponent(p, m, e, 0, rnd, neg)
       [] sum % 2 = 1 /\ rnd = "RNDN" ->
            IF m % 2 = 0 THEN SetExponent(p, m, e, -1, rnd, neg)
                         ELSE AddOneUlpSp(p, m, e, rnd, neg)
       [] sum % 2 = 1 /\ rnd \notin {"RNDN", "RNDF"} ->
            IF IsLikeRNDZ(rnd, neg) THEN SetExponent(p, m, e, -1, rnd, neg)
                                    ELSE AddOneUlpSp(p, m, e, rnd, neg)

Add1spAny(b, c, rnd, neg) ==
  LET x == Larger(b, c)
      y == Smaller(b, c)
      d == x.exp - y.exp
  IN CASE d = 0 -> AddAligned(x, y, rnd, neg)
       [] d >= b.prec -> AddFar(x, y, d, rnd, neg)
       [] OTHER -> AddNear(x, y, d, rnd, neg)

\* mpfr_add1sp. generic is MPFR_GENERIC_ABI: no special code for a few limbs.
Add1sp(b, c, rnd, generic) ==
  LET p == b.prec
  IN CASE generic \/ p >= 3 * W -> Add1spAny(b, c, rnd, b.neg)
       [] ~ generic /\ p < W -> Add1sp1(b, c, rnd, b.neg)
       [] ~ generic /\ p = W -> Add1sp1n(b, c, rnd, b.neg)
       [] ~ generic /\ W < p /\ p < 2 * W -> Add1sp2(b, c, rnd, b.neg)
       [] ~ generic /\ p = 2 * W -> Add1sp2n(b, c, rnd, b.neg)
       [] ~ generic /\ 2 * W < p /\ p < 3 * W -> Add1sp3(b, c, rnd, b.neg)

-----------------------------------------------------------------------------
(* sub1sp.c *)

\* b = c in magnitude.
ZeroDifference(p, rnd) == Return(Zero(rnd = "RNDD", p), 0, {})

\* The tests of underflow of sub1sp.c: a result below the range is exact.
SubUnderflow(p, m, e, rnd, neg) ==
  LET r == IF rnd = "RNDN" /\ (e < emin - 1 \/ m = 2^(p - 1)) THEN "RNDZ" ELSE rnd
  IN Underflow(p, r, neg, emin)

RoundOver(p, m, e, rb, sb, rnd, neg) ==
  IF e < emin THEN SubUnderflow(p, m, e, rnd, neg)
  ELSE RoundBits(p, m, e, rb, sb, rnd, neg, OneUlpAdded(p, m, e, neg))

\* x - y of the same exponent e: exact, of any sign.
SubAligned(p, size, x, y, e, rnd, neg) ==
  LET diff == IF x > y THEN x - y ELSE y - x
      z == LeadingZeros(diff, size)
  IN IF x = y THEN ZeroDifference(p, rnd)
     ELSE RoundOver(p, (diff * 2^z) \div 2^(size - p), e - z, FALSE, FALSE, rnd,
                    IF x > y THEN neg ELSE ~ neg)

\* mpfr_sub1sp1, mpfr_sub1sp2, mpfr_sub1sp3: the difference is computed with one
\* more limb, the opposite of the one that c loses.
SubMasked(n, b, c, rnd) ==
  LET p == b.prec
      x == Larger(b, c)
      y == Smaller(b, c)
      d == x.exp - y.exp
      neg == IF b.exp < c.exp THEN ~ b.neg ELSE b.neg
      sh == n * W - p
      size == n * W
      diff == (Mant(x) - Mant(y) \div 2^d) * 2^W - LostLimb(Mant(y), d)
      z == LeadingZeros(diff, size + W)
      a == (diff * 2^z) \div 2^W
  IN CASE d = 0 -> SubAligned(p, size, Mant(b), Mant(c), b.exp, rnd, b.neg)
       [] 0 < d /\ d < size ->
            RoundOver(p, a \div 2^sh, x.exp - z, Bit(a, sh - 1) = 1,
                      (diff * 2^z) % 2^W # 0 \/ a % 2^(sh - 1) # 0, rnd, neg)
       [] d >= size /\ ~ IsPowerof2Raw(x) ->
            RoundOver(p, x.mant - 1, x.exp, TRUE, TRUE, rnd, neg)
       [] d >= size /\ IsPowerof2Raw(x) ->
            RoundOver(p, 2^p - 1, x.exp - 1, sh > 1 \/ d > size \/ IsPowerof2Raw(y), TRUE,
                      rnd, neg)

\* mpfr_sub1sp1n, mpfr_sub1sp2n. Below size, the limb after the result holds its
\* round bit, all of it but its last bit being exact.
SubFull(n, b, c, rnd) ==
  LET p == b.prec
      x == Larger(b, c)
      y == Smaller(b, c)
      d == x.exp - y.exp
      neg == IF b.exp < c.exp THEN ~ b.neg ELSE b.neg
      size == n * W
      low == Sticky(((y.mant * 2^W) \div 2^d) % 2^W, (y.mant * 2^W) % 2^d # 0)
      diff == (x.mant - y.mant \div 2^d) * 2^W - low
      z == LeadingZeros(diff, size + W)
      a == diff * 2^z
      opposite == 2^size - y.mant
  IN CASE d = 0 -> SubAligned(p, size, b.mant, c.mant, b.exp, rnd, b.neg)
       [] 0 < d /\ d < size ->
            RoundOver(p, a \div 2^W, x.exp - z, a % 2^W >= HighBit, a % HighBit # 0, rnd, neg)
       [] d >= size /\ ~ IsPowerof2Raw(x) ->
            RoundOver(p, x.mant - 1, x.exp, d > size \/ IsPowerof2Raw(y),
                      d > size \/ ~ IsPowerof2Raw(y), rnd, neg)
       [] d = size /\ IsPowerof2Raw(x) /\ ~ IsPowerof2Raw(y) ->
            RoundOver(p, 2^p - 2, x.exp - 1, opposite >= 2^(size - 2),
                      (opposite * 4) % 2^size # 0, rnd, neg)
       [] OTHER ->
            RoundOver(p, 2^p - 1, x.exp - 1,
                      d > size + 1 \/ (d = size + 1 /\ IsPowerof2Raw(y)),
                      d > size + 1 \/ (d = size + 1 /\ ~ IsPowerof2Raw(y)), rnd, neg)

Sub1sp1(b, c, rnd) == SubMasked(1, b, c, rnd)
Sub1sp1n(b, c, rnd) == SubFull(1, b, c, rnd)
Sub1sp2(b, c, rnd) == SubMasked(2, b, c, rnd)
Sub1sp2n(b, c, rnd) == SubFull(2, b, c, rnd)
Sub1sp3(b, c, rnd) == SubMasked(3, b, c, rnd)

\* The label ExactNormalize of mpfr_sub1sp.
ExactNormalize(p, m, e, rnd, neg) ==
  LET z == LeadingZeros(m, p)
  IN IF e - z < emin THEN SubUnderflow(p, m * 2^z, e - z, rnd, neg)
     ELSE Return(Num(neg, e - z, m * 2^z, p), 0, {})

\* The label rounding: the exact result is below m, by the bits rb, rbb and sbb.
\* Below a power of two the ulp is halved and the bits move up.
SubStep(p, s) ==
  IF s.rb /\ s.m = 2^(p - 1)
  THEN [m |-> 2^p - 1, e |-> s.e - 1, rb |-> s.rbb, rbb |-> s.sbb, sbb |-> FALSE]
  ELSE s

SubRounded(p, s, rnd, neg) ==
  LET pow2 == s.m = 2^(p - 1)
      r == IF pow2 THEN s.rbb ELSE s.rb
      t == IF pow2 THEN s.sbb ELSE s.rbb \/ s.sbb
      exact == ~ s.rb /\ ~ s.rbb /\ ~ s.sbb
      Above(inexact) == Return(Num(neg, s.e, s.m, p), Signed(neg, inexact), {})
      below == IF pow2 THEN Return(Num(neg, s.e - 1, 2^p - 1, p), Signed(neg, -1), {})
               ELSE Return(Num(neg, s.e, s.m - 1, p), Signed(neg, -1), {})
  IN CASE exact \/ rnd = "RNDF" -> Above(0)
       [] ~ exact /\ rnd = "RNDN" ->
            IF ~ r \/ (~ t /\ (s.m % 2 = 0 \/ p = 1)) THEN Above(1) ELSE below
       [] ~ exact /\ rnd \notin {"RNDN", "RNDF"} ->
            IF IsLikeRNDZ(rnd, neg) THEN below ELSE Above(1)

SubRounding(p, m, e, rb, rbb, sbb, rnd, neg) ==
  SubRounded(p, SubStep(p, SubStep(p, SubStep(p,
                  [m |-> m, e |-> e, rb |-> rb, rbb |-> rbb, sbb |-> sbb]))), rnd, neg)

\* d = 1: at most one bit is lost, none when the result has a smaller exponent,
\* which the first limb tells unless it is exactly HighBit.
SubD1(x, y, rnd, neg) ==
  LET p == x.prec
      n == NLimbs(p)
      half == Mant(y) \div 2
      limb == Limb(Mant(x), n - 1) - Limb(Mant(y), n - 1) \div 2
      lower == 2^((n - 1) * W)
      xl == Mant(x) % lower
      yl == half % lower
  IN CASE limb < HighBit \/ (limb = HighBit /\ xl < yl) ->
            ExactNormalize(p, 2 * x.mant - y.mant, x.exp - 1, rnd, neg)
       [] limb > HighBit \/ (limb = HighBit /\ xl > yl) ->
            IF y.mant % 2 = 0 THEN Return(Num(neg, x.exp, x.mant - y.mant \div 2, p), 0, {})
            ELSE SubRounding(p, x.mant - y.mant \div 2, x.exp, TRUE, FALSE, FALSE, rnd, neg)
       [] limb = HighBit /\ xl = yl ->
            IF Mant(y) % 2 = 1 THEN Return(Num(neg, x.exp - 1, 2^p - 1, p), 0, {})
                               ELSE Return(Num(neg, x.exp, 2^(p - 1), p), 0, {})

\* d >= p: y is below the last bit of x.
SubFar(x, y, d, rnd, neg) ==
  LET p == x.prec
  IN SubRounding(p, x.mant, x.exp, d = p,
       IF d = p THEN p > 1 /\ Bit(y.mant, p - 2) = 1 ELSE d = p + 1,
       CASE d = p -> y.mant % 2^(IF p > 1 THEN p - 2 ELSE 0) # 0
         [] d = p + 1 -> y.mant % 2^(p - 1) # 0
         [] d > p + 1 -> TRUE,
       rnd, neg)

\* 2 <= d < p
SubNear(x, y, d, rnd, neg) ==
  LET p == x.prec
      m == x.mant - y.mant \div 2^d
      rb == Bit(y.mant, d - 1) = 1
      rbb == Bit(y.mant, d - 2) = 1
      sbb == y.mant % 2^(d - 2) # 0
  IN IF m >= 2^(p - 1) THEN SubRounding(p, m, x.exp, rb, rbb, sbb, rnd, neg)
     ELSE SubRounding(p, 2 * m - (IF rb THEN 1 ELSE 0), x.exp - 1, rbb, sbb, sbb, rnd, neg)

Sub1spAny(b, c, rnd) ==
  LET bGreater == b.exp > c.exp \/ (b.exp = c.exp /\ b.mant > c.mant)
      x == IF bGreater THEN b ELSE c
      y == IF bGreater THEN c ELSE b
      neg == IF bGreater THEN b.neg ELSE ~ b.neg
      d == x.exp - y.exp
  IN CASE d = 0 /\ x.mant = y.mant -> ZeroDifference(b.prec, rnd)
       [] d = 0 /\ x.mant # y.mant -> ExactNormalize(b.prec, x.mant - y.mant, x.exp, rnd, neg)
       [] d = 1 -> SubD1(x, y, rnd, neg)
       [] d > 1 /\ d >= b.prec -> SubFar(x, y, d, rnd, neg)
       [] d > 1 /\ d < b.prec -> SubNear(x, y, d, rnd, neg)

Sub1sp(b, c, rnd, generic) ==
  LET p == b.prec
  IN CASE generic \/ p >= 3 * W -> Sub1spAny(b, c, rnd)
       [] ~ generic /\ p < W -> Sub1sp1(b, c, rnd)
       [] ~ generic /\ p = W -> Sub1sp1n(b, c, rnd)
       [] ~ generic /\ W < p /\ p < 2 * W -> Sub1sp2(b, c, rnd)
       [] ~ generic /\ p = 2 * W -> Sub1sp2n(b, c, rnd)
       [] ~ generic /\ 2 * W < p /\ p < 3 * W -> Sub1sp3(b, c, rnd)
=============================================================================
