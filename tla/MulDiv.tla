-------------------------------- MODULE MulDiv --------------------------------
(***************************************************************************)
(* Multiplication, square and division: mul.c, sqr.c, mulders.c, div.c.    *)
(* generic is MPFR_GENERIC_ABI: no special code for a few limbs.           *)
(***************************************************************************)
EXTENDS Limbs

CONSTANTS
  MulThreshold,  \* MPFR_MUL_THRESHOLD and MPFR_SQR_THRESHOLD: limbs
  DivThreshold,  \* MPFR_DIV_THRESHOLD: limbs
  MulhighK       \* mulhigh_ktab and sqrhigh_ktab: 0 for the schoolbook short product

ASSUME ThresholdAssumption ==
  MulThreshold \in Nat \ {0} /\ DivThreshold \in Nat \ {0, 1} /\ MulhighK \in Nat

ProductSign(b, c) == b.neg # c.neg

CeilLog2(n) == CHOOSE k \in 0 .. 30 : 2^k >= n /\ (k = 0 \/ 2^(k - 1) < n)

-----------------------------------------------------------------------------
(* The ends of mul.c and sqr.c *)

\* Below the range, a number that rounds to 2^(emin-1) does not underflow.
ProductEnd(p, m, e, rb, sb, rnd, neg) ==
  LET roundsUp == /\ e = emin - 1 /\ m = 2^p - 1
                  /\ \/ rnd = "RNDN" /\ rb
                     \/ IsLikeRNDA(rnd, neg) /\ (rb \/ sb)
      r == IF rnd = "RNDN" /\ (e < emin - 1 \/ (m = 2^(p-1) /\ ~ rb /\ ~ sb))
           THEN "RNDZ" ELSE rnd
  IN IF e < emin /\ ~ roundsUp THEN Underflow(p, r, neg, emin)
     ELSE RoundUnder(p, m, e, rb, sb, rnd, neg)

\* b * c of the same precision p, from all its partial products.
ExactProduct(b, c, rnd, neg) ==
  LET p == b.prec
      m == b.mant * c.mant
      shift == IF m < 2^(2 * p - 1) THEN 1 ELSE 0
      a == m * 2^shift
  IN ProductEnd(p, a \div 2^p, b.exp + c.exp - shift, Bit(a, p - 1) = 1, a % 2^(p - 1) # 0,
                rnd, neg)

\* Mutant: what the lowest partial products could carry is not looked at.
KnownAlways(err, high, sh) == sh > 2 /\ ((high % 2^W) + err) % 2^(sh - 2) > 0

\* mpfr_mul_2, mpfr_mul_3, mpfr_sqr_2, mpfr_sqr_3: are the high limbs of a product without
\* its lowest partial products enough? err is 2 for 2 limbs, 4 for 3.
Known(err, high, sh) == sh > 2 /\ ((high % 2^W) + err) % 2^(sh - 2) > err

ShortProduct(n, err, short, b, c, rnd, neg) ==
  LET p == b.prec
      sh == n * W - p
      shift == IF short < 2^(n * W - 1) THEN 1 ELSE 0
      a == short * 2^shift
  IN IF Known(err, short, sh)
     THEN ProductEnd(p, a \div 2^sh, b.exp + c.exp - shift, Bit(a, sh - 1) = 1, TRUE, rnd, neg)
     ELSE ExactProduct(b, c, rnd, neg)

-----------------------------------------------------------------------------
(* mul.c *)

\* The high limb of a product of limbs.
High(i, j) == (i * j) \div 2^W

Mul1(b, c, rnd) == ExactProduct(b, c, rnd, ProductSign(b, c))
Mul1n(b, c, rnd) == ExactProduct(b, c, rnd, ProductSign(b, c))

Mul2(b, c, rnd) ==
  LET B(i) == Limb(Mant(b), i)
      C(i) == Limb(Mant(c), i)
  IN ShortProduct(2, 2, B(1) * C(1) + High(B(1), C(0)) + High(B(0), C(1)), b, c, rnd,
                  ProductSign(b, c))

Mul3(b, c, rnd) ==
  LET B(i) == Limb(Mant(b), i)
      C(i) == Limb(Mant(c), i)
  IN ShortProduct(3, 4,
       B(2) * C(2) * 2^W + B(2) * C(1) + B(1) * C(2)
         + High(B(2), C(0)) + High(B(1), C(1)) + High(B(0), C(2)),
       b, c, rnd, ProductSign(b, c))

-----------------------------------------------------------------------------
(* mulders.c: short products, of which the limbs n-1 .. 2n-1 are returned. *)

\* mpfr_mulhigh_n_basecase
MulhighBasecase(n, U, V) ==
  LET sum[i \in 0 .. n] ==
        IF i = 0 THEN 0 ELSE sum[i - 1] + (U \div 2^((n - i) * W)) * Limb(V, i - 1)
  IN sum[n]

\* mpfr_mulhigh_n: the k high limbs exactly, then twice the others.
Mulhigh(n, U, V) ==
  LET k == MulhighK
      l == n - k
  IN IF k = 0 \/ n <= k \/ 2 * l > n THEN MulhighBasecase(n, U, V)
     ELSE ShiftLeft((U \div 2^(l * W)) * (V \div 2^(l * W)), (2 * l - n + 1) * W)
            + MulhighBasecase(l, U \div 2^(k * W), V % 2^(l * W))
            + MulhighBasecase(l, U % 2^(l * W), V \div 2^(k * W))

\* mpfr_sqrhigh_n: one of the two rectangles, doubled.
Sqrhigh(n, U) ==
  LET k == MulhighK
      l == n - k
      high == U \div 2^(l * W)
  IN IF k = 0 \/ n <= k \/ 2 * l > n THEN MulhighBasecase(n, U, U)
     ELSE ShiftLeft(high * high, (2 * l - n + 1) * W)
            + 2 * MulhighBasecase(l, U % 2^(l * W), U \div 2^(k * W))

-----------------------------------------------------------------------------
(* mpfr_mul, general case *)

MulhighError(n) == n * W - CeilLog2(n + 2)

\* The end of mpfr_mul: r is the rounded significand, of exponent e before the rounding;
\* toZero tells that the exact product is at most 2^(emin-2).
MulEnd(p, r, e, toZero, rnd, neg) ==
  CASE e + r.carry > emax -> Overflow(p, rnd, neg, emax)
    [] e + r.carry < emin ->
         Underflow(p, IF rnd = "RNDN" /\ toZero THEN "RNDZ" ELSE rnd, neg, emin)
    [] OTHER -> Return(Num(neg, e + r.carry, r.mant, p), Signed(neg, r.dir), {})

MulToZero(b, c, b1) ==
  b.exp + c.exp + b1 < emin \/ (IsPowerof2Raw(b) /\ IsPowerof2Raw(c))

\* The label full_multiply.
FullMultiply(p, b, c, rnd) ==
  LET sp == b.prec + c.prec
      m == b.mant * c.mant
      b1 == m \div 2^(sp - 1)
  IN MulEnd(p, RndRaw(m * 2^(1 - b1), sp, p, rnd, ProductSign(b, c)), b.exp + c.exp + b1 - 1,
            MulToZero(b, c, b1), rnd, ProductSign(b, c))

\* mpfr_mulhigh_n on n limbs, when mpfr_round_p accepts its result.
MulAccepted(p, n, b, c, high, rnd, neg) ==
  LET size == (n + 1) * W
      b1 == high \div 2^(size - 1)
      m == high * 2^(1 - b1)
  IN IF RoundP(m, n + 1, MulhighError(n) + b1 - 1, IF rnd = "RNDN" THEN p + 1 ELSE p)
     THEN MulEnd(p, RndRaw(m, size, p, rnd, neg), b.exp + c.exp + b1 - 1,
                 MulToZero(b, c, b1), rnd, neg)
     ELSE FullMultiply(p, b, c, rnd)
MulHigh(p, n, b, c, same, rnd) ==
  LET U == ShiftLeft(Mant(b), (n - NLimbs(b.prec)) * W)
      V == ShiftLeft(Mant(c), (n - NLimbs(c.prec)) * W)
  IN MulAccepted(p, n, b, c, IF same THEN Sqrhigh(n, U) ELSE Mulhigh(n, U, V),
                 IF rnd = "RNDF" THEN "RNDZ" ELSE rnd, ProductSign(b, c))

\* Two null low limbs, and b without its null low limbs.
TwoZeroLimbs(b) == Mant(b) % 2^(2 * W) = 0
Stripped(b) ==
  LET zeros == CHOOSE z \in 0 .. NLimbs(b.prec) - 1 :
                 Mant(b) % 2^(z * W) = 0 /\ Limb(Mant(b), z) # 0
  IN Num(b.neg, b.exp, Mant(b) \div 2^(zeros * W), W * (NLimbs(b.prec) - zeros))

\* mpfr_mul from the choice of the algorithm; same is b == c.
MulGeneral(p, b0, c0, same, rnd) ==
  LET swap == NLimbs(b0.prec) < NLimbs(c0.prec)
      b == IF swap THEN c0 ELSE b0
      c == IF swap THEN b0 ELSE c0
      bn == NLimbs(b.prec)
      cn == NLimbs(c.prec)
      n == IF NLimbs(p) + 1 < cn THEN NLimbs(p) + 1 ELSE cn
      tooShort == p > MulhighError(n) - 5
      useless == p > MulhighError(n) - 5 + W \/ bn <= MulThreshold + 1
  IN IF bn <= 2 \/ cn <= MulThreshold \/ (tooShort /\ useless)
     THEN FullMultiply(p, b, c, rnd)
     ELSE MulHigh(p, IF tooShort THEN n + 1 ELSE n, b, c, same, rnd)

\* mpfr_mul, of numbers that are not singular.
MulOnce(p, b, c, same, rnd, generic) ==
  LET special == ~ generic /\ p = b.prec /\ p = c.prec
  IN CASE special /\ p < W -> Mul1(b, c, rnd)
       [] special /\ p = W -> Mul1n(b, c, rnd)
       [] special /\ W < p /\ p < 2 * W -> Mul2(b, c, rnd)
       [] special /\ 2 * W < p /\ p < 3 * W -> Mul3(b, c, rnd)
       [] OTHER -> MulGeneral(p, b, c, same, rnd)

\* Null low limbs are removed and mpfr_mul starts again, before a short product.
Mul(p, b, c, same, rnd, generic) ==
  LET bn == NLimbs(b.prec)
      cn == NLimbs(c.prec)
      again == /\ bn > 2 \/ cn > 2
               /\ bn > MulThreshold /\ cn > MulThreshold
               /\ TwoZeroLimbs(b) \/ TwoZeroLimbs(c)
               /\ generic \/ b.prec # p \/ c.prec # p \/ p >= 3 * W
      Start(x) == IF again THEN Stripped(x) ELSE x
  IN MulOnce(p, Start(b), Start(c), same, rnd, generic)

-----------------------------------------------------------------------------
(* sqr.c *)

Sqr1(b, rnd) == ExactProduct(b, b, rnd, FALSE)
Sqr1n(b, rnd) == ExactProduct(b, b, rnd, FALSE)

Sqr2(b, rnd) ==
  LET B(i) == Limb(Mant(b), i)
  IN ShortProduct(2, 2, B(1) * B(1) + 2 * High(B(1), B(0)), b, b, rnd, FALSE)

Sqr3(b, rnd) ==
  LET B(i) == Limb(Mant(b), i)
  IN ShortProduct(3, 4,
       B(2) * B(2) * 2^W + 2 * (B(2) * B(1) + High(B(2), B(0))) + High(B(1), B(1)),
       b, b, rnd, FALSE)

\* mpfr_sqr, of a number that is not singular.
Sqr(p, b, rnd, generic) ==
  LET special == ~ generic /\ p = b.prec
      m == b.mant * b.mant
      b1 == m \div 2^(2 * b.prec - 1)
  IN CASE special /\ p < W -> Sqr1(b, rnd)
       [] special /\ p = W -> Sqr1n(b, rnd)
       [] special /\ W < p /\ p < 2 * W -> Sqr2(b, rnd)
       [] special /\ 2 * W < p /\ p < 3 * W -> Sqr3(b, rnd)
       [] ~ (special /\ p < 3 * W /\ p # 2 * W) /\ NLimbs(b.prec) > MulThreshold ->
            Mul(p, b, b, TRUE, rnd, generic)
       [] ~ (special /\ p < 3 * W /\ p # 2 * W) /\ NLimbs(b.prec) <= MulThreshold ->
            MulEnd(p, RoundRaw(m * 2^(1 - b1), 2 * b.prec, FALSE, p, rnd), 2 * b.exp + b1 - 1,
                   MulToZero(b, b, b1), rnd, FALSE)

-----------------------------------------------------------------------------
(* div.c: one or two limbs *)

\* The end of mpfr_div_1 and mpfr_div_2: an inexact quotient is never a tie, and
\* never rounds to a power of two.
QuotientEnd(p, m, e, rb, sb, rnd, neg) ==
  LET r == IF rnd = "RNDN" /\ (e < emin - 1 \/ (m = 2^(p-1) /\ ~ sb)) THEN "RNDZ" ELSE rnd
      exact == ~ rb /\ ~ sb
      up == Return(Num(neg, e, m + 1, p), Signed(neg, 1), {})
  IN CASE e > emax -> Overflow(p, rnd, neg, emax)
       [] e < emin -> Underflow(p, r, neg, emin)
       [] e \in emin .. emax /\ (exact \/ rnd = "RNDF") -> Return(Num(neg, e, m, p), 0, {})
       [] e \in emin .. emax /\ ~ exact /\ rnd = "RNDN" -> IF rb THEN up ELSE Truncated(p, m, e, neg)
       [] e \in emin .. emax /\ ~ exact /\ rnd \notin {"RNDN", "RNDF"} ->
            IF IsLikeRNDZ(rnd, neg) THEN Truncated(p, m, e, neg) ELSE up

\* A limb of quotient, and one bit more when u >= v: sh bits are left for the rounding.
Div1(u, v, rnd) ==
  LET p == u.prec
      sh == W - p
      extra == IF u.mant >= v.mant THEN 1 ELSE 0
      num == u.mant * 2^W
      q == num \div v.mant
      a == q \div 2^extra
      sb == num % v.mant # 0 \/ q % 2^extra # 0 \/ a % 2^(sh - 1) # 0
  IN QuotientEnd(p, a \div 2^sh, u.exp - v.exp + extra, Bit(a, sh - 1) = 1, sb, rnd,
                 ProductSign(u, v))

\* The whole limb is the quotient: the remainder gives the round bit.
Div1n(u, v, rnd) ==
  LET p == u.prec
      extra == u.mant >= v.mant
      num == (IF extra THEN u.mant - v.mant ELSE u.mant) * 2^W
      q == num \div v.mant
      l == num % v.mant
      rb == 2 * l >= v.mant
  IN IF extra
     THEN QuotientEnd(p, HighBit + q \div 2, u.exp - v.exp + 1, q % 2 = 1, l # 0, rnd,
                      ProductSign(u, v))
     ELSE QuotientEnd(p, q, u.exp - v.exp, rb, IF rb THEN 2 * l # v.mant ELSE l # 0, rnd,
                      ProductSign(u, v))

\* mpfr_div_2: each limb of the quotient is guessed from the first limb of v, then corrected.
QuotientLimb(r, V) ==
  LET v1 == V \div 2^W
      guess == IF r \div 2^W = v1 THEN 2^W - 1 ELSE r \div v1
  IN CHOOSE d \in 0 .. 2^W - 1 :
       /\ d <= guess /\ r * 2^W >= d * V
       /\ d = guess \/ r * 2^W < (d + 1) * V

Div2(u, v, rnd) ==
  LET p == u.prec
      U == Mant(u)
      V == Mant(v)
      sh == 2 * W - p
      extra == IF U >= V THEN 1 ELSE 0
      r == U - extra * V
      q1 == QuotientLimb(r, V)
      r1 == r * 2^W - q1 * V
      q0 == QuotientLimb(r1, V)
      r0 == r1 * 2^W - q0 * V
      q == extra * 2^(2 * W) + q1 * 2^W + q0
      a == q \div 2^extra
  IN QuotientEnd(p, a \div 2^sh, u.exp - v.exp + extra, Bit(a, sh - 1) = 1,
                 r0 # 0 \/ q % 2^extra # 0 \/ a % 2^(sh - 1) # 0, rnd, ProductSign(u, v))

-----------------------------------------------------------------------------
(* mulders.c: mpfr_divhigh_n_basecase. *)

\* The divisor loses its last limb at each step, and the quotient is made of
\* MAXs when the partial remainder is found not to be below it.
DivhighDigit(N, d1, d0) ==
  CASE N.r \div 2^((N.n - 1) * W) >= d1 * 2^W + d0 -> 2^W - 1
    [] N.r \div 2^((N.n - 1) * W) < d1 * 2^W + d0 /\ N.n > 1 ->
         (N.r \div 2^((N.n - 2) * W)) \div (d1 * 2^W + d0)
    [] N.r \div 2^((N.n - 1) * W) < d1 * 2^W + d0 /\ N.n = 1 ->
         IF N.r \div 2^W = d1 THEN 2^W - 1 ELSE N.r \div d1

\* N.r is np[-1..n-1], N.q the quotient so far, N.full is set by the break.
DivhighStep(N, D) ==
  LET d1 == D \div 2^((N.n0 - 1) * W)
      d0 == (D \div 2^((N.n0 - 2) * W)) % 2^W
      dn == D \div 2^((N.n0 - N.n) * W)
      guess == DivhighDigit(N, d1, d0)
      digit == IF N.r < guess * dn THEN guess - 1 ELSE guess
      rest == N.r - digit * dn
  IN CASE N.full -> [N EXCEPT !.q = @ * 2^W + 2^W - 1, !.n = @ - 1]
       [] ~ N.full /\ rest >= 2^(N.n * W) ->
            [N EXCEPT !.full = TRUE, !.q = @ * 2^W + 2^W - 1, !.n = @ - 1]
       [] ~ N.full /\ rest < 2^(N.n * W) ->
            [N EXCEPT !.r = rest, !.q = @ * 2^W + digit, !.n = @ - 1]

\* The quotient of 2n limbs by n limbs, with its high bit: an approximation.
Divhigh(n, N, D) ==
  LET qh == IF N \div 2^(n * W) >= D THEN 1 ELSE 0
      start == [r |-> N \div 2^((n - 1) * W) - qh * D * 2^W, q |-> qh, n |-> n, n0 |-> n,
                full |-> FALSE]
      step[i \in 0 .. n] == IF i = 0 THEN start ELSE DivhighStep(step[i - 1], D)
  IN step[n].q

-----------------------------------------------------------------------------
(* mpfr_div, general case *)

\* The label truncate; inex is away from zero.
DivTruncate(p, m, e, inex, rnd, neg) ==
  LET r == IF rnd = "RNDN" /\ (e < emin - 1 \/ (inex >= 0 /\ m = 2^(p-1))) THEN "RNDZ" ELSE rnd
  IN CASE e > emax -> Overflow(p, rnd, neg, emax)
       [] e < emin -> Underflow(p, r, neg, emin)
       [] OTHER -> Return(Num(neg, e, m, p), Signed(neg, inex), {})

DivAddOneUlp(p, m, e, rnd, neg) ==
  IF m + 1 < 2^p THEN DivTruncate(p, m + 1, e, 1, rnd, neg)
                 ELSE DivTruncate(p, 2^(p-1), e + 1, 1, rnd, neg)

\* sub_one_ulp, sub_two_ulp and truncate_check_qh: m has one bit more when qh is set.
DivTruncateCheckQh(p, m, e, inex, rnd, neg) ==
  IF m >= 2^p THEN DivTruncate(p, 2^(p-1), e + 1, inex, rnd, neg)
              ELSE DivTruncate(p, m, e, inex, rnd, neg)

\* The label case_1.
DivCase1(p, m, e, rb, sb, rnd, neg) ==
  LET exact == ~ rb /\ ~ sb
  IN CASE IsLikeRNDZ(rnd, neg) \/ exact -> DivTruncate(p, m, e, IF exact THEN 0 ELSE -1, rnd, neg)
       [] ~ (IsLikeRNDZ(rnd, neg) \/ exact) /\ rnd = "RNDN"
            /\ (~ rb \/ (~ sb /\ m % 2 = 0)) -> DivTruncate(p, m, e, -1, rnd, neg)
       [] OTHER -> DivAddOneUlp(p, m, e, rnd, neg)

\* The n limbs of a quotient that mpfr_divhigh_n gave, when mpfr_round_p accepts them.
DivAccepted(p, a, n, e, rnd, neg) ==
  LET m == a \div 2^(n * W - p)
      up == IF rnd = "RNDN" THEN Bit(a, n * W - p - 1) = 1 ELSE ~ IsLikeRNDZ(rnd, neg)
  IN [ok |-> RoundP(a, n, n * W - CeilLog2(2 * n + 2), IF rnd = "RNDN" THEN p + 1 ELSE p),
      result |-> IF up THEN DivAddOneUlp(p, m, e, rnd, neg) ELSE DivTruncate(p, m, e, -1, rnd, neg)]
WithoutQh(q, n) == IF q >= 2^(n * W) THEN q \div 2 ELSE q
DivHigh(p, u, v, e, rnd, neg) ==
  LET n == NLimbs(p) + 1
      q == Divhigh(n, ShiftLeft(Mant(u), (2 * n - NLimbs(u.prec)) * W),
                      ShiftLeft(Mant(v), (n - NLimbs(v.prec)) * W))
  IN DivAccepted(p, WithoutQh(q, n), n, e, rnd, neg)

\* Mutant: the quotient by a truncated divisor is taken for the quotient.
DivCorrectNever(p, m, qh, e, rb, s3, over, away, rnd, neg) ==
  DivCase1(p, m, e, rb, s3 # 0, rnd, neg)

\* v has limbs left after the ones that gave q, and q holds 0 or 1 after its round bit:
\* over is q times what is left of v minus the remainder, away that minus v.
DivCorrect(p, m, qh, e, rb, s3, over, away, rnd, neg) ==
  LET sh == MinusModulo(p)
      Less(k, inex) == DivTruncateCheckQh(p, m + qh * 2^p - k, e, inex, rnd, neg)
  IN CASE over <= 0 -> DivCase1(p, m, e, rb, IF over = 0 THEN s3 # 0 ELSE TRUE, rnd, neg)
       [] over > 0 /\ away <= 0 /\ s3 = 1 -> DivCase1(p, m, e, rb, away # 0, rnd, neg)
       [] over > 0 /\ away <= 0 /\ s3 # 1 /\ ~ rb ->
            LET inex == IF away # 0 \/ sh > 0 THEN -1 ELSE 0
            IN IF rnd = "RNDN" \/ (~ IsLikeRNDZ(rnd, neg) /\ inex # 0)
               THEN Less(0, 1) ELSE Less(1, inex)
       [] over > 0 /\ away <= 0 /\ s3 # 1 /\ rb ->
            DivTruncate(p, m, e, IF away < 0 THEN -1 ELSE 0, rnd, neg)
       [] over > 0 /\ away > 0 /\ rnd = "RNDN" ->
            IF sh = 1 THEN IF ~ rb THEN Less(1, -1) ELSE Less(0, 1)
            ELSE Less(0, IF ~ rb THEN 1 ELSE -1)
       [] over > 0 /\ away > 0 /\ IsLikeRNDZ(rnd, neg) -> Less(IF sh > 0 THEN 1 ELSE 2, -1)
       [] over > 0 /\ away > 0 /\ rnd # "RNDN" /\ ~ IsLikeRNDZ(rnd, neg) ->
            Less(IF sh > 0 THEN 0 ELSE 1, 1)

\* The quotient q of the limbs of u and of v that are looked at has remainder r; of u are
\* left l limbs, lowU, and of v k limbs, lowV.
DivFound(p, q, r, qsize, sh2, v, l, lowU, k, lowV, e, rnd, neg) ==
  LET m == (q % 2^(qsize * W)) \div 2^sh2
      rb == rnd = "RNDN" /\ Bit(q, sh2 - 1) = 1
      s3 == q % (IF rnd = "RNDN" THEN 2^(sh2 - 1) ELSE 2^sh2)
      inexact == lowU # 0 \/ r # 0 \/ lowV # 0 \/ q % 2^sh2 # 0
      \* what is below the limbs of a, in a common unit
      below == MaxOf(l, k)
      prod == q * lowV
      over == ShiftLeft(prod, (below - k) * W + 1)
                - (ShiftLeft(r, below * W + 1) + ShiftLeft(lowU, (below - l) * W))
      tooLarge == prod >= 2^(Size(v.prec))
  IN CASE k = 0 ->
            DivCase1(p, m, e, rb, IF rnd = "RNDN" THEN s3 # 0 \/ lowU # 0 \/ r # 0 ELSE inexact,
                     rnd, neg)
       [] k > 0 /\ ~ inexact -> DivTruncate(p, m, e, 0, rnd, neg)
       [] k > 0 /\ inexact ->
            IF s3 \notin {0, 1} THEN DivCase1(p, m, e, rb, TRUE, rnd, neg)
            ELSE DivCorrect(p, m, q \div 2^(qsize * W), e, rb, s3, IF tooLarge THEN 1 ELSE over,
                            IF tooLarge THEN 1 ELSE over - ShiftLeft(Mant(v), (below - k) * W + 1),
                            rnd, neg)

\* The division with remainder, of 2*qsize limbs of u by qsize limbs of v.
DivLimbs(p, u, v, extra, qsize, sh2, rnd, neg) ==
  LET us == NLimbs(u.prec)
      vs == NLimbs(v.prec)
      l == MaxOf(us - 2 * qsize, 0)     \* limbs of u left aside
      k == MaxOf(vs - qsize, 0)         \* limbs of v left aside
      pad == MaxOf(qsize - vs, 0)
      wide == ShiftLeft(Mant(u), MaxOf(2 * qsize - us, 0) * W + 1 - extra)
      a == wide \div 2^(l * W + 1)
      V1 == Mant(v) \div 2^(k * W)
      top == a \div 2^(pad * W)
  IN DivFound(p, top \div V1, (top % V1) * 2^(pad * W) + (a % 2^(pad * W)), qsize, sh2, v, l,
              wide % 2^(l * W + 1), k, Mant(v) % 2^(k * W), u.exp - v.exp + extra, rnd, neg)

\* To nearest, the round bit needs a limb more when the precision fills the limbs.
DivRemainder(p, u, v, extra, rnd, neg) ==
  LET oneMore == rnd = "RNDN" /\ MinusModulo(p) = 0
  IN DivLimbs(p, u, v, extra, IF oneMore THEN NLimbs(p) + 1 ELSE NLimbs(p),
              IF oneMore THEN W ELSE MinusModulo(p), rnd, neg)

\* x times 2^n: mpfr_mul_2si, mpfr_div_2si.
Scale2(p, r, e, rnd, neg) ==
  MulEnd(p, r, e, e + r.carry < emin - 1 \/ (r.dir >= 0 /\ r.mant = 2^(p-1)), rnd, neg)
Mul2si(p, x, n, rnd) ==
  Scale2(p, RndRaw(x.mant, x.prec, p, rnd, x.neg), x.exp + n, rnd, x.neg)
Div2si(p, x, n, rnd) == Mul2si(p, x, -n, rnd)

\* The end of mpfr_div_ui, in the range or just below.
DivUiEnd(p, m, e, rb, sb, rnd, neg) ==
  LET r == IF IsLikeRNDZ(rnd, neg) \/ rnd = "RNDF" THEN "RNDZ" ELSE rnd
      up == (rb \/ sb) /\ r # "RNDZ" /\ (r # "RNDN" \/ (rb /\ (sb \/ m % 2 = 1)))
      y == Significand(m, p, Decision(up, 0))
      inex == IF rb \/ sb THEN IF up THEN 1 ELSE -1 ELSE 0
  IN IF e < emin - 1 THEN Underflow(p, IF rnd = "RNDN" THEN "RNDZ" ELSE rnd, neg, emin)
     ELSE CheckRange(Num(neg, e + y.carry, y.mant, p), Signed(neg, inex), rnd, emin, emax)

\* From the yn + 1 limbs q that the divisor's limb gives, c # 0 telling that a remainder is
\* left and half that it is above 1/2.
DivUiRounded(p, q, c, half, low, e, rnd, neg) ==
  LET yn == NLimbs(p)
      sh == MinusModulo(p)
      shlz == LeadingZeros(q, (yn + 1) * W)
      full == q * 2^shlz
      fits == q < 2^(yn * W)
      a == IF fits THEN q ELSE full \div 2^W
      rb == IF fits /\ sh = 0 THEN half >= 0
            ELSE IF sh = 0 THEN Bit(full, W - 1) = 1 ELSE Bit(a, sh - 1) = 1
  IN DivUiEnd(p, a \div 2^sh, e - (IF fits THEN W ELSE shlz), rb,
              IF fits /\ sh = 0 /\ rb THEN half # 0
              ELSE \/ low # 0 \/ c # 0
                   \/ IF fits THEN sh > 0 /\ a % 2^(sh - 1) # 0
                      ELSE IF sh = 0 THEN full % HighBit # 0
                           ELSE a % 2^(sh - 1) # 0 \/ full % 2^W # 0,
              rnd, neg)

\* x by the integer u of one limb, neither 0 nor 1: mpfr_div_ui.
DivUi(p, x, u, rnd) ==
  LET dif == NLimbs(p) + 1 - NLimbs(x.prec)
      X == Mant(x)
      low == IF dif < 0 THEN X % 2^(-dif * W) ELSE 0
      unit == IF dif < 0 THEN 2^(-dif * W) ELSE 1
      t == ShiftLeft(X, dif * W)
  IN IF \E k \in 1 .. W : u = 2^k THEN Div2si(p, x, CeilLog2(u), rnd)
     ELSE DivUiRounded(p, t \div u, t % u, 2 * ((t % u) * unit + low) - u * unit, low,
                       x.exp, rnd, x.neg)

\* A divisor of one limb: the division d by its integer, scaled.
DivScaled(p, d, e, rnd) ==
  LET r == CheckRange([d.y EXCEPT !.exp = e + W], d.inex, rnd, emin, emax)
  IN IF e > emax - W THEN [Overflow(p, rnd, d.y.neg, emax) EXCEPT !.raised = @ \cup d.raised]
     ELSE [r EXCEPT !.raised = @ \cup d.raised]
DivLimbScaled(p, d, v, rnd) == DivScaled(p, d, d.y.exp - v.exp, rnd)
\* By an integer of sign neg: the opposite of the operation in the opposite direction.
SignedBy(neg, s) == IF neg THEN ChangeSign(s) ELSE s
DirectionBy(neg, rnd) == IF neg THEN InvertRnd(rnd) ELSE rnd
DivByLimb(p, u, v, rnd) ==
  DivLimbScaled(p, SignedBy(v.neg, DivUi(p, u, Mant(v), DirectionBy(v.neg, rnd))), v, rnd)

\* high is used if it is accurate enough.
DivMany(p, u, v, extra, high, rnd, neg) ==
  IF NLimbs(p) >= DivThreshold /\ NLimbs(v.prec) >= DivThreshold /\ high.ok
  THEN high.result ELSE DivRemainder(p, u, v, extra, rnd, neg)

\* mpfr_div, of numbers that are not singular.
Div(p, u, v, rnd, generic) ==
  LET special == ~ generic /\ p = u.prec /\ p = v.prec
      bits == MaxOf(u.prec, v.prec)
      extra == IF u.mant * 2^(bits - u.prec) >= v.mant * 2^(bits - v.prec) THEN 1 ELSE 0
      neg == ProductSign(u, v)
  IN CASE special /\ p < W -> Div1(u, v, rnd)
       [] special /\ p = W -> Div1n(u, v, rnd)
       [] special /\ W < p /\ p < 2 * W -> Div2(u, v, rnd)
       [] ~ (special /\ p < 2 * W) ->
            IF v.prec <= W /\ emin <= u.exp - W /\ u.exp - W + 1 <= emax
            THEN DivByLimb(p, u, v, rnd)
            ELSE DivMany(p, u, v, extra, DivHigh(p, u, v, u.exp - v.exp + extra, rnd, neg), rnd, neg)
=============================================================================
