---------------------------------- MODULE Sum ----------------------------------
(***************************************************************************)
(* sum.c and dot.c: the correctly rounded sum of an array or of products.  *)
(*                                                                         *)
(* The accumulator is an integer in two's complement whose last bit weighs *)
(* 2^minexp: it takes the bits of the terms between minexp and maxexp, and *)
(* is shifted and given a window further right as long as the bits left    *)
(* aside could still change the bits that are wanted.  When the bits found *)
(* after the significand are all equal, a second accumulator decides.      *)
(***************************************************************************)
EXTENDS AddSubGeneral, MulDiv, Sequences

CONSTANT SumLoops  \* bound: iterations of sum_raw

ASSUME SumAssumption == SumLoops \in Nat \ {0}

ExpMin == -1000  \* MPFR_EXP_MIN: no bit is left

SumCeilLog2(n) == CHOOSE k \in 0 .. n : 2^k >= n /\ (k = 0 \/ 2^(k - 1) < n)

Lsb(z) == z.exp - z.prec
MaxExp(S) == IF S = {} THEN ExpMin ELSE CHOOSE e \in S : \A f \in S : f <= e

\* The bits of z from minexp up to maxexp.
Block(z, minexp, maxexp) ==
  IF maxexp <= minexp THEN 0 ELSE ShiftLeft(z.mant, Lsb(z) - minexp) % 2^(maxexp - minexp)

Blocks(x, minexp, maxexp) ==
  LET sum[i \in 0 .. Len(x)] ==
        IF i = 0 THEN 0
        ELSE sum[i - 1] + Signed(x[i].neg, Block(x[i], minexp, maxexp))
  IN sum[Len(x)]

\* The terms that have bits below minexp, and the exponent of what is left of them.
LeftBelow(x, minexp) ==
  MaxExp({IF x[i].exp <= minexp THEN x[i].exp ELSE minexp :
            i \in {j \in DOMAIN x : Lsb(x[j]) < minexp}})

Negative(w, wq) == w >= 2^(wq - 1)
\* How many of the first bits are equal.
Cancelled(w, wq) ==
  LET v == IF Negative(w, wq) THEN 2^wq - 1 - w ELSE w
  IN CHOOSE c \in 0 .. wq : v < 2^(wq - c) /\ (c = wq \/ v >= 2^(wq - c - 1))

\* sum_raw: w of wq bits, with the number of cancelled bits, 0 if w is 0.
SumStep(s, x, wq, logn, prec) ==
  LET w == (s.w + Blocks(x, s.minexp, s.maxexp)) % 2^wq
      left == LeftBelow(x, s.minexp)
      cancel == Cancelled(w, wq)
      e == s.minexp + wq - cancel
      err == left + logn
      shiftq == cancel - 2 - MaxOf(err - e, 0)
  IN CASE s.done -> s
       [] ~ s.done /\ w # 0 /\ (left = ExpMin \/ e - err >= prec) ->
            [s EXCEPT !.w = w, !.done = TRUE, !.cancel = cancel, !.e = e, !.maxexp = left]
       [] ~ s.done /\ w # 0 /\ left # ExpMin /\ e - err < prec ->
            [s EXCEPT !.w = ShiftLeft(w, shiftq) % 2^wq, !.minexp = @ - shiftq, !.maxexp = left]
       [] ~ s.done /\ w = 0 /\ left = ExpMin -> [s EXCEPT !.w = 0, !.done = TRUE]
       [] ~ s.done /\ w = 0 /\ left # ExpMin ->
            [s EXCEPT !.w = 0, !.minexp = left - (wq - (logn + 1)), !.maxexp = left]

SumRaw(w, wq, x, minexp, maxexp, logn, prec) ==
  LET loop[i \in 0 .. SumLoops] ==
        IF i = 0
        THEN [w |-> w, minexp |-> minexp, maxexp |-> maxexp, cancel |-> 0, e |-> 0, done |-> FALSE]
        ELSE SumStep(loop[i - 1], x, wq, logn, prec)
  IN loop[SumLoops]

\* Bit i of w; there is none below the last one.
SumBit(w, i) == IF i < 0 THEN 0 ELSE Bit(w, i)

\* The bits after the significand and the rounding bit, down to the error: all 0 (or 1)
\* near a number (tmd = 1) or a midpoint (tmd = 2).
Tmd(w, tq, d, rbit, rnd) ==
  LET bits == {SumBit(w, i) : i \in tq - d .. tq - 2}
  IN CASE bits = {0} -> IF rbit = 0 THEN 1 ELSE IF rnd = "RNDN" THEN 2 ELSE 0
       [] bits = {1} -> IF rbit # 0 THEN 1 ELSE IF rnd = "RNDN" THEN 2 ELSE 0
       [] OTHER -> 0

\* The rounding without the second accumulator.
CorrOf(rnd, neg, inex, rbit) ==
  CASE rnd = "RNDD" -> 0
    [] rnd = "RNDU" -> inex
    [] rnd = "RNDZ" -> IF neg THEN inex ELSE 0
    [] rnd = "RNDA" -> IF neg THEN 0 ELSE inex
    [] rnd = "RNDN" -> rbit

\* Mutant: the sign of the secondary term is that of the first accumulator.
SecondSignNone(s, x, sq, wq, cq, logn, tmd, lbit) ==
  IF Negative(s.w, wq) THEN -1 ELSE 1

\* The sign of the secondary term.
SecondSign(s, x, sq, wq, cq, logn, tmd, lbit) ==
  LET zq == Size(wq - sq)
      err == s.maxexp + logn
      tq == err - s.minexp + 2
      fits == err >= s.minexp
      lost == tq % W = 0 /\ tq = zq
      t == SumRaw(IF fits /\ ~ lost THEN (s.w % 2^tq) * 2^(zq - tq) ELSE 0, zq, x,
                  IF fits THEN s.minexp - (zq - tq) ELSE s.maxexp - (zq - cq),
                  s.maxexp, logn, 1)
  IN CASE t.cancel # 0 -> IF Negative(t.w, zq) THEN -1 ELSE 1
       [] t.cancel = 0 -> IF tmd = 1 THEN 0 ELSE IF lbit # 0 THEN 1 ELSE -1

\* corr, to add to the significand read as a signed integer, and inex. First, when no
\* bit left aside can matter; then with the sign of the secondary term.
Rounding1(inex, corr) == [corr |-> corr, inex |-> IF inex # 0 /\ corr = 0 THEN -1 ELSE inex]

Rounding2(rnd, down, rbit, tmd, sst) ==
  [corr |-> CASE tmd = 2 /\ sst = (IF rbit # 0 THEN -1 ELSE 1) -> 1 - rbit
              [] tmd # 2 /\ rnd # "RNDN" /\ down /\ sst = -1 -> rbit - 1
              [] tmd # 2 /\ rnd # "RNDN" /\ ~ down /\ sst = 1 -> rbit + 1
              [] OTHER -> rbit,
   inex |-> CASE rnd # "RNDN" -> IF sst = 0 THEN 0 ELSE IF down THEN -1 ELSE 1
              [] rnd = "RNDN" -> IF tmd = 1 THEN -sst ELSE sst]

\* The significand ends tq bits above the last one of the accumulator, of weight 2^u.
SumRounding(s, x, sq, wq, cq, logn, rnd, u, tq) ==
  LET neg == Negative(s.w, wq)
      above == tq > 0
      lbit == SumBit(s.w, tq)
      rbit == SumBit(s.w, tq - 1)
      all == s.maxexp = ExpMin
      short == all /\ above /\ (rbit = 0 \/ (rnd = "RNDN" /\ lbit = 0))
      low == short /\ s.w % 2^(tq - 1) # 0
      tie == short /\ ~ low /\ rbit # 0        \* a midpoint, to be rounded downward
      inex == CASE all /\ above -> IF short /\ ~ low /\ ~ tie THEN 0 ELSE 1
                [] all /\ ~ above -> 0
                [] ~ all -> 1
      tmd == CASE all -> 0
               [] ~ all /\ above -> Tmd(s.w, tq, u - (s.maxexp + logn), rbit, rnd)
               [] ~ all /\ ~ above -> 1
      down == rnd # "RNDN" /\ IsLikeRNDZ(rnd, neg) = ~ neg
      Rounded(t) ==
        IF t = 0 THEN Rounding1(inex, CorrOf(rnd, neg, inex, IF tie THEN 0 ELSE rbit))
        ELSE Rounding2(rnd, down, rbit, t, SecondSign(s, x, sq, wq, cq, logn, t, lbit))
  IN IF rnd = "RNDF" THEN [corr |-> IF above THEN rbit ELSE 0, inex |-> 0] ELSE Rounded(tmd)

\* The significand of sq bits from the accumulator, its sign and corr.
SumSignificand(s, sq, wq, corr) ==
  LET neg == Negative(s.w, wq)
      t == ShiftLeft(s.w, s.minexp - (s.e - sq)) % 2^sq
      m == IF neg THEN 2^sq - t - corr ELSE t + corr
      half == 2^(sq - 1)
  IN CASE sq = 1 -> Num(neg, s.e + (IF neg THEN 1 - corr ELSE corr), 1, 1)
       [] sq # 1 /\ m >= 2^sq -> Num(neg, s.e + 1, (m - 2^sq) + half, sq)
       [] sq # 1 /\ m < half -> Num(neg, s.e - 1, m + half, sq)
       [] sq # 1 /\ half <= m /\ m < 2^sq -> Num(neg, s.e, m, sq)

SumEnd(s, x, sq, wq, cq, logn, rnd) ==
  LET Ended(r) == CheckRange(SumSignificand(s, sq, wq, r.corr), r.inex, rnd, emin, emax)
  IN IF s.cancel = 0 THEN Return(Zero(rnd = "RNDD", sq), 0, {})
     ELSE Ended(SumRounding(s, x, sq, wq, cq, logn, rnd, s.e - sq, s.e - sq - s.minexp))

\* sum_aux, of a sequence without zeros.
SumAux(sq, x, rnd) ==
  LET logn == SumCeilLog2(Len(x))
      cq == logn + 1
      wq == Size(cq + sq + logn + 2)
      maxexp == MaxExp({x[i].exp : i \in DOMAIN x})
  IN SumEnd(SumRaw(0, wq, x, maxexp - (wq - cq), maxexp, logn, sq + 3), x, sq, wq, cq, logn, rnd)

\* mpfr_sum, of three terms or more that are numbers or zeros, of which x are the numbers.
SumOfRegular(sq, x, zero, rnd, generic) ==
  CASE x = <<>> -> Return(Zero(zero, sq), 0, {})
    [] Len(x) = 1 -> Set4(x[1], sq, rnd, x[1].neg, emax)
    [] Len(x) = 2 -> Add(sq, x[1], x[2], rnd, generic)
    [] Len(x) >= 3 -> SumAux(sq, x, rnd)

SumOf(sq, x, rnd, generic) ==
  LET signs == {x[i].neg : i \in DOMAIN x}
  IN SumOfRegular(sq, SelectSeq(x, LAMBDA z : z.kind = "num"),
                  IF signs = BOOLEAN THEN rnd = "RNDD" ELSE signs = {TRUE}, rnd, generic)

-----------------------------------------------------------------------------
(* dot.c: the sum of x[1] * x[2], x[3] * x[4], ... *)

DotProduct(x, y) ==
  IF IsSingular(x) \/ IsSingular(y) THEN Return(Zero(ProductSign(x, y), x.prec + y.prec), 0, {})
  ELSE Mul(x.prec + y.prec, x, y, FALSE, "RNDZ", FALSE)

\* mpfr_dot asserts that the products are exact, which fails out of the range.
DotAsserted(x) == \A i \in 1 .. Len(x) \div 2 : DotProduct(x[2 * i - 1], x[2 * i]).inex = 0
Dot(p, x, rnd) == SumOf(p, [i \in 1 .. Len(x) \div 2 |-> DotProduct(x[2 * i - 1], x[2 * i]).y], rnd, FALSE)
=============================================================================
