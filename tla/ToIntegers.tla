------------------------------ MODULE ToIntegers ------------------------------
(***************************************************************************)
(* Comparisons (cmp.c, cmp_ui.c, cmp_si.c, gmp_op.c, eq.c), and the        *)
(* conversions to an integer of C or of GMP, with the predicates that tell *)
(* whether it fits (fits_u.h, fits_s.h, get_ui.c, get_si.c, get_z.c).      *)
(*                                                                         *)
(* An unsigned long has W bits, like a limb; an integer type has B bits.   *)
(***************************************************************************)
EXTENDS IntegerParts

ExtParts == INSTANCE IntegerParts WITH emin <- ExtEmin, emax <- ExtEmax

-----------------------------------------------------------------------------
(* Comparisons *)

SignBy(neg) == IF neg THEN -1 ELSE 1
Sgn(z) == CASE z < 0 -> -1 [] z = 0 -> 0 [] z > 0 -> 1

\* Mutant: the limbs that only c has are not looked at.
ComparePrefix(b, c) ==
  LET n == IF NLimbs(b.prec) < NLimbs(c.prec) THEN Size(b.prec) ELSE Size(c.prec)
  IN Sgn(ShiftLeft(b.mant, n - b.prec) - ShiftLeft(c.mant, n - c.prec))

\* The limbs of b and c, from the first ones; the missing ones are null.
CompareLimbs(b, c) ==
  LET n == MaxOf(Size(b.prec), Size(c.prec))
  IN Sgn(b.mant * 2^(n - b.prec) - c.mant * 2^(n - c.prec))

\* mpfr_cmp3 (b, c, 1)
Cmp(b, c) ==
  CASE b.kind = "inf" -> IF c.kind = "inf" /\ b.neg = c.neg THEN 0 ELSE SignBy(b.neg)
    [] b.kind # "inf" /\ c.kind = "inf" -> -SignBy(c.neg)
    [] b.kind = "zero" /\ c.kind # "inf" -> IF c.kind = "zero" THEN 0 ELSE -SignBy(c.neg)
    [] b.kind = "num" /\ c.kind = "zero" -> SignBy(b.neg)
    [] b.kind = "num" /\ c.kind = "num" /\ b.neg # c.neg -> SignBy(b.neg)
    [] b.kind = "num" /\ c.kind = "num" /\ b.neg = c.neg ->
         SignBy(b.neg) * (IF b.exp # c.exp THEN Sgn(b.exp - c.exp) ELSE CompareLimbs(b, c))

\* |b| with u * 2^f, u # 0: the exponents, then the limb of u.
CmpLimb2exp(b, u, f) ==
  CASE b.exp <= f -> -1
    [] b.exp > f /\ b.exp - f # NumBits(u) -> Sgn(b.exp - f - NumBits(u))
    [] b.exp > f /\ b.exp - f = NumBits(u) -> CompareLimbs(b, OfLimb(u))

CmpUi2exp(b, u, f) ==
  CASE b.kind = "inf" -> SignBy(b.neg)
    [] b.kind = "zero" -> IF u # 0 THEN -1 ELSE 0
    [] b.kind = "num" /\ b.neg -> -1
    [] b.kind = "num" /\ ~ b.neg -> IF u = 0 THEN 1 ELSE CmpLimb2exp(b, u, f)

CmpSi2exp(b, i, f) ==
  CASE b.kind = "inf" -> SignBy(b.neg)
    [] b.kind = "zero" -> -Sgn(i)
    [] b.kind = "num" /\ (b.neg # (i < 0) \/ i = 0) -> SignBy(b.neg)
    [] b.kind = "num" /\ b.neg = (i < 0) /\ i # 0 -> SignBy(b.neg) * CmpLimb2exp(b, AbsOf(i), f)

\* An integer out of the range becomes an infinity or, after the division by 4, a zero.
SafeZ(t) == IF t.inex = 0 \/ t.y.kind = "inf" THEN t.y ELSE Div2si(t.y.prec, t.y, 2, "RNDZ").y
CmpZ(x, z) ==
  IF IsSingular(x) THEN CmpSi2exp(x, Sgn(z), 0)
  ELSE IF FitsLong(z) THEN CmpSi2exp(x, z, 0)
  ELSE Cmp(x, SafeZ(SetZ2exp(MaxOf(W, NumBits(AbsOf(z))), z, 0, "RNDN")))

\* mpfr_min, mpfr_max
MinMax(p, x, y, isMax, rnd) ==
  LET bothZero == x.kind = "zero" /\ y.kind = "zero"
      z == IF bothZero THEN IF x.neg # isMax THEN x ELSE y
           ELSE IF (Cmp(x, y) <= 0) # isMax THEN x ELSE y
  IN Set4(z, p, rnd, z.neg, emax)

\* mpfr_dim
Dim(p, x, y, rnd, generic) ==
  IF Cmp(x, y) > 0 THEN AddSub(p, x, y, TRUE, rnd, generic) ELSE Return(Zero(FALSE, p), 0, {})

-----------------------------------------------------------------------------
(* mpfr_eq, of numbers and zeros *)

FirstBits(x, n) == ShiftLeft(x.mant, n - x.prec)

\* up[k] >> (W - remains): not defined by C for a shift by W, which keeps the limb or
\* gives 0.
ShiftedLimb(limb, remains) ==
  IF remains = 0 THEN {limb, 0} ELSE {limb \div 2^(W - remains)}

\* The limbs of u that v has not: do some of the bits up to n differ from 0?
ExtraLimbs(u, v, n) ==
  LET last == NLimbs(u.prec) - NLimbs(v.prec) - 1
      Up(k) == Limb(Mant(u), k)
      Remains(k) == n - Size(v.prec) - (last - k) * W
      Stops(k) == Remains(k) < W \/ Up(k) # 0
      k == CHOOSE k \in 0 .. last : Stops(k) /\ \A j \in k + 1 .. last : ~ Stops(j)
  IN IF last < 0 \/ Size(v.prec) >= n \/ \A i \in 0 .. last : ~ Stops(i) THEN {FALSE}
     ELSE IF Remains(k) >= W THEN {TRUE}
     ELSE {limb # 0 : limb \in ShiftedLimb(Up(k), Remains(k))}

\* mpfr_eq: the possible results. n - 1 is unsigned: for n = 0, a limb is compared.
Eq(x, y, n) ==
  LET u == IF NLimbs(y.prec) > NLimbs(x.prec) THEN y ELSE x
      v == IF NLimbs(y.prec) > NLimbs(x.prec) THEN x ELSE y
      bits == IF n = 0 THEN W ELSE IF n > Size(v.prec) THEN Size(v.prec) ELSE n
      same == FirstBits(u, bits) = FirstBits(v, bits)
  IN CASE IsSingular(x) \/ IsSingular(y) -> {IsSingular(x) /\ IsSingular(y)}
       [] ~ IsSingular(x) /\ ~ IsSingular(y) /\ (x.neg # y.neg \/ x.exp # y.exp) -> {FALSE}
       [] ~ IsSingular(x) /\ ~ IsSingular(y) /\ x.neg = y.neg /\ x.exp = y.exp ->
            {~ differs /\ same : differs \in ExtraLimbs(u, v, n)}

-----------------------------------------------------------------------------
(* Conversions to integers *)

\* Mutant: the number is only truncated before it is compared with the largest integer.
FitsUTruncated(f, B, rnd) ==
  \/ IsSingular(f)
  \/ ~ f.neg /\ f.exp <= B
  \/ f.neg /\ f.exp <= 0 /\ rnd # "RNDD" /\ rnd # "RNDA"

\* fits_u.h: f rounded to B bits keeps its exponent.
FitsU(f, B, rnd) ==
  \/ IsSingular(f)
  \/ f.neg /\ f.exp < 1 /\ rnd # "RNDN" /\ rnd \in {"RNDZ", "RNDU"}
  \/ f.neg /\ f.exp < 1 /\ rnd = "RNDN" /\ (f.exp < 0 \/ IsPowerof2Raw(f))
  \/ ~ f.neg /\ f.exp <= B - 1
  \/ /\ ~ f.neg /\ f.exp = B
     /\ Set4(f, B, IF rnd = "RNDF" THEN "RNDU" ELSE rnd, f.neg, emax).y.exp = f.exp

\* fits_s.h
FitsS(f, B, rnd) ==
  LET prec == IF f.neg THEN B ELSE B - 1
      Within(x) == IF f.neg THEN CmpSi2exp(x, -2^(B - 1), 0) >= 0 ELSE x.exp = f.exp
  IN \/ IsSingular(f)
     \/ f.exp < 1
     \/ f.exp <= prec - 1
     \/ /\ f.exp = prec
        /\ Within(Set4(f, prec, IF rnd = "RNDF" THEN "RNDA" ELSE rnd, f.neg, emax).y)

\* |x| as an integer.
IntegerOf(x) == IF IsSingular(x) THEN 0 ELSE ShiftLeft(x.mant, x.exp - x.prec)

\* An integer, and the flags that the conversion raised.
Got(n, raised) == [n |-> n, raised |-> raised]

GotFrom(x) == Got(Signed(x.y.neg, IntegerOf(x.y)), x.raised)

GetUi(f, rnd) ==
  IF ~ FitsU(f, W, rnd) THEN Got(IF f.neg THEN 0 ELSE 2^W - 1, {"erange"})
  ELSE IF IsSingular(f) THEN Got(0, {})
  ELSE GotFrom(ExtParts!Rint(W, f, rnd))

\* The rounding is to one bit less than the bits of -LONG_MIN.
AtLeastMin(g) == [g EXCEPT !.n = MaxOf(@, -2^(W - 1))]
GetSi(f, rnd) ==
  IF ~ FitsS(f, W, rnd) THEN Got(IF f.neg THEN -2^(W - 1) ELSE 2^(W - 1) - 1, {"erange"})
  ELSE IF IsSingular(f) THEN Got(0, {})
  ELSE AtLeastMin(GotFrom(ExtParts!Rint(W - 1, f, rnd)))

\* mpfr_get_z: the precision is that of the integer part.
GetZ(f, rnd) ==
  IF IsSingular(f) THEN Got(0, {})
  ELSE GotFrom(ExtParts!Rint(IF f.exp < 1 THEN 1 ELSE f.exp, f, rnd))
=============================================================================
