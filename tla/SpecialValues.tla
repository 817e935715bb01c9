----------------------------- MODULE SpecialValues -----------------------------
(***************************************************************************)
(* What the mathematical functions are, of operands that are special or    *)
(* where they are special: NaN, an infinity ("+inf"), a pole, which is an  *)
(* infinity that divides by zero ("+pole"), a signed zero ("+0"), or a     *)
(* real number, by its sign.                                               *)
(***************************************************************************)
EXTENDS ArcTrig, Hyperbolic, Gammas, Powers

Sign(neg) == IF neg THEN "-" ELSE "+"
SameSign(x, what) == Sign(x.neg) \o what

\* The sign of the order of x and the integer k.
Against(x, k) == IF Value(x) < At(k) THEN "-" ELSE "+"

\* From its value at +Inf, and 1 at the zeros.
ExpLike(x) == IF IsInf(x) THEN IF x.neg THEN "+0" ELSE "+inf" ELSE "+"
ExpLikeM1(x) ==
  CASE IsInf(x) -> IF x.neg THEN "-" ELSE "+inf"
    [] IsZero(x) -> SameSign(x, "0")
    [] IsNum(x) -> Sign(x.neg)
LogLike(x) ==
  CASE IsZero(x) -> "-pole"
    [] ~ IsZero(x) /\ x.neg -> "nan"
    [] ~ IsZero(x) /\ ~ x.neg /\ IsInf(x) -> "+inf"
    [] IsNum(x) /\ ~ x.neg -> IF Value(x) = At(1) THEN "+0" ELSE Against(x, 1)
LogLikeP1(x) ==
  CASE IsZero(x) -> SameSign(x, "0")
    [] ~ IsZero(x) /\ Value(x) < At(-1) -> "nan"
    [] Value(x) = At(-1) -> "-pole"
    [] ~ IsZero(x) /\ Value(x) > At(-1) -> IF IsInf(x) THEN "+inf" ELSE Sign(x.neg)

SinLike(x) == IF IsInf(x) THEN "nan" ELSE IF IsZero(x) THEN SameSign(x, "0") ELSE "any"
CosLike(x) == IF IsInf(x) THEN "nan" ELSE IF IsZero(x) THEN "+" ELSE "any"
PoleLike(x) == IF IsInf(x) THEN "nan" ELSE IF IsZero(x) THEN SameSign(x, "pole") ELSE "any"
OddLike(x) == SameSign(x, IF IsZero(x) THEN "0" ELSE "")
AsinLike(x) == IF Magnitude(x) > One THEN "nan" ELSE OddLike(x)
AcosLike(x) == IF Magnitude(x) > One THEN "nan" ELSE IF Value(x) = One THEN "+0" ELSE "+"

Even(x) == IF IsInf(x) THEN "+inf" ELSE "+"
OddInf(x) == SameSign(x, CASE IsInf(x) -> "inf" [] IsZero(x) -> "0" [] IsNum(x) -> "")
Inverted(x, ofInf) == CASE IsInf(x) -> ofInf [] IsZero(x) -> SameSign(x, "pole") [] IsNum(x) -> Sign(x.neg)
AcoshLike(x) ==
  IF Value(x) < At(1) THEN "nan"
  ELSE IF IsInf(x) THEN "+inf" ELSE IF Value(x) = At(1) THEN "+0" ELSE "+"
AtanhLike(x) ==
  IF Magnitude(x) > One THEN "nan" ELSE IF Magnitude(x) = One THEN SameSign(x, "pole") ELSE OddLike(x)

\* Errors, zeta and the dilogarithm.
EintLike(x) ==
  CASE IsInf(x) -> IF x.neg THEN "-0" ELSE "+inf"
    [] IsZero(x) -> "-pole"
    [] IsNum(x) -> IF x.neg THEN "-" ELSE "any"
ErfcLike(x) == IF IsInf(x) /\ ~ x.neg THEN "+0" ELSE "+"
ZetaLike(s) ==
  CASE IsInf(s) -> IF s.neg THEN "nan" ELSE "+"
    [] IsZero(s) -> "-"
    [] IsNum(s) /\ s.neg /\ EvenInteger(s) -> "+0"
    [] IsNum(s) /\ ~ (s.neg /\ EvenInteger(s)) ->
         CASE Value(s) = At(1) -> "+pole"
           [] Value(s) > At(1) -> "+"
           [] Value(s) < At(1) -> IF IsTiny(s) \/ ~ s.neg THEN "-" ELSE Sign(s.v % 8 < 4)
Li2Like(x) ==
  CASE IsInf(x) -> "-inf" [] IsZero(x) -> SameSign(x, "0") [] IsNum(x) -> IF x.neg THEN "-" ELSE "any"
AiLike(x) == IF IsInf(x) THEN "+0" ELSE IF x.neg THEN "any" ELSE "+"

\* Gamma has a pole at each integer that is not positive, and changes sign there.
GammaSign(x) == IF x.neg /\ (x.v \div 2) % 2 = 0 THEN "-" ELSE "+"
GammaLike(x) ==
  CASE IsInf(x) -> IF x.neg THEN "nan" ELSE "+inf"
    [] IsZero(x) -> SameSign(x, "pole")
    [] IsNum(x) -> IF x.neg /\ IsInteger(x) THEN "nan" ELSE GammaSign(x)
LgammaLike(x) ==
  CASE IsInf(x) -> "+inf"
    [] IsZero(x) -> "+pole"
    [] IsNum(x) -> IF x.neg /\ IsInteger(x) THEN "+pole"
                   ELSE IF ~ x.neg /\ x.v \in {2, 4} THEN "+0" ELSE "any"
LngammaLike(x) == IF IsNum(x) /\ ~ IsInteger(x) /\ GammaSign(x) = "-" THEN "nan" ELSE LgammaLike(x)
DigammaLike(x) ==
  CASE IsInf(x) -> IF x.neg THEN "nan" ELSE "+inf"
    [] IsZero(x) -> SameSign(Opposed(x), "pole")
    [] IsNum(x) -> IF x.neg /\ IsInteger(x) THEN "nan" ELSE "any"
TrigammaLike(x) ==
  CASE IsInf(x) -> IF x.neg THEN "nan" ELSE "+0"
    [] IsZero(x) -> "+pole"
    [] IsNum(x) -> IF x.neg /\ IsInteger(x) THEN "+pole" ELSE IF x.neg /\ ~ IsTiny(x) THEN "any" ELSE "+"

OfOne(f, x) ==
  CASE IsNan(x) -> "nan"
    [] ~ IsNan(x) /\ f \in {"exp", "exp2"} -> ExpLike(x)
    [] ~ IsNan(x) /\ f \in {"expm1", "exp2m1", "exp10m1"} -> ExpLikeM1(x)
    [] ~ IsNan(x) /\ f \in {"log", "log2", "log10"} -> LogLike(x)
    [] ~ IsNan(x) /\ f \in {"log1p", "log2p1", "log10p1"} -> LogLikeP1(x)
    [] ~ IsNan(x) /\ f \in {"sin", "tan"} -> SinLike(x)
    [] ~ IsNan(x) /\ f \in {"cos", "sec"} -> CosLike(x)
    [] ~ IsNan(x) /\ f \in {"cot", "csc"} -> PoleLike(x)
    [] ~ IsNan(x) /\ f = "asin" -> AsinLike(x)
    [] ~ IsNan(x) /\ f = "acos" -> AcosLike(x)
    [] ~ IsNan(x) /\ f \in {"atan", "tanh"} -> OddLike(x)
    [] ~ IsNan(x) /\ f \in {"sinh", "asinh"} -> OddInf(x)
    [] ~ IsNan(x) /\ f = "cosh" -> Even(x)
    [] ~ IsNan(x) /\ f = "acosh" -> AcoshLike(x)
    [] ~ IsNan(x) /\ f = "atanh" -> AtanhLike(x)
    [] ~ IsNan(x) /\ f = "coth" -> Inverted(x, Sign(x.neg))
    [] ~ IsNan(x) /\ f = "csch" -> Inverted(x, SameSign(x, "0"))
    [] ~ IsNan(x) /\ f = "sech" -> IF IsInf(x) THEN "+0" ELSE "+"
    [] ~ IsNan(x) /\ f = "eint" -> EintLike(x)
    [] ~ IsNan(x) /\ f = "erf" -> OddLike(x)
    [] ~ IsNan(x) /\ f = "erfc" -> ErfcLike(x)
    [] ~ IsNan(x) /\ f = "zeta" -> ZetaLike(x)
    [] ~ IsNan(x) /\ f = "li2" -> Li2Like(x)
    [] ~ IsNan(x) /\ f = "ai" -> AiLike(x)
    [] ~ IsNan(x) /\ f = "gamma" -> GammaLike(x)
    [] ~ IsNan(x) /\ f = "lgamma" -> LgammaLike(x)
    [] ~ IsNan(x) /\ f = "lngamma" -> LngammaLike(x)
    [] ~ IsNan(x) /\ f = "digamma" -> DigammaLike(x)
    [] ~ IsNan(x) /\ f = "trigamma" -> TrigammaLike(x)

\* The parts of a turn, of u units: quarters, when x is a whole number of them.
Quarters(x, u) == (IF x.neg THEN -1 ELSE 1) * ((2 * x.v) \div u)
WholeQuarters(x, u) == ~ IsTiny(x) /\ (2 * x.v) % u = 0
OfTurn(f, x, u) ==
  CASE NanOrInf(x) \/ u = 0 -> "nan"
    [] ~ NanOrInf(x) /\ u # 0 /\ (IsZero(x) \/ ~ WholeQuarters(x, u)) ->
         IF f = "cosu" THEN CosLike(x) ELSE SinLike(x)
    [] IsNum(x) /\ u # 0 /\ WholeQuarters(x, u) ->
         LET q == Quarters(x, u) % 4
         IN CASE f = "sinu" -> IF q % 2 = 0 THEN SameSign(x, "0") ELSE IF q = 1 THEN "+" ELSE "-"
              [] f = "cosu" -> IF q % 2 = 1 THEN "+0" ELSE IF q = 0 THEN "+" ELSE "-"
              [] f = "tanu" -> CASE q = 0 -> SameSign(x, "0") [] q = 2 -> SameSign(Opposed(x), "0")
                                 [] q = 1 -> "+pole" [] q = 3 -> "-pole"

\* asinu(x, 0) and atanu(x, 0) are 0 with the sign of x (asinu.c:68, atanu.c:73).
OfArc(f, x, u) ==
  CASE IsNan(x) -> "nan"
    [] ~ IsNan(x) /\ f = "asinu" ->
         IF u = 0 /\ Magnitude(x) <= One THEN SameSign(x, "0") ELSE AsinLike(x)
    [] ~ IsNan(x) /\ f = "acosu" ->
         IF u = 0 /\ Magnitude(x) <= One THEN "+0" ELSE AcosLike(x)
    [] ~ IsNan(x) /\ f = "atanu" -> IF u = 0 THEN SameSign(x, "0") ELSE OddLike(x)

\* The angle of the point (x, y), times u when there is one.
OfAngle(y, x, u) ==
  CASE IsNan(x) \/ IsNan(y) -> "nan"
    [] ~ (IsNan(x) \/ IsNan(y)) ->
         IF u = 0 \/ (~ x.neg /\ (IsZero(y) \/ (IsInf(x) /\ ~ IsInf(y)))) THEN SameSign(y, "0")
         ELSE Sign(y.neg)

OfInteger(f, n) ==
  CASE f = "log_ui" -> IF n = 0 THEN "-pole" ELSE IF n = 1 THEN "+0" ELSE "+"
    [] f = "zeta_ui" -> IF n = 0 THEN "-" ELSE IF n = 1 THEN "+pole" ELSE "+"
    [] f = "fac_ui" -> "+"

\* J_n(z) is like (z/2)^n / n! near 0, with J_{-n} = (-1)^n J_n; Y_n has a pole there.
Parity(n, s) == IF n % 2 = 0 THEN "+" ELSE s
JLike(n, z) ==
  CASE IsInf(z) -> "+0"
    [] IsZero(z) -> IF n = 0 THEN "+" ELSE Parity(n, Sign(z.neg = (n > 0))) \o "0"
    [] IsNum(z) -> IF IsTiny(z) THEN Parity(n, Sign(z.neg = (n > 0))) ELSE "any"
YLike(n, z) ==
  CASE IsInf(z) -> IF z.neg THEN "nan" ELSE "+0"
    [] IsZero(z) -> IF n < 0 /\ n % 2 = 1 THEN "+pole" ELSE "-pole"
    [] IsNum(z) -> IF z.neg THEN "nan" ELSE IF IsTiny(z) /\ n \in {0, 1} THEN "-" ELSE "any"
LegendreLike(n, x) ==
  CASE IsInf(x) \/ Magnitude(x) > One -> "nan"
    [] IsZero(x) ->
         IF n = 0 THEN "+" ELSE IF n % 2 = 0 THEN "any"
         ELSE IF n = 1 THEN SameSign(x, "0") ELSE IF n % 4 = 3 THEN "-0" ELSE "+0"
    [] IsNum(x) /\ Magnitude(x) <= One ->
         IF n = 0 \/ Value(x) = One THEN "+" ELSE IF n = 1 THEN Sign(x.neg) ELSE "any"
OfOrder(f, n, x) ==
  CASE IsNan(x) -> "nan"
    [] ~ IsNan(x) /\ f = "jn" -> JLike(n, x)
    [] ~ IsNan(x) /\ f = "yn" -> YLike(n, x)
    [] ~ IsNan(x) /\ f = "legendre" -> LegendreLike(n, x)

AgmLike(a, b) ==
  IF IsInf(a) \/ IsInf(b)
  THEN IF Value(a) > 0 /\ Value(b) > 0 THEN "+inf" ELSE "nan"
  ELSE IF IsZero(a) \/ IsZero(b) THEN "+0" ELSE IF a.neg \/ b.neg THEN "nan" ELSE "+"

\* beta(z, w) for z >= w; at a negative integer w, for an integer z in 1 .. -w, it is
\* (-1)^z beta(z, 1 - w - z): beta(1, w) = 1 / w.
BetaLike(z, w) ==
  CASE IsInf(z) /\ ~ z.neg ->
         IF Value(w) > 0 THEN "+0"
         ELSE IF IsInf(w) \/ IsZero(w) \/ IsInteger(w) THEN "nan" ELSE GammaSign(w) \o "inf"
    [] IsInf(w) /\ w.neg ->
         IF Value(z) <= 0 \/ IsInf(z) \/ ~ IsInteger(z) THEN "nan" ELSE Sign(IsOdd(z)) \o "0"
    [] IsZero(z) /\ IsZero(w) -> IF z.neg = w.neg THEN SameSign(z, "pole") ELSE "nan"
    [] IsNum(z) /\ IsZero(w) -> SameSign(w, "pole")
    [] IsZero(z) /\ IsNum(w) -> IF IsInteger(w) THEN "nan" ELSE SameSign(z, "pole")
    [] IsNum(z) /\ IsNum(w) ->
         IF w.neg /\ IsInteger(w)
         THEN IF z.neg \/ ~ IsInteger(z) \/ z.v > w.v THEN "nan" ELSE Sign(IsOdd(z))
         ELSE IF z.neg /\ IsInteger(z) THEN "nan"
         ELSE IF SumIsNonPositiveInteger(z, w) THEN "+0" ELSE IF w.neg THEN "any" ELSE "+"

\* The limits of gamma(a, x), the integral from x of t^(a - 1) e^(-t).
GammaIncLike(a, x) ==
  CASE IsInf(x) ->
         IF x.neg \/ (IsInf(a) /\ ~ a.neg) THEN "nan" ELSE "+0"
    [] ~ IsInf(x) /\ IsInf(a) ->
         IF ~ a.neg THEN "+inf"
         ELSE IF Value(x) <= 0 THEN "nan" ELSE IF Value(x) < At(1) THEN "+inf" ELSE "+0"
    [] IsZero(x) /\ ~ IsInf(a) -> GammaLike(a)
    [] IsNum(x) /\ ~ IsInf(a) -> IF x.neg THEN "nan" ELSE "+"
OfTwo(f, a, b) ==
  CASE IsNan(a) \/ IsNan(b) -> "nan"
    [] ~ (IsNan(a) \/ IsNan(b)) /\ f = "agm" -> AgmLike(a, b)
    [] ~ (IsNan(a) \/ IsNan(b)) /\ f = "beta" -> IF Value(a) < Value(b) THEN BetaLike(b, a) ELSE BetaLike(a, b)
    [] ~ (IsNan(a) \/ IsNan(b)) /\ f = "gamma_inc" -> GammaIncLike(a, b)

\* x^y, as IEEE 754 has it; powr is exp(y log x).
PowSign(x, y) == Sign(x.neg /\ IsOdd(y))
PowLike(x, y) ==
  CASE IsZero(y) -> "+"
    [] ~ IsZero(y) /\ (IsNan(x) \/ IsNan(y)) -> IF IsNum(x) /\ IsOne(x) THEN "+" ELSE "nan"
    [] IsInf(y) /\ ~ IsNan(x) ->
         IF IsNum(x) /\ Magnitude(x) = One THEN "+" ELSE IF (Magnitude(x) > One) = ~ y.neg THEN "+inf" ELSE "+0"
    [] IsNum(y) /\ IsInf(x) -> PowSign(x, y) \o IF y.neg THEN "0" ELSE "inf"
    [] IsNum(y) /\ IsZero(x) -> PowSign(x, y) \o IF y.neg THEN "pole" ELSE "0"
    [] IsNum(y) /\ IsNum(x) -> IF x.neg /\ ~ IsInteger(y) THEN "nan" ELSE PowSign(x, y)
PowrLike(x, y) ==
  CASE IsNan(x) \/ IsNan(y) -> "nan"
    [] ~ (IsNan(x) \/ IsNan(y)) ->
         IF \/ x.neg /\ ~ IsZero(x)
            \/ IsZero(y) /\ ~ IsNum(x)
            \/ IsInf(y) /\ IsNum(x) /\ IsOne(x)
         THEN "nan" ELSE PowLike(Absolute(x), y)

\* The k-th root; for k < 0, its inverse.
RootLike(x, k) ==
  LET sign == Sign(x.neg /\ OddInt(k))
  IN CASE IsNan(x) \/ k = 0 -> "nan"
       [] ~ IsNan(x) /\ k # 0 ->
            IF ~ IsZero(x) /\ x.neg /\ ~ OddInt(k) THEN "nan"
            ELSE sign \o CASE IsInf(x) -> IF k > 0 THEN "inf" ELSE "0"
                           [] IsZero(x) -> IF k > 0 THEN "0" ELSE "pole"
                           [] IsNum(x) -> ""
RecSqrtLike(x) == IF IsZero(x) THEN "+pole" ELSE RootLike(x, -2)

HypotLike(x, y) ==
  IF IsInf(x) \/ IsInf(y) THEN "+inf"
  ELSE IF IsNan(x) \/ IsNan(y) THEN "nan" ELSE IF IsZero(x) /\ IsZero(y) THEN "+0" ELSE "+"

\* (1 + x)^y for x >= -1; 1 when x = 0 or y = 0.
CompoundLike(x, y) ==
  CASE IsNan(x) -> IF IsZero(y) THEN "+" ELSE "nan"
    [] ~ IsNan(x) /\ Value(x) < At(-1) -> "nan"
    [] IsZero(x) -> "+"
    [] ~ IsNan(x) /\ ~ IsZero(x) /\ Value(x) >= At(-1) ->
         CASE IsZero(y) -> "+"
           [] IsNan(y) -> "nan"
           [] IsInf(y) \/ IsNum(y) ->
                IF Value(x) = At(-1) THEN IF ~ y.neg THEN "+0" ELSE IF IsInf(y) THEN "+inf" ELSE "+pole"
                ELSE IF IsInf(x) \/ IsInf(y) THEN IF x.neg = y.neg THEN "+inf" ELSE "+0"
                ELSE "+"
OfPower(f, x, y) ==
  CASE f \in {"pow", "pow_z", "pow_ui", "pow_si"} -> PowLike(x, y)
    [] f = "powr" -> PowrLike(x, y)
    [] f = "hypot" -> HypotLike(x, y)
    [] f \in {"compound", "compound_si"} -> CompoundLike(x, y)

DestinationsOf(f) == IF f \in {"sin_cos", "sinh_cosh"} THEN {"y", "z"} ELSE {"y"}
SpecialValue(f, xs, o) ==
  CASE f \in {"log_ui", "zeta_ui", "fac_ui"} -> OfInteger(f, xs[1])
    [] f \in TrigUNames -> OfTurn(f, xs[1], xs[2])
    [] f = "sinpi" -> OfTurn("sinu", xs[1], 2)
    [] f = "cospi" -> OfTurn("cosu", xs[1], 2)
    [] f = "tanpi" -> OfTurn("tanu", xs[1], 2)
    [] f \in ArcUNames -> OfArc(f, xs[1], xs[2])
    [] f = "atan2" -> OfAngle(xs[1], xs[2], 1)
    [] f = "atan2u" -> OfAngle(xs[1], xs[2], xs[3])
    [] f = "sin_cos" -> OfOne(IF o = "y" THEN "sin" ELSE "cos", xs[1])
    [] f = "sinh_cosh" -> OfOne(IF o = "y" THEN "sinh" ELSE "cosh", xs[1])
    [] f \in BesselNames \cup {"legendre"} -> OfOrder(f, xs[1], xs[2])
    [] f \in {"agm", "beta", "gamma_inc"} -> OfTwo(f, xs[1], xs[2])
    [] f \in RealPowerNames -> OfPower(f, xs[1], xs[2])
    [] f \in {"rootn_ui", "rootn_si"} -> RootLike(xs[1], xs[2])
    [] f \in IntPowerNames \ {"rootn_ui", "rootn_si"} -> OfPower(f, xs[1], OfInt(xs[2]))
    [] f = "ui_pow" -> OfPower("pow", OfInt(xs[1]), xs[2])
    [] f = "ui_pow_ui" -> OfPower("pow", OfInt(xs[1]), OfInt(xs[2]))
    [] f = "cbrt" -> RootLike(xs[1], 3)
    [] f = "rec_sqrt" -> RecSqrtLike(xs[1])
    [] OTHER -> OfOne(f, xs[1])
=============================================================================
