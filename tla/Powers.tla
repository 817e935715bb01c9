-------------------------------- MODULE Powers --------------------------------
(***************************************************************************)
(* Bodies of the powers, the roots, the hypotenuse and compound.           *)
(***************************************************************************)
EXTENDS Bodies

SetTo(x) ==  \* mpfr_set
  CASE IsNan(x) -> RetNan [] IsInf(x) -> RetInf(x.neg) [] IsZero(x) -> RetZero(x.neg)
    [] IsNum(x) -> Read ** AnyRound
OddInt(n) == n % 2 = 1
AboveOne(x) == Value(Absolute(x)) > At(1)
IsOne(x) == Value(x) = At(1)
OneInMagnitude(x) == Value(Absolute(x)) = At(1)

\* Where x^y may leave the range, upwards when |x| > 1 and y > 0 or |x| < 1 and y < 0.
Grows(x, y) == AboveOne(x) # y.neg
Extreme(x, y) == (IsHuge(x) \/ IsTiny(x) \/ IsHuge(y)) /\ ~ OneInMagnitude(x)
MayOver(x, y) == Grows(x, y) /\ Extreme(x, y)
MayUnder(x, y) == ~ Grows(x, y) /\ Extreme(x, y)
OfInt(n) == IF n = 0 THEN Operand("zero", FALSE, 0) ELSE Operand("num", n < 0, 2 * (IF n < 0 THEN -n ELSE n))
PowerOf2(x) == x.v \in {0, 1, 2, 4, Huge}

-----------------------------------------------------------------------------
(* Integer exponents                                                       *)

\* To nearest, an underflow is decided by the general algorithm, for a result of 2 bits.
By2Bits == With({"y2", "zz"}, Compute)

\* mpfr_pow_pos_z, for an exponent above 1: the powers stop at the first exception.
PowPosZ(x, y, neg) ==
  With({"res"},
    Loop(Block) ** ClearFlags ** Read
      ** (AnyRound
          \cup If(MayOver(x, y), Over(neg))
          \cup If(MayUnder(x, y), Under(neg) \cup (By2Bits ** ClearFlags ** Under(neg)))))

\* (1/x)^(-n): out of the range when 1/x or its power is.
NegativePower(x, y, neg) ==
  Alloc({"t"}) ** Loop(Block ** Maybe(Block))
    ** ((Round ** Dealloc({"t"}) ** FreeAndCheck)
        \cup If(MayOver(x, y), Dealloc({"t"}) ** Free ** Over(neg))
        \cup If(MayUnder(x, y),
               Dealloc({"t"})
                 ** ((By2Bits ** Under(neg) ** Update({"under"}) ** FreeAndCheck) \cup (Free ** Under(neg)))))

\* A mutant: the parity of n is forgotten.
ZeroOrInfOfSignX(x, n) ==
  CASE IsNan(x) -> RetNan
    [] IsInf(x) -> IF n > 0 THEN RetInf(x.neg) ELSE RetZero(x.neg)
    [] IsZero(x) -> IF n > 0 THEN RetZero(x.neg) ELSE Pole(x.neg)

\* x^n for a singular x.
ZeroOrInf(x, n) ==
  LET neg == x.neg /\ OddInt(n)
  IN CASE IsNan(x) -> RetNan
       [] IsInf(x) -> IF n > 0 THEN RetInf(neg) ELSE RetZero(neg)
       [] IsZero(x) -> IF n > 0 THEN RetZero(neg) ELSE Pole(neg)

PowZ(x, n) ==
  LET neg == x.neg /\ OddInt(n)
      y == OfInt(n)
      ExponentOnly == If(MayUnder(x, y), Under(neg)) \cup If(MayOver(x, y), Over(neg)) \cup Exact
  IN CASE n = 0 -> Exact
       [] n # 0 /\ ~ IsNum(x) -> ZeroOrInf(x, n)
       [] n # 0 /\ IsNum(x) ->
            Mark ** (If(PowerOf2(x), Read ** With({"tmp"}, ExponentOnly) ** UpdateAll ** FreeAndCheck)
                     \cup If(x.v \notin {1, 2, 4} /\ n > 0,
                             (IF n = 1 THEN Read ** AnyRound ELSE PowPosZ(x, y, neg)) ** UpdateAll ** FreeAndCheck)
                     \cup If(x.v \notin {1, 2, 4} /\ n < 0, NegativePower(x, y, neg)))

\* When the powers leave the range mpfr_pow_z starts again, in the caller's range.
PowUi(x, n) ==
  CASE n = 0 -> Exact
    [] n > 0 /\ ~ IsNum(x) -> ZeroOrInf(x, n)
    [] n \in {1, 2} /\ IsNum(x) -> Read ** AnyRound
    [] n > 2 /\ IsNum(x) ->
         Mark ** Alloc({"res"}) ** Loop(Block)
           ** ((AnyRound ** Dealloc({"res"}) ** FreeAndCheck)
               \cup If(Extreme(x, OfInt(n)), Dealloc({"res"}) ** Free ** With({"z"}, PowZ(x, n))))

PowSi(x, n) ==
  CASE n >= 0 -> PowUi(x, n)
    [] n < 0 /\ ~ IsNum(x) -> ZeroOrInf(x, n)
    [] n < 0 /\ IsNum(x) ->
         If(PowerOf2(x), Read ** Exact)
         \cup If(x.v \notin {1, 2, 4}, Mark ** NegativePower(x, OfInt(n), x.neg /\ OddInt(n)))

UiPowUi(k, n) ==
  IF n = 0 \/ (k > 0 /\ (n = 1 \/ k = 1)) THEN Exact
  ELSE IF k = 0 THEN RetZero(FALSE)
  ELSE Mark ** Alloc({"res"}) ** Loop(Intermediate)
         ** ((AnyRound ** Dealloc({"res"}))
             \cup (Dealloc({"res"}) ** Alloc({"kf"})
                   ** With({"z"}, ClearFlags ** (Round \cup Over(FALSE))) ** Dealloc({"kf"}) ** UpdateAll))
         ** FreeAndCheck

-----------------------------------------------------------------------------
(* Real exponents                                                          *)

\* y = c 2^d with d < 0: x must be a square d times; then mpfr_pow_z.
PowIsExact(y, is) ==
  IF y.neg THEN If(~ is, Nothing)
  ELSE With({"c"}, With({"a"}, IF is THEN With({"tmp"}, Read ** AnyRound) ELSE Nothing))

\* exp(y log|x|); when that is out of the range though the result may not be, 2^k is put aside.
PowGeneral(x, y, neg) ==
  LET Scaled == With({"u", "k"}, Loop(Compute) ** Round ** ClearFlags ** Round ** Maybe(UpdateAll))
  IN With({"t"},
       (Nothing \cup Loop(Compute ** Block ** PowIsExact(y, FALSE))) ** Compute ** Block
         ** (Round
             \cup If(~ IsInteger(y), PowIsExact(y, TRUE))
             \cup If(MayUnder(x, y), Under(neg) ** Update({"inexact", "under"}))
             \cup If(MayOver(x, y), Compute ** Block ** Over(neg) ** Update({"inexact", "over"}))
             \cup If(Extreme(x, y), Scaled)))

PowSingular(x, y) ==
  CASE IsZero(y) -> Exact
    [] ~ IsZero(y) /\ IsNan(x) -> RetNan
    [] ~ IsNan(x) /\ IsNan(y) -> IF IsOne(x) THEN Exact ELSE RetNan
    [] IsInf(y) /\ ~ IsNan(x) ->
         IF OneInMagnitude(x) THEN Exact ELSE IF Grows(x, y) THEN RetInf(FALSE) ELSE RetZero(FALSE)
    [] IsNum(y) /\ IsInf(x) -> IF y.neg THEN RetZero(x.neg /\ IsOdd(y)) ELSE RetInf(x.neg /\ IsOdd(y))
    [] IsNum(y) /\ IsZero(x) -> IF y.neg THEN Pole(x.neg /\ IsOdd(y)) ELSE RetZero(x.neg /\ IsOdd(y))

\* A first estimate of the exponent of the result, then powers by multiplications, by 2^(by),
\* around 1, or in general.
PowNumbers(x, y) ==
  LET neg == x.neg /\ IsOdd(y)
      Estimated == Mark ** Compute ** Free
      MayBeLow == IF y.neg THEN Exponent(x) > 1 ELSE Exponent(x) < 0
      ByPowZ == With({"zi"}, PowZ(x, (IF y.neg THEN -y.v ELSE y.v) \div 2))
      ByExp2 == IF x.neg THEN If(MayUnder(x, y), Under(neg))
                ELSE Mark ** With({"tmp"}, Compute ** ClearFlags ** AnyRound) ** UpdateAll ** FreeAndCheck
      NearOne == If(IsTiny(y), Mark ** SmallAfterMark(Nothing))
  IN If(MayOver(x, y), Estimated ** Over(neg))
     \cup If(MayUnder(x, y) /\ MayBeLow, Estimated ** Under(neg))
     \cup ((Nothing \cup If(Grows(x, y) \/ MayBeLow, Estimated))
           ** (If(IsInteger(y), ByPowZ)
               \cup If(~ IsInteger(y) \/ IsHuge(y),
                       If(PowerOf2(x), ByExp2)
                       \cup If(x.v \notin {1, 4},
                               NearOne \cup (Mark ** ClearFlags ** PowGeneral(x, y, neg) ** FreeAndCheck)))))

Pow(x, y) ==
  IF ~ (IsNum(x) /\ IsNum(y)) THEN PowSingular(x, y)
  ELSE IF x.neg /\ ~ IsInteger(y) THEN RetNan
  ELSE IF OneInMagnitude(x) THEN Exact
  ELSE PowNumbers(x, y)

Powr(x, y) ==
  IF \/ IsNan(x) \/ (x.neg /\ ~ IsZero(x))
     \/ ~ IsNum(x) /\ IsZero(y)
     \/ IsOne(x) /\ IsInf(y)
  THEN RetNan
  ELSE IF IsZero(x) /\ x.neg /\ IsNum(y) THEN IF y.neg THEN Pole(FALSE) ELSE RetZero(FALSE)
  ELSE Pow(x, y)

UiPow(n, x) == Mark ** Pow(OfInt(n), x) ** UpdateAll ** FreeAndCheck

-----------------------------------------------------------------------------
(* Roots                                                                   *)

\* The integer root of the significand, by GMP.
OfMantissa == Mark ** With({"m"}, Read ** Write({"exact"} \cup Classes)) ** FreeAndCheck
Cbrt(x) == IF IsNum(x) THEN OfMantissa ELSE SetTo(x)

\* For k > 100: by exp and log; an exact root is looked for when the rounding fails.
RootAux ==
  Alloc({"group"}) ** Mark
    ** Loop(Compute ** Maybe(With({"z", "zk"}, Compute)))
    ** (Round \cup With({"z", "zk"}, Compute ** AnyRound)) ** Dealloc({"group"}) ** FreeAndCheck
RootnUi(x, k) ==
  CASE k = 0 -> RetNan
    [] k = 1 -> SetTo(x)
    [] k > 1 /\ (IsNan(x) \/ (~ IsNan(x) /\ ~ IsZero(x) /\ x.neg /\ ~ OddInt(k))) -> RetNan
    [] k > 1 /\ IsInf(x) /\ (OddInt(k) \/ ~ x.neg) -> RetInf(x.neg)
    [] k > 1 /\ IsZero(x) -> RetZero(x.neg /\ OddInt(k))
    [] k > 1 /\ IsNum(x) /\ (OddInt(k) \/ ~ x.neg) ->
         IF OneInMagnitude(x) THEN Read ** AnyRound ELSE IF k > 100 THEN RootAux ELSE OfMantissa

RecSqrt(u) ==
  CASE IsNan(u) \/ (~ IsNan(u) /\ ~ IsZero(u) /\ u.neg) -> RetNan
    [] IsZero(u) -> Pole(FALSE)
    [] IsInf(u) /\ ~ u.neg -> RetZero(FALSE)
    [] IsNum(u) /\ ~ u.neg ->
         (Nothing \cup Loop(With({"marker"}, Read)))
           ** With({"marker"}, Read ** Write({"exact"} \cup Classes)) ** Check("y")

RootnSi(x, k) ==
  CASE k >= 0 -> RootnUi(x, k)
    [] k < 0 /\ (IsNan(x) \/ (~ IsNan(x) /\ ~ IsZero(x) /\ x.neg /\ ~ OddInt(k))) -> RetNan
    [] k < 0 /\ IsInf(x) /\ (OddInt(k) \/ ~ x.neg) -> RetZero(x.neg)
    [] k < 0 /\ IsZero(x) -> Pole(x.neg /\ OddInt(k))
    [] k < 0 /\ IsNum(x) /\ (OddInt(k) \/ ~ x.neg) ->
         IF OneInMagnitude(x) \/ k = -1 THEN Read ** AnyRound
         ELSE IF k = -2 THEN RecSqrt(x)
         ELSE Mark ** With({"t"}, Loop(Compute) ** AnyRound) ** FreeAndCheck

\* When y is negligible the result is |x| or the number above; else x and y are scaled, and
\* the last division may overflow.
Hypot(x, y) ==
  CASE IsInf(x) \/ IsInf(y) -> RetInf(FALSE)
    [] ~ IsInf(x) /\ ~ IsInf(y) /\ (IsNan(x) \/ IsNan(y)) -> RetNan
    [] IsZero(x) /\ ~ (IsInf(y) \/ IsNan(y)) -> IF IsZero(y) THEN RetZero(FALSE) ELSE SetTo(Absolute(y))
    [] IsNum(x) /\ IsZero(y) -> SetTo(Absolute(x))
    [] IsNum(x) /\ IsNum(y) ->
         If(Exponent(x) # Exponent(y), Read ** RoundTo("y", {"inexact", "over"}))
         \cup (Alloc({"t", "te", "ti"}) ** Mark ** Loop(Compute) ** ClearFlags ** AnyRound
               ** Dealloc({"t", "te", "ti"}) ** FreeAndCheck)

-----------------------------------------------------------------------------
(* (1 + x)^n                                                               *)

OnePlus(x) ==
  IF IsTiny(x) THEN OfInt(1) ELSE IF IsHuge(x) THEN x
  ELSE Operand("num", FALSE, IF x.neg THEN 2 - x.v ELSE 2 + x.v)
CompoundNearOne == Write(Classes)
\* power: what raises 1 + x to the power y when it is exact; far: whether a large x is
\* tried for itself.
CompoundNumbers(x, y, power, far) ==
  LET End == Dealloc({"compound_t", "compound_u"}) ** FreeAndCheck
      Failed == Compute ** (IF far THEN Maybe(With({"v"}, Compute)) ELSE Nothing)
      Out(exception) == Compute ** Dealloc({"compound_t", "compound_u"}) ** Free ** exception
      z == OnePlus(x)
  IN Mark ** Alloc({"compound_t", "compound_u"}) ** (Nothing \cup Loop(Failed))
       ** (If(~ IsTiny(x), Compute ** ClearFlags ** power ** UpdateAll ** End)
           \cup If(MayOver(z, y), Out(Over(FALSE)))
           \cup If(MayUnder(z, y), Out(Under(FALSE)))
           \cup If(IsTiny(x) \/ IsTiny(y), Compute ** CompoundNearOne ** End)
           \cup (Compute ** Round ** End)
           \cup If(far /\ IsHuge(x), Compute ** With({"v"}, Compute ** Write({"inexact", "over"})) ** End))

AtMinusOne(neg, divides) == IF ~ neg THEN RetZero(FALSE) ELSE IF divides THEN Pole(FALSE) ELSE RetInf(FALSE)
CompoundSi(x, n) ==
  CASE IsInf(x) /\ x.neg -> RetNan
    [] (IsNan(x) /\ n = 0) \/ IsZero(x) -> Exact
    [] IsNan(x) /\ n # 0 -> RetNan
    [] IsInf(x) /\ ~ x.neg -> IF n = 0 THEN Exact ELSE IF n < 0 THEN RetZero(FALSE) ELSE RetInf(FALSE)
    [] IsNum(x) ->
         IF Value(x) < At(-1) THEN RetNan
         ELSE IF n = 0 THEN Exact
         ELSE IF Value(x) = At(-1) THEN AtMinusOne(n < 0, TRUE)
         ELSE IF n = 1 THEN Read ** AnyRound
         ELSE CompoundNumbers(x, OfInt(n), PowSi(OnePlus(x), n), n > 1)

Compound(x, y) ==
  CASE IsInf(x) /\ x.neg -> RetNan
    [] IsZero(x) \/ (~ (IsInf(x) /\ x.neg) /\ ~ IsNum(x) /\ IsZero(y)) -> Exact
    [] ~ IsNum(x) /\ ~ (IsInf(x) /\ x.neg) /\ ~ IsZero(x) /\ ~ IsZero(y) ->
         IF IsNan(x) \/ IsNan(y) THEN RetNan ELSE IF y.neg THEN RetZero(FALSE) ELSE RetInf(FALSE)
    [] IsNum(x) ->
         IF IsNan(y) \/ Value(x) < At(-1) THEN RetNan
         ELSE IF IsZero(y) THEN Exact
         ELSE IF Value(x) = At(-1) THEN AtMinusOne(y.neg, ~ IsInf(y))
         ELSE IF IsInf(y) THEN IF x.neg # y.neg THEN RetZero(FALSE) ELSE RetInf(FALSE)
         ELSE CompoundNumbers(x, y, Pow(OnePlus(x), y), FALSE)

PowerNames == {"cbrt", "rec_sqrt"}
PowerBody(f, x) == CASE f = "cbrt" -> Cbrt(x) [] f = "rec_sqrt" -> RecSqrt(x)
IntPowerNames == {"pow_z", "pow_ui", "pow_si", "rootn_ui", "rootn_si", "compound_si"}
IntPowerBody(f, x, n) ==
  CASE f = "pow_z" -> PowZ(x, n) [] f = "pow_ui" -> PowUi(x, n) [] f = "pow_si" -> PowSi(x, n)
    [] f = "rootn_ui" -> RootnUi(x, n) [] f = "rootn_si" -> RootnSi(x, n)
    [] f = "compound_si" -> CompoundSi(x, n)
RealPowerNames == {"pow", "powr", "hypot", "compound"}
RealPowerBody(f, x, y) ==
  CASE f = "pow" -> Pow(x, y) [] f = "powr" -> Powr(x, y) [] f = "hypot" -> Hypot(x, y)
    [] f = "compound" -> Compound(x, y)
=============================================================================
