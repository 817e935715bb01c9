------------------------------- MODULE Gammas -------------------------------
(***************************************************************************)
(* Bodies of the gamma function, of its logarithm, of its logarithmic      *)
(* derivatives, of beta and of the incomplete gamma function.              *)
(***************************************************************************)
EXTENDS Integrals

NegativeInteger(x) == IsNeg(x) /\ IsInteger(x)

\* The units of |x|; gamma(x) < 0 between -2k - 1 and -2k.
UnitBit(x) == IF IsTiny(x) THEN 0 ELSE (x.v \div 2) % 2
GammaNegative(x) == IsNeg(x) /\ UnitBit(x) = 0

-----------------------------------------------------------------------------
(* Gamma                                                                   *)

\* By the exponential of lngamma, when gamma is out of the range or nearly; it may fail to
\* round, then nothing is written.
ExplgammaFails == Block ** With({"group e"}, Block ** Block)
Explgamma(x) ==
  Block ** ((Update({"over"}) ** Over(GammaNegative(x)))
            \cup (Update({"under"}) ** Under(GammaNegative(x)))
            \cup With({"group e"}, Block ** Block ** Write({"inexact", "over", "under"}) ** Update({"inexact"})))

AuxNames == {"s", "t'", "u'", "v'", "z"}
StirlingSeries == Compute ** With({"Z", "c"}, Compute) ** Maybe(Compute)
GammaAux(x) ==
  Mark ** Alloc(AuxNames) ** (Nothing \cup Loop(StirlingSeries ** Maybe(ExplgammaFails)))
    ** StirlingSeries ** (Round \cup If(Exponent(x) > 1, Explgamma(x)))
    ** Dealloc(AuxNames) ** FreeAndCheck

BitsFac == Mark ** With({"x'", "y'"}, Intermediate) ** Free
GammaTiny(x) == Mark ** ClearFlags ** Read ** AnyRound ** (Nothing \cup UpdateAll) ** FreeAndCheck

\* Out of the range when a lower bound of gamma(x) is.
GammaAboveOne(x) ==
  LET Bound == Mark ** With({"group"}, Compute ** Block) ** Free
  IN (Mark ** Free ** GammaAux(x)) \cup (Bound ** GammaAux(x)) \cup If(IsHuge(x), Bound ** Over(FALSE))

\* By reflection: pi (x - 1) / (sin(pi (2 - x)) gamma(2 - x)), unless a bound underflows.
GammaBelowOne(x) ==
  LET Underflows == With({"xp'", "tmp'", "tmp2'"}, Compute)
      Pass == Compute ** Maybe(ExplgammaFails)
  IN Mark ** (If(IsNeg(x) /\ Exponent(x) > 1, Underflows ** Free ** Under(GammaNegative(x)))
              \cup ((IF IsNeg(x) THEN Underflows ELSE Nothing)
                    ** With({"group"}, (Nothing \cup Loop(Pass))
                                       ** ((Compute ** Round) \cup If(Exponent(x) > 1, Compute ** Explgamma(x))))
                    ** FreeAndCheck))

Gamma(x) ==
  CASE IsNan(x) \/ (IsInf(x) /\ IsNeg(x)) -> RetNan
    [] IsInf(x) /\ IsPos(x) -> RetInf(FALSE)
    [] IsZero(x) -> Pole(x.neg)
    [] IsNum(x) ->
         If(IsTiny(x), GammaTiny(x))
         \cup CASE NegativeInteger(x) -> RetNan
                [] IsPos(x) /\ x.v = 2 -> Exact
                [] IsPos(x) /\ Value(x) > At(1) ->
                     If(IsInteger(x) /\ ~ IsHuge(x), BitsFac ** FacUi(x.v \div 2 - 1))
                     \cup ((IF IsInteger(x) THEN Maybe(BitsFac) ELSE Nothing) ** GammaAboveOne(x))
                [] ~ NegativeInteger(x) /\ Value(x) < At(1) -> GammaBelowOne(x)

-----------------------------------------------------------------------------
(* Its logarithm                                                           *)

LngammaAux(x) ==
  LET Near0(ok) == Alloc({"l"}) ** Alloc({"h"}) ** Alloc({"g"}) ** Compute
                     ** (IF ok THEN Round ELSE Nothing) ** Dealloc({"l", "h", "g"})
      Far == Alloc({"t"}) ** Compute
      General == Alloc(AuxNames) ** Loop(Compute \cup If(Value(x) > At(1), StirlingSeries)) ** Round
                   ** Dealloc(AuxNames) ** FreeAndCheck
  IN Mark
     ** IF IsPos(x) /\ x.v \in {2, 4} THEN Free ** RetZero(FALSE)
        ELSE If(IsHuge(x), Far ** Dealloc({"t"}) ** Free ** Over(FALSE))
             \cup If(IsHuge(x), Far ** Round ** Dealloc({"t"}) ** FreeAndCheck)
             \cup If(IsTiny(x), Near0(TRUE) ** FreeAndCheck)
             \cup ((Nothing \cup If(IsHuge(x), Far ** Dealloc({"t"})) \cup If(IsTiny(x), Loop(Near0(FALSE))))
                   ** General)

Lngamma(x) ==
  CASE IsNan(x) -> RetNan
    [] IsInf(x) -> RetInf(FALSE)
    [] IsZero(x) \/ NegativeInteger(x) -> DivBy0 ** RetInf(FALSE)
    [] IsNum(x) /\ ~ NegativeInteger(x) -> IF GammaNegative(x) THEN RetNan ELSE LngammaAux(x)

\* -log(-x) and -log(-x) - x round to the same number.
Lgamma(x) ==
  LET Between(ok) == With({"l", "h"}, Compute ** IF ok THEN Round ELSE Nothing)
  IN CASE IsNan(x) -> RetNan
       [] IsInf(x) -> RetInf(FALSE)
       [] IsZero(x) \/ NegativeInteger(x) -> Pole(FALSE)
       [] IsNum(x) /\ ~ NegativeInteger(x) ->
            If(IsNeg(x) /\ IsTiny(x),
               Mark ** (Nothing \cup Loop(Between(FALSE))) ** Between(TRUE) ** FreeAndCheck)
            \cup ((IF IsNeg(x) /\ IsTiny(x) THEN Maybe(Mark ** Loop(Between(FALSE)) ** Free) ELSE Nothing)
                  ** LngammaAux(x))

-----------------------------------------------------------------------------
(* Its logarithmic derivatives                                             *)

\* An asymptotic expansion at x + j after a recurrence; write is what is done of the value.
PsiApprox == With({"t a", "u a", "invxx"}, Compute)
PsiPositive(x, write) ==
  LET Log == With({"t p"}, Compute)
  IN If(IsHuge(x), With({"t p"}, Compute ** write))
     \cup ((IF IsHuge(x) THEN Maybe(Log) ELSE Nothing)
           ** With({"x_plus_j", "t p", "u p"}, Loop(Compute ** PsiApprox ** Compute) ** write))
PsiReflection(write) ==
  With({"t", "v"}, Loop(Compute ** PsiPositive(Operand("num", FALSE, 3), Intermediate) ** Compute) ** write)

\* 1 - x: when it is a half integer psi(x) = psi(1 - x).
DigammaReflection(x) ==
  Alloc({"u"}) ** Compute
    ** (IF ~ IsTiny(x)
        THEN Mark ** PsiPositive(Operand("num", FALSE, x.v + 2), Round) ** FreeAndCheck
        ELSE PsiReflection(Round))
    ** Dealloc({"u"})
Digamma(x) ==
  CASE IsNan(x) \/ (IsInf(x) /\ IsNeg(x)) -> RetNan
    [] IsInf(x) /\ IsPos(x) -> RetInf(FALSE)
    [] IsZero(x) -> Pole(IsPos(x))
    [] IsNum(x) ->
         IF NegativeInteger(x) THEN RetNan
         ELSE Mark ** (If(IsTiny(x), Read ** AnyRound ** UpdateAll)
                       \cup (IF IsNeg(x) \/ Exponent(x) < 0 THEN DigammaReflection(x) ELSE PsiPositive(x, Round)))
                   ** FreeAndCheck

HalfTrigamma == With({"t"}, Intermediate ** Round)
TrigammaPositive(x) == IF x.v = 1 THEN HalfTrigamma ELSE PsiPositive(x, Round)
\* A tiny x: 1 / x^2, unless 1 / x overflows; the overflow is given the sign of x.
Trigamma(x) ==
  LET Squared == With({"t"}, Read ** Round ** UpdateAll)  \* 1 / x is inexact at most
  IN CASE IsNan(x) \/ (IsInf(x) /\ IsNeg(x)) -> RetNan
       [] IsInf(x) /\ IsPos(x) -> RetZero(FALSE)
       [] IsZero(x) -> Pole(FALSE)
       [] IsNum(x) ->
            IF NegativeInteger(x) THEN Pole(FALSE)
            ELSE Mark
                 ** (If(IsTiny(x), Alloc({"t"}) ** Compute ** Dealloc({"t"}) ** Free ** Over(x.neg))
                     \cup If(IsTiny(x), Squared ** FreeAndCheck)
                     \cup ((IF IsTiny(x) THEN Maybe(With({"t"}, Compute)) ELSE Nothing)
                           ** (IF IsNeg(x) \/ Exponent(x) < 0
                               THEN With({"u"}, Compute ** PsiReflection(Round)) ELSE TrigammaPositive(x))
                           ** FreeAndCheck))

-----------------------------------------------------------------------------
(* Beta, for z >= w                                                        *)

Signed(x) == IF x.neg THEN -x.v ELSE x.v
SumIsNonPositiveInteger(z, w) ==
  ~ IsTiny(z) /\ ~ IsTiny(w) /\ Signed(z) + Signed(w) <= 0 /\ (Signed(z) + Signed(w)) % 2 = 0

\* q is w truncated toward zero.
BetaSpecial(z, w) ==
  CASE IsInf(z) /\ IsPos(z) ->
         IF ~ IsZero(w) /\ IsPos(w) THEN RetZero(FALSE)
         ELSE IF IsZero(w) \/ IsInf(w) \/ IsInteger(w) THEN RetNan
         ELSE Mark ** With({"t"}, Compute) ** Free ** RetInf(UnitBit(w) = 1)
    [] ~ (IsInf(z) /\ IsPos(z)) /\ IsInf(w) ->
         IF NonPositive(z) \/ ~ IsInteger(z) THEN RetNan ELSE RetZero(IsOdd(z))
    [] ~ IsInf(z) /\ ~ IsInf(w) /\ ~ IsZero(z) -> Pole(w.neg)
    [] IsZero(z) /\ ~ IsInf(w) /\ ~ IsZero(w) -> IF IsInteger(w) THEN RetNan ELSE Pole(z.neg)
    [] IsZero(z) /\ IsZero(w) -> IF z.neg = w.neg THEN Pole(z.neg) ELSE RetNan

\* NaN when the precision that z + w needs, or the product of gammas, is out of reach.
BetaGeneral(z, w) ==
  Mark ** ((Free ** RetNan)
           \cup If(IsHuge(z) /\ IsHuge(w), With({"z_plus_w"}, Compute) ** Free ** UnderAsAsked(FALSE))
           \cup IF SumIsNonPositiveInteger(z, w) /\ ~ IsInteger(w)
                THEN With({"z_plus_w"}, Compute) ** Free ** RetZero(FALSE)
                ELSE Alloc({"z_plus_w"}) ** Compute ** Alloc({"group"}) ** Loop(Compute)
                       ** ((Dealloc({"z_plus_w", "group"}) ** Free ** RetNan)
                           \cup (AnyRound ** Dealloc({"group", "z_plus_w"}) ** FreeAndCheck)))

\* For integers: (-1)^z beta(z, 1 - w - z); the sum is computed in the caller's range.
BetaOrdered(z, w) ==
  CASE IsNan(z) \/ IsNan(w) -> RetNan
    [] ~ IsNan(z) /\ ~ IsNan(w) /\ ~ (IsNum(z) /\ IsNum(w)) -> BetaSpecial(z, w)
    [] IsNum(z) /\ IsNum(w) /\ NegativeInteger(w) ->
         IF IsNeg(z) \/ z.v > w.v \/ ~ IsInteger(z) THEN RetNan
         ELSE IF z.v = w.v THEN Read ** RoundSigned(z.neg)  \* 1 / z
         ELSE Alloc({"z_plus_w'"}) ** Compute ** Read
                ** BetaGeneral(z, Operand("num", FALSE, 2 + w.v - z.v))
                ** (IF IsOdd(z) THEN ChangeSign ELSE Nothing) ** Dealloc({"z_plus_w'"})
    [] IsNum(z) /\ IsNum(w) /\ ~ NegativeInteger(w) ->
         IF NegativeInteger(z) THEN RetNan ELSE BetaGeneral(z, w)
Less(z, w) == ~ IsNan(z) /\ ~ IsNan(w) /\ Value(z) < Value(w)
Beta(z, w) == IF Less(z, w) THEN BetaOrdered(w, z) ELSE BetaOrdered(z, w)

-----------------------------------------------------------------------------
(* The incomplete gamma function                                           *)

GammaIncNegint ==
  Mark ** With({"group"}, Loop(Compute) ** Round) ** FreeAndCheck
GammaIncGeneral(a) ==
  Mark ** Alloc({"group"}) ** Alloc({"u"})
    ** Loop((IF IsNeg(a) THEN With({"s_abs"}, Compute) ELSE Nothing) ** Compute ** Block)
    ** Dealloc({"u"}) ** Round ** Dealloc({"group"}) ** FreeAndCheck

GammaInc(a, x) ==
  CASE IsNan(a) \/ IsNan(x) -> RetNan
    [] IsInf(a) /\ IsInf(x) -> IF IsPos(a) \/ IsNeg(x) THEN RetNan ELSE RetZero(FALSE)
    [] IsInf(a) /\ ~ IsNan(x) /\ ~ IsInf(x) ->
         IF IsPos(a) THEN RetInf(FALSE)
         ELSE IF NonPositive(x) THEN RetNan
         ELSE IF Value(x) < At(1) THEN RetInf(FALSE) ELSE RetZero(FALSE)
    [] ~ IsNan(a) /\ ~ IsInf(a) /\ IsInf(x) -> IF IsPos(x) THEN RetZero(FALSE) ELSE RetNan
    [] IsZero(a) /\ ~ IsNan(x) /\ ~ IsInf(x) ->
         IF IsZero(x) THEN Gamma(a)
         ELSE IF IsNeg(x) THEN RetNan
         ELSE Eint(Opposed(x)) ** ChangeSign
    [] IsNum(a) /\ IsZero(x) -> Gamma(a)
    [] IsNum(a) /\ IsNum(x) ->
         IF IsNeg(x) THEN RetNan
         ELSE IF NegativeInteger(a) THEN GammaIncNegint ELSE GammaIncGeneral(a)

GammaNames == {"gamma", "lngamma", "lgamma", "digamma", "trigamma"}
GammaBody(f, x) ==
  CASE f = "gamma" -> Gamma(x) [] f = "lngamma" -> Lngamma(x) [] f = "lgamma" -> Lgamma(x)
    [] f = "digamma" -> Digamma(x) [] f = "trigamma" -> Trigamma(x)
=============================================================================
