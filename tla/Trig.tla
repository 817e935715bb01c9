--------------------------------- MODULE Trig ---------------------------------
(***************************************************************************)
(* Bodies of the trigonometric functions.                                  *)
(***************************************************************************)
EXTENDS Bodies

NanOrInf(x) == IsNan(x) \/ IsInf(x)

-----------------------------------------------------------------------------
(* Sines and cosines of many bits: binary splitting over mpz_t             *)

SinBsAux == Alloc({"pp", "T_Q_ptoj"}) ** Dealloc({"pp", "T_Q_ptoj"})
SinCosAux ==
  LET names == {"x2", "Q", "S", "C", "Q2", "S2", "C2", "y'"}
  IN Alloc(names) ** Compute ** Maybe(Loop(Nothing \cup SinBsAux)) ** Intermediate ** Dealloc(names)

\* The destinations ds; |x| is at most Pi/4, or it is reduced.
SinCosFast(x, ds) ==
  LET Reduced == Alloc({"x_red", "pi"}) ** Compute ** SinCosAux ** Dealloc({"x_red", "pi"})
      Both == IF ds = {"y", "z"} THEN Round ** RoundTo("z", Classes) ELSE RoundTo(CHOOSE d \in ds : TRUE, Classes)
  IN Alloc({"group"}) ** Loop(IF x.v <= 1 THEN SinCosAux ELSE Reduced) ** Both ** Dealloc({"group"})
SinFast(x) == SinCosFast(x, {"y"})
CosFast(x) == SinCosFast(x, {"y"})

Sin(x) ==
  LET names == {"c"} \cup IF Exponent(x) >= 2 THEN {"xr"} ELSE {}
  IN CASE NanOrInf(x) -> RetNan
       [] IsZero(x) -> RetZero(x.neg)
       [] IsNum(x) -> If(Exponent(x) < 0, FastSmallInput)
                      \cup (Mark ** (SinFast(x) \cup ZivRound(names)) ** FreeAndCheck)

CosSeries == Alloc({"x'", "s", "t"}) ** Dealloc({"x'", "s", "t"})  \* mpfr_cos2_aux
Cos(x) ==
  LET names == {"group"} \cup IF Exponent(x) >= 3 THEN {"c", "xr"} ELSE {}
      General == Alloc(names) ** Loop(Compute ** Maybe(CosSeries ** Intermediate)) ** Round ** Dealloc(names)
  IN CASE NanOrInf(x) -> RetNan
       [] IsZero(x) -> Exact
       [] IsNum(x) -> Mark ** (If(Exponent(x) < 0, SmallAfterMark(Nothing))
                               \cup (NotSmall ** (CosFast(x) \cup General) ** FreeAndCheck))

\* same: the destination that is x. The one that is x is written last when x is small.
\* Above MPFR_SINCOS_THRESHOLD the user's range is back before the computation.
SinCos(x, same) ==
  LET RoundZ == RoundTo("z", Classes)
      End == Free ** Check("y") ** Check("z")
      SinOfSmall == Read ** Round
      First == IF same = "y" THEN RoundZ ELSE SinOfSmall
      Second == IF same = "y" THEN SinOfSmall ELSE RoundZ
      General == (Free ** SinCosFast(x, {"y", "z"}))
                 \cup (Alloc({"c", "xr"}) ** Loop(Compute) ** Round ** RoundZ ** Dealloc({"c", "xr"}) ** End)
  IN CASE NanOrInf(x) -> RetNan ** NanTo("z")
       [] IsZero(x) -> RetZero(x.neg) ** RoundTo("z", {"exact", "over", "under"})
       [] IsNum(x) -> Mark ** (If(Exponent(x) < 0, First ** (Second ** UpdateAll ** End \cup General)) \cup General)

Tan(x) ==
  CASE NanOrInf(x) -> RetNan
    [] IsZero(x) -> RetZero(x.neg)
    [] IsNum(x) -> If(Exponent(x) < 0, FastSmallInput) \cup Standard({"group"})

-----------------------------------------------------------------------------
(* Inverses, by gen_inverse.h                                              *)

\* A mutant: the range is not restored before an underflow.
GenInverseKeepingRange(tiny, overflows, neg) ==
  Mark ** (tiny
           \cup (Alloc({"z"}) ** Loop(Block)
                 ** (If(overflows, Dealloc({"z"}) ** Under(neg))
                     \cup (Round ** Dealloc({"z"}) ** FreeAndCheck))))

\* tiny: what is done instead for a tiny x; overflows: whether the function that is inverted
\* can overflow, the sign of the inverse being neg.
GenInverse(tiny, overflows, neg) ==
  Mark ** (tiny
           \cup (Alloc({"z"}) ** Loop(Block)
                 ** (If(overflows, Dealloc({"z"}) ** Free ** Under(neg))
                     \cup (Round ** Dealloc({"z"}) ** FreeAndCheck))))

\* 1/x, to which a little is added.
InverseOfTiny(x) == If(IsTiny(x), Read ** RoundTo("y", {"inexact", "over"}) ** UpdateAll ** FreeAndCheck)
\* A mutant: the sign of x is read after 1/x is written.
CotTinyReadingLate(x) == If(IsTiny(x), RoundTo("y", {"inexact", "over"}) ** Read ** UpdateAll ** FreeAndCheck)
CotTiny(x) == InverseOfTiny(x)
CscTiny(x) == InverseOfTiny(x)
OneOfTiny(x) == If(IsTiny(x), Round ** FreeAndCheck)

Cot(x) ==
  CASE NanOrInf(x) -> RetNan [] IsZero(x) -> Pole(x.neg)
    [] IsNum(x) -> GenInverse(CotTiny(x), FALSE, FALSE)
Csc(x) ==
  CASE NanOrInf(x) -> RetNan [] IsZero(x) -> Pole(x.neg)
    [] IsNum(x) -> GenInverse(CscTiny(x), FALSE, FALSE)
Sec(x) ==
  CASE NanOrInf(x) -> RetNan [] IsZero(x) -> Exact
    [] IsNum(x) -> GenInverse(OneOfTiny(x), FALSE, FALSE)

-----------------------------------------------------------------------------
(* sin(2 Pi x/u), cos, tan: x is reduced modulo u, and the exact values are *)
(* looked for when the first rounding fails.                                *)

Modulo(x, u) == x.v % (2 * u)
Part(n, x, u) == (n * Modulo(x, u)) \div (2 * u)           \* n times the fraction of a turn
IsPart(n, x, u) == (n * Modulo(x, u)) % (2 * u) = 0
IsReduced(x, u) == x.v >= 2 * u
XrOf(x, u) == IF IsReduced(x, u) THEN {"xr"} ELSE {}
Reduction(x, u) == IF IsReduced(x, u) THEN Alloc({"xr"}) ** Compute ELSE Nothing
IsMultiple(x, u) == IsReduced(x, u) /\ Modulo(x, u) = 0

\* A mutant: the reduced operand is not cleared.
PartEndLeavingXr(x, u, result) ==
  Alloc({"t"}) ** Loop(Compute) ** result ** Dealloc({"t"}) ** FreeAndCheck
PartEnd(x, u, result) ==
  Alloc({"t"}) ** Loop(Compute) ** result ** Dealloc({"t"} \cup XrOf(x, u)) ** FreeAndCheck
\* The argument underflows in the extended range.
PartUnderflow(x, u) ==
  If(IsTiny(x), Alloc({"t"}) ** Compute ** Under(x.neg) ** Update({"inexact", "under"})
                  ** Dealloc({"t"} \cup XrOf(x, u)) ** Free)

Sinu(x, u) ==
  LET Result == CASE IsTiny(x) -> Round
                  [] IsPart(4, x, u) -> IF Part(4, x, u) % 2 = 0 THEN ZeroTo("y", x.neg) ELSE Exact
                  [] ~ IsPart(4, x, u) /\ u % 3 = 0 /\ IsPart(12, x, u) -> Exact
                  [] OTHER -> Round
  IN CASE u = 0 \/ NanOrInf(x) -> RetNan
       [] u # 0 /\ IsZero(x) -> RetZero(x.neg)
       [] u # 0 /\ IsNum(x) ->
            Mark ** Reduction(x, u)
              ** IF IsMultiple(x, u) THEN Dealloc({"xr"}) ** Free ** RetZero(x.neg)
                 ELSE PartUnderflow(x, u) \cup PartEnd(x, u, Result)

Cosu(x, u) ==
  LET Result == CASE IsTiny(x) -> Round
                  [] IsPart(4, x, u) -> IF Part(4, x, u) % 2 = 1 THEN ZeroTo("y", FALSE) ELSE Exact
                  [] ~ IsPart(4, x, u) /\ u % 3 = 0 /\ IsPart(6, x, u) -> Exact
                  [] OTHER -> Round
  IN CASE u = 0 \/ NanOrInf(x) -> RetNan
       [] u # 0 /\ IsZero(x) -> Exact
       [] u # 0 /\ IsNum(x) ->
            Mark ** Reduction(x, u)
              ** IF IsMultiple(x, u) THEN Dealloc({"xr"}) ** Free ** Exact
                 ELSE If(IsTiny(x), SmallAfterMark(Dealloc(XrOf(x, u))))
                      \cup (NotSmall ** PartEnd(x, u, Result))

Tanu(x, u) ==
  LET Eighth == (IF x.neg THEN -Part(8, x, u) ELSE Part(8, x, u)) % 8
      Result == CASE IsTiny(x) -> Round
                  [] ~ IsTiny(x) /\ ~ IsPart(8, x, u) -> Round
                  [] OTHER ->
                       CASE Eighth = 0 -> ZeroTo("y", x.neg)
                         [] Eighth = 4 -> ZeroTo("y", ~ x.neg)
                         [] Eighth \in {2, 6} -> InfTo("y", Eighth = 6) ** Update({"divby0"})
                         [] Eighth % 2 = 1 -> Exact
  IN CASE u = 0 \/ NanOrInf(x) -> RetNan
       [] u # 0 /\ IsZero(x) -> RetZero(x.neg)
       [] u # 0 /\ IsNum(x) ->
            Mark ** Reduction(x, u)
              ** IF IsMultiple(x, u) THEN Dealloc({"xr"}) ** Free ** RetZero(x.neg)
                 ELSE PartUnderflow(x, u)
                      \cup (Alloc({"t"}) ** Loop(Compute ** Alloc({"z"}) ** Dealloc({"z"})) ** Result
                            ** Dealloc({"t"} \cup XrOf(x, u)) ** FreeAndCheck)

Sinpi(x) == Sinu(x, 2)
Cospi(x) == Cosu(x, 2)
Tanpi(x) == Tanu(x, 2)

TrigNames == {"sin", "cos", "tan", "cot", "csc", "sec", "sin_cos", "sinpi", "cospi", "tanpi"}
TrigUNames == {"sinu", "cosu", "tanu"}
TrigBody(f, x, same) ==
  CASE f = "sin" -> Sin(x) [] f = "cos" -> Cos(x) [] f = "tan" -> Tan(x)
    [] f = "cot" -> Cot(x) [] f = "csc" -> Csc(x) [] f = "sec" -> Sec(x)
    [] f = "sin_cos" -> SinCos(x, same)
    [] f = "sinpi" -> Sinpi(x) [] f = "cospi" -> Cospi(x) [] f = "tanpi" -> Tanpi(x)
TrigUBody(f, x, u) ==
  CASE f = "sinu" -> Sinu(x, u) [] f = "cosu" -> Cosu(x, u) [] f = "tanu" -> Tanu(x, u)
=============================================================================
