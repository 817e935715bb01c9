------------------------------ MODULE Hyperbolic ------------------------------
(***************************************************************************)
(* Bodies of the hyperbolic functions and of their inverses.               *)
(***************************************************************************)
EXTENDS Trig

Odd(x) == IF IsInf(x) THEN RetInf(x.neg) ELSE RetZero(x.neg)  \* of an infinity or a zero

\* exp(x) may overflow though sinh(x) does not: sinh(x) is then 2 sinh(x/2) cosh(x/2).
Sinh(x) ==
  CASE IsNan(x) -> RetNan
    [] IsInf(x) \/ IsZero(x) -> Odd(x)
    [] IsNum(x) ->
         If(Exponent(x) < 0, FastSmallInput)
         \cup (Mark ** Alloc({"group"}) ** Loop(Block ** Maybe(Block ** Maybe(Compute ** Block ** Maybe(Block))))
               ** (Round \cup If(IsHuge(x), Read ** Over(x.neg) ** Update({"over"})))
               ** Dealloc({"group"}) ** FreeAndCheck)

Cosh(x) ==
  CASE IsNan(x) -> RetNan
    [] IsInf(x) -> RetInf(FALSE)
    [] IsZero(x) -> Exact
    [] IsNum(x) ->
         Mark ** (If(Exponent(x) < 0, Round ** FreeAndCheck)
                  \cup (Alloc({"group"}) ** Loop(Block)
                        ** (Round \cup If(IsHuge(x), Over(FALSE) ** Update({"over"})))
                        ** Dealloc({"group"}) ** FreeAndCheck))

\* 1 or the number before, when exp(2x) overflows or tanh(x) rounds to 1.
Tanh(x) ==
  LET SetOne == Write({"inexact", "over", "under"})
  IN CASE IsNan(x) -> RetNan
       [] IsInf(x) -> Read ** Exact
       [] IsZero(x) -> RetZero(x.neg)
       [] IsNum(x) ->
            If(Exponent(x) < 0, FastSmallInput)
            \cup (Mark ** Alloc({"group"})
                  ** (If(IsHuge(x), SetOne) \cup (Loop(Compute) ** (Round \cup If(Exponent(x) > 0, SetOne))))
                  ** Dealloc({"group"}) ** FreeAndCheck)

\* y is the sine and z the cosine: when exp(x) overflows z is written before x is read again.
SinhCosh(x) ==
  LET Both == Round ** RoundTo("z", Classes)
      Overflowed == OverTo("z", FALSE) ** Read ** Round ** Update({"over"})
  IN CASE IsNan(x) -> NanTo("z") ** RetNan
       [] IsInf(x) -> Odd(x) ** InfTo("z", FALSE)
       [] IsZero(x) -> RetZero(x.neg) ** RoundTo("z", {"exact", "over", "under"})
       [] IsNum(x) ->
            Mark ** Alloc({"group"}) ** Loop(Block)
              ** (Both \cup If(IsHuge(x), Overflowed)) ** Dealloc({"group"})
              ** Free ** Check("y") ** Check("z")

Acosh(x) ==
  CASE IsNan(x) \/ IsZero(x) -> RetNan
    [] IsInf(x) -> IF x.neg THEN RetNan ELSE RetInf(FALSE)
    [] IsNum(x) /\ Value(x) < At(1) -> RetNan
    [] IsNum(x) /\ Value(x) = At(1) -> RetZero(FALSE)
    [] IsNum(x) /\ Value(x) > At(1) ->
         Mark ** Alloc({"t"}) ** Loop(Block ** Compute ** Maybe(Alloc({"ln2"}) ** Intermediate ** Dealloc({"ln2"})))
           ** Round ** Dealloc({"t"}) ** FreeAndCheck

Asinh(x) ==
  CASE IsNan(x) -> RetNan
    [] IsInf(x) \/ IsZero(x) -> Odd(x)
    [] IsNum(x) -> If(Exponent(x) < 0, FastSmallInput) \cup Standard({"t"})

AtanhSmall == Alloc({"t'", "u", "x2"}) ** Compute ** Dealloc({"t'", "u", "x2"})
Atanh(x) ==
  CASE NanOrInf(x) -> RetNan
    [] IsZero(x) -> RetZero(x.neg)
    [] IsNum(x) /\ Exponent(x) > 0 -> IF x.v = 2 THEN Pole(x.neg) ELSE RetNan
    [] IsNum(x) /\ Exponent(x) <= 0 ->
         If(Exponent(x) < 0, FastSmallInput)
         \cup (Mark ** Alloc({"t", "te"}) ** Loop(Compute \cup AtanhSmall) ** Read ** Round
               ** Dealloc({"t", "te"}) ** FreeAndCheck)

-----------------------------------------------------------------------------
(* Inverses, by gen_inverse.h                                              *)

CothTiny(x) == InverseOfTiny(x)
CschTiny(x) == InverseOfTiny(x)
Coth(x) ==
  CASE IsNan(x) -> RetNan [] IsInf(x) -> Exact [] IsZero(x) -> Pole(x.neg)
    [] IsNum(x) -> GenInverse(CothTiny(x), FALSE, FALSE)
Csch(x) ==
  CASE IsNan(x) -> RetNan [] IsInf(x) -> RetZero(x.neg) [] IsZero(x) -> Pole(x.neg)
    [] IsNum(x) -> GenInverse(CschTiny(x), IsHuge(x), x.neg)
Sech(x) ==
  CASE IsNan(x) -> RetNan [] IsInf(x) -> RetZero(FALSE) [] IsZero(x) -> Exact
    [] IsNum(x) -> GenInverse(OneOfTiny(x), IsHuge(x), FALSE)

HyperbolicNames == {"sinh", "cosh", "tanh", "sinh_cosh", "acosh", "asinh", "atanh", "coth", "csch", "sech"}
HyperbolicBody(f, x) ==
  CASE f = "sinh" -> Sinh(x) [] f = "cosh" -> Cosh(x) [] f = "tanh" -> Tanh(x)
    [] f = "sinh_cosh" -> SinhCosh(x) [] f = "acosh" -> Acosh(x) [] f = "asinh" -> Asinh(x)
    [] f = "atanh" -> Atanh(x) [] f = "coth" -> Coth(x) [] f = "csch" -> Csch(x) [] f = "sech" -> Sech(x)
=============================================================================
