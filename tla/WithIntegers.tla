----------------------------- MODULE WithIntegers -----------------------------
(***************************************************************************)
(* Operations of a number and of an integer, of C (set_ui_2exp.c to        *)
(* si_op.c) or of GMP (set_z_2exp.c, gmp_op.c).                            *)
(*                                                                         *)
(* An unsigned long has the W bits of a limb (MPFR_LONG_WITHIN_LIMB): it   *)
(* becomes a number of W bits, in the largest range since it may be out of *)
(* the current one.                                                        *)
(***************************************************************************)
EXTENDS Fused

NumBits(u) == CeilLog2(u + 1)
AbsOf(z) == IF z < 0 THEN -z ELSE z

\* The number u # 0 on W bits.
OfLimb(u) == Num(FALSE, NumBits(u), u * 2^(W - NumBits(u)), W)

-----------------------------------------------------------------------------
(* Assignments *)

\* u * 2^e, u # 0: early overflow and underflow, then the rounding of a limb.
SetLimb2exp(p, neg, u, e, rnd) ==
  LET Ranged(r) == CheckRange(Num(neg, e + NumBits(u) + r.carry, r.mant, p), Signed(neg, r.dir),
                              rnd, emin, emax)
  IN CASE e < emin - (W + 1) -> Underflow(p, IF rnd = "RNDN" THEN "RNDZ" ELSE rnd, neg, emin)
       [] e >= emax -> Overflow(p, rnd, neg, emax)
       [] emin - (W + 1) <= e /\ e < emax -> Ranged(RoundRaw(u, NumBits(u), neg, p, rnd))

SetUi2exp(p, u, e, rnd) ==
  IF u = 0 THEN Return(Zero(FALSE, p), 0, {}) ELSE SetLimb2exp(p, FALSE, u, e, rnd)
SetSi2exp(p, i, e, rnd) ==
  IF i = 0 THEN Return(Zero(FALSE, p), 0, {}) ELSE SetLimb2exp(p, i < 0, AbsOf(i), e, rnd)

\* Mutant: a carry to the exponent is not checked against the range.
SetZ2expCarryUnchecked(p, z, e, rnd) ==
  LET neg == z < 0
      m == AbsOf(z)
      exp == e + NumBits(m)
      r == RndRaw(m, NumBits(m), p, IF rnd = "RNDF" THEN "RNDA" ELSE rnd, neg)
  IN IF z = 0 THEN Return(Zero(FALSE, p), 0, {})
     ELSE IF exp > emax THEN Overflow(p, rnd, neg, emax)
     ELSE IF exp + r.carry < emin
     THEN Underflow(p, IF rnd = "RNDN" /\ (exp + 1 < emin \/ (r.dir = 0 /\ r.mant = 2^(p-1)))
                       THEN "RNDZ" ELSE rnd, neg, emin)
     ELSE Return(Num(neg, exp + r.carry, r.mant, p), Signed(neg, r.dir), {})

\* mpfr_set_z_2exp: z * 2^e. MPFR_RNDF rounds away from zero.
SetZ2exp(p, z, e, rnd) ==
  LET neg == z < 0
      m == AbsOf(z)
      exp == e + NumBits(m)
      exact == NumBits(m) <= p
      q == ShiftLeft(m, p - NumBits(m))
      rb == ~ exact /\ RoundBit(m, NumBits(m), p)
      sb == ~ exact /\ m % 2^(NumBits(m) - p - 1) # 0
      up == /\ rb \/ sb
            /\ IF rnd = "RNDN" THEN rb /\ (sb \/ q % 2 = 1) ELSE ~ IsLikeRNDZ(rnd, neg)
      inex == IF up THEN 1 ELSE IF rb \/ sb THEN -1 ELSE 0
      s == Significand(q, p, Decision(up, 0))
      toZero == rnd = "RNDN" /\ (exp + 1 < emin \/ (inex = 0 /\ s.mant = 2^(p-1)))
  IN CASE z = 0 -> Return(Zero(FALSE, p), 0, {})
       [] z # 0 /\ exp > emax -> Overflow(p, rnd, neg, emax)
       [] z # 0 /\ exp = emax /\ s.carry = 1 -> Overflow(p, rnd, neg, emax)
       [] z # 0 /\ exp + s.carry < emin -> Underflow(p, IF toZero THEN "RNDZ" ELSE rnd, neg, emin)
       [] z # 0 /\ exp + s.carry \in emin .. emax ->
            Return(Num(neg, exp + s.carry, s.mant, p), Signed(neg, inex), {})

-----------------------------------------------------------------------------
(* A number and an unsigned long *)

MulUi(p, x, u, rnd) ==
  LET m == x.mant * u
      sp == Size(x.prec) + W                        \* xn + 1 limbs
      Exp(r) == x.exp + NumBits(m) - x.prec + r.carry
      End(r) == IF Exp(r) > emax THEN Overflow(p, rnd, x.neg, emax)
                ELSE Return(Num(x.neg, Exp(r), r.mant, p), Signed(x.neg, r.dir), {})
  IN CASE IsSingular(x) \/ u = 0 -> Return(Zero(x.neg, p), 0, {})
       [] ~ IsSingular(x) /\ u = 1 -> Set4(x, p, rnd, x.neg, emax)
       [] ~ IsSingular(x) /\ \E k \in 1 .. W : u = 2^k -> Mul2si(p, x, CeilLog2(u), rnd)
       [] ~ IsSingular(x) /\ \A k \in 0 .. W : u # 0 /\ u # 2^k ->
            End(RndRaw(m * 2^(sp - NumBits(m)), sp, p, rnd, x.neg))

\* mpfr_add_ui, or mpfr_sub_ui if sub.
AddSubUi(p, x, u, sub, rnd) ==
  CASE u = 0 -> Set4(x, p, rnd, x.neg, emax)
    [] u # 0 /\ IsSingular(x) /\ ~ sub -> SetUi2exp(p, u, 0, rnd)
    [] u # 0 /\ (~ IsSingular(x) \/ sub) -> Checked(ExtAdd!AddSub(p, x, OfLimb(u), sub, rnd, FALSE), rnd)
UiSub(p, u, x, rnd) ==
  CASE u = 0 -> Set4(x, p, rnd, ~ x.neg, emax)
    [] u # 0 /\ IsSingular(x) -> SetUi2exp(p, u, 0, rnd)
    [] u # 0 /\ ~ IsSingular(x) -> Checked(ExtAdd!AddSub(p, OfLimb(u), x, TRUE, rnd, FALSE), rnd)

\* Of x # 0.
UiDiv(p, u, x, rnd) ==
  IF u = 0 THEN Return(Zero(x.neg, p), 0, {})
  ELSE Checked(ExtMul!Div(p, OfLimb(u), x, rnd, FALSE), rnd)

\* Of u # 0.
DivUiOrOne(p, x, u, rnd) ==
  CASE IsSingular(x) -> Return(Zero(x.neg, p), 0, {})
    [] ~ IsSingular(x) /\ u = 1 -> Set4(x, p, rnd, x.neg, emax)
    [] ~ IsSingular(x) /\ u > 1 -> DivUi(p, x, u, rnd)

-----------------------------------------------------------------------------
(* A number and a long: by its opposite when it is negative, in the opposite direction. *)

\* mpfr_add_si, or mpfr_sub_si if sub.
AddSubSi(p, x, i, sub, rnd) == AddSubUi(p, x, AbsOf(i), sub # (i < 0), rnd)
SiSub(p, i, x, rnd) ==
  IF i >= 0 THEN UiSub(p, i, x, rnd) ELSE ChangeSign(AddSubUi(p, x, -i, FALSE, InvertRnd(rnd)))
MulSi(p, x, i, rnd) == SignedBy(i < 0, MulUi(p, x, AbsOf(i), DirectionBy(i < 0, rnd)))
DivSi(p, x, i, rnd) == SignedBy(i < 0, DivUiOrOne(p, x, AbsOf(i), DirectionBy(i < 0, rnd)))
SiDiv(p, i, x, rnd) == SignedBy(i < 0, UiDiv(p, AbsOf(i), x, DirectionBy(i < 0, rnd)))

-----------------------------------------------------------------------------
(* A number and an mpz_t *)

FitsLong(z) == -2^(W - 1) <= z /\ z < 2^(W - 1)

\* init_set_z, asserted to be exact.
InitSetZ(z) ==
  LET p == MaxOf(W, NumBits(AbsOf(z)))
  IN Num(z < 0, NumBits(AbsOf(z)), ShiftLeft(AbsOf(z), p - NumBits(AbsOf(z))), p)

\* foo and foo2, with mpfr_add or mpfr_sub.
AddSubZ(p, x, z, sub, rnd) ==
  IF FitsLong(z) THEN AddSubSi(p, x, z, sub, rnd)
  ELSE Checked(ExtAdd!AddSub(p, x, InitSetZ(z), sub, rnd, FALSE), rnd)
ZSub(p, z, x, rnd) ==
  IF FitsLong(z) THEN SiSub(p, z, x, rnd)
  ELSE Checked(ExtAdd!AddSub(p, InitSetZ(z), x, TRUE, rnd, FALSE), rnd)

\* Of x # 0.
MulZ(p, x, z, rnd) ==
  IF FitsLong(z) THEN MulSi(p, x, z, rnd)
  ELSE Checked(ExtMul!Mul(p, x, InitSetZ(z), FALSE, rnd, FALSE), rnd)
DivZ(p, x, z, rnd) ==
  IF FitsLong(z) THEN DivSi(p, x, z, rnd)
  ELSE Checked(ExtMul!Div(p, x, InitSetZ(z), rnd, FALSE), rnd)
=============================================================================
