------------------------------ MODULE Exceptions ------------------------------
(***************************************************************************)
(* Floating-point numbers at the borders of the exponent range: the ones   *)
(* of src/exceptions.c (mpfr_underflow, mpfr_overflow, mpfr_check_range),  *)
(* their neighbours (src/next.c, src/setmin.c, src/setmax.c) and the       *)
(* rounding of one number into another (mpfr_set4 of src/set.c).           *)
(*                                                                         *)
(* A pure FP number of precision p is mant * 2^(exp - p) with a mant of p  *)
(* bits, as in mpfr_t.  An operation returns the number, the ternary value *)
(* and the flags it raises.                                                *)
(***************************************************************************)
EXTENDS Rounding

Num(neg, e, m, p) == [kind |-> "num", neg |-> neg, exp |-> e, mant |-> m, prec |-> p]
Zero(neg, p) == [kind |-> "zero", neg |-> neg, exp |-> 0, mant |-> 0, prec |-> p]
Inf(neg, p) == [kind |-> "inf", neg |-> neg, exp |-> 0, mant |-> 0, prec |-> p]

IsSingular(x) == x.kind # "num"
IsPowerof2Raw(x) == x.mant = 2^(x.prec - 1)

\* MPFR_SIGN(x) * t
Signed(neg, t) == IF neg THEN -t ELSE t

SetMin(neg, e, p) == Num(neg, e, 2^(p-1), p)
SetMax(neg, e, p) == Num(neg, e, 2^p - 1, p)

Flags == {"inexact", "underflow", "overflow"}

Return(y, inex, raised) ==
  [y |-> y, inex |-> inex, raised |-> raised \cup (IF inex = 0 THEN {} ELSE {"inexact"})]

\* What MPFR takes for granted of a number when the range is lo..hi (mpfr_check, and
\* the exponent that MPFR_GET_EXP asserts to be in range).
WellFormed(z, lo, hi) ==
  /\ z.kind \in {"num", "zero", "inf"} /\ z.neg \in BOOLEAN
  /\ z.kind = "num" => /\ lo <= z.exp /\ z.exp <= hi
                       /\ 2^(z.prec - 1) <= z.mant /\ z.mant < 2^z.prec

-----------------------------------------------------------------------------
(* next.c *)

NextToZero(x, emin, emax) ==
  CASE x.kind = "inf" -> SetMax(x.neg, emax, x.prec)
    [] x.kind = "zero" -> SetMin(~ x.neg, emin, x.prec)
    [] x.kind = "num" /\ ~ IsPowerof2Raw(x) -> Num(x.neg, x.exp, x.mant - 1, x.prec)
    [] x.kind = "num" /\ IsPowerof2Raw(x) ->
         IF x.exp = emin THEN Zero(x.neg, x.prec) ELSE SetMax(x.neg, x.exp - 1, x.prec)

NextToInf(x, emin, emax) ==
  CASE x.kind = "inf" -> x
    [] x.kind = "zero" -> SetMin(x.neg, emin, x.prec)
    [] x.kind = "num" /\ x.mant + 1 < 2^x.prec -> Num(x.neg, x.exp, x.mant + 1, x.prec)
    [] x.kind = "num" /\ x.mant + 1 = 2^x.prec ->
         IF x.exp = emax THEN Inf(x.neg, x.prec) ELSE SetMin(x.neg, x.exp + 1, x.prec)

NextAbove(x, emin, emax) ==
  IF x.neg THEN NextToZero(x, emin, emax) ELSE NextToInf(x, emin, emax)
NextBelow(x, emin, emax) ==
  IF x.neg THEN NextToInf(x, emin, emax) ELSE NextToZero(x, emin, emax)

-----------------------------------------------------------------------------
(* exceptions.c *)

\* To nearest, mpfr_underflow rounds away from zero: its callers pass MPFR_RNDZ
\* when the result is to be zero.
Underflow(p, rnd, neg, emin) ==
  IF IsLikeRNDZ(rnd, neg)
  THEN Return(Zero(neg, p), Signed(neg, -1), {"underflow"})
  ELSE Return(SetMin(neg, emin, p), Signed(neg, 1), {"underflow"})

Overflow(p, rnd, neg, emax) ==
  IF IsLikeRNDZ(rnd, neg)
  THEN Return(SetMax(neg, emax, p), Signed(neg, -1), {"overflow"})
  ELSE Return(Inf(neg, p), Signed(neg, 1), {"overflow"})

\* To nearest, x below the range goes to zero when the exact result, which x and
\* t tell, is at most 2^(emin-2).
HalfwayToZero(x, t, emin) ==
  x.exp + 1 < emin \/ (IsPowerof2Raw(x) /\ Signed(x.neg, t) >= 0)

\* Mutant: the inexact infinities, and their overflow flag, are left out.
CheckRangeNoInf(x, t, rnd, emin, emax) ==
  CASE x.kind = "num" /\ x.exp < emin ->
         LET r == IF rnd = "RNDN" /\ HalfwayToZero(x, t, emin) THEN "RNDZ" ELSE rnd
         IN Underflow(x.prec, r, x.neg, emin)
    [] x.kind = "num" /\ x.exp > emax -> Overflow(x.prec, rnd, x.neg, emax)
    [] OTHER -> Return(x, t, {})

\* mpfr_check_range: x with ternary value t, found in the extended range, is
\* brought back to emin..emax.  An inexact infinity means an overflow whose flag
\* was lost when the flags were restored.
CheckRange(x, t, rnd, emin, emax) ==
  CASE x.kind = "num" /\ x.exp < emin ->
         LET r == IF rnd = "RNDN" /\ HalfwayToZero(x, t, emin) THEN "RNDZ" ELSE rnd
         IN Underflow(x.prec, r, x.neg, emin)
    [] x.kind = "num" /\ x.exp > emax -> Overflow(x.prec, rnd, x.neg, emax)
    [] x.kind = "inf" /\ t # 0 -> Return(x, t, {"overflow"})
    [] OTHER -> Return(x, t, {})

-----------------------------------------------------------------------------
(* set.c *)

\* r is a significand of exponent e before the carry, which may leave the range.
SetRounded(e, p, r, rnd, neg, emax) ==
  IF r.carry = 1 /\ e + 1 > emax THEN Overflow(p, rnd, neg, emax)
  ELSE Return(Num(neg, e + r.carry, r.mant, p), Signed(neg, r.dir), {})

\* mpfr_set4: b into a number of precision p, with sign neg.
Set4(b, p, rnd, neg, emax) ==
  IF IsSingular(b) THEN Return([b EXCEPT !.neg = neg, !.prec = p], 0, {})
  ELSE SetRounded(b.exp, p, RndRaw(b.mant, b.prec, p, rnd, neg), rnd, neg, emax)

\* mpfr_set_1_2: u of precision 2p and ternary value inex, to precision p, of one limb.
Set12Small(u, p, rn, inex, emax) ==
  LET q == u.mant \div 2^p
      inex2 == Signed(u.neg, inex)
      rb0 == Bit(u.mant, p - 1) = 1
      sb0 == u.mant % 2^(p-1) # 0
      \* u was rounded away onto a midpoint: the exact result is just below it
      below == inex2 > 0 /\ rb0 /\ ~ sb0
      rb == rb0 /\ ~ below
      sb == sb0 \/ below \/ inex2 < 0
      up == (rb \/ sb)
            /\ IF rn = "RNDN" THEN rb /\ (sb \/ q % 2 = 1) ELSE ~ IsLikeRNDZ(rn, u.neg)
      s == Significand(q, p, Decision(up, 0))
      y == Num(u.neg, u.exp + s.carry, s.mant, p)
  IN CASE ~ rb /\ ~ sb -> Return(y, IF inex2 > 0 THEN inex ELSE 0, {})
       [] up /\ y.exp > emax -> Overflow(p, rn, u.neg, emax)
       [] OTHER -> Return(y, Signed(u.neg, IF up THEN 1 ELSE -1), {})

\* Of more limbs: s is u once rounded, in the wrong direction when u was a midpoint.
Corrected12(s, midpoint, rn, inex, emin, emax) ==
  CASE rn = "RNDN" /\ inex * s.inex > 0 /\ midpoint ->
         [s EXCEPT !.y = IF inex > 0 THEN NextBelow(s.y, emin, emax)
                                     ELSE NextAbove(s.y, emin, emax),
                   !.inex = -inex]
    [] OTHER -> IF s.inex # 0 THEN s ELSE Return(s.y, inex, s.raised)
Set12Large(u, p, rn, inex, emin, emax) ==
  Corrected12(Set4(u, p, rn, u.neg, emax), u.mant % 2^p = 2^(p-1), rn, inex, emin, emax)

Set12(u, p, rn, inex, emin, emax) ==
  CASE IsSingular(u) -> [Set4(u, p, rn, u.neg, emax) EXCEPT !.inex = inex]
    [] ~ IsSingular(u) /\ p < W -> Set12Small(u, p, rn, inex, emax)
    [] ~ IsSingular(u) /\ p >= W -> Set12Large(u, p, rn, inex, emin, emax)
=============================================================================
